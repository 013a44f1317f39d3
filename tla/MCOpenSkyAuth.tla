---------------------------- MODULE MCOpenSkyAuth ----------------------------
(***************************************************************************)
(* Instances of OpenSkyAuth for TLC; the clock is bounded by MaxClock.     *)
(***************************************************************************)
EXTENDS OpenSkyAuth

=============================================================================
