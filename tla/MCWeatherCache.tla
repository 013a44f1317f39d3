---------------------------- MODULE MCWeatherCache ----------------------------
(***************************************************************************)
(* Instances of WeatherCache for TLC; the clock is bounded by MaxClock.    *)
(***************************************************************************)
EXTENDS WeatherCache

=============================================================================
