----------------------------- MODULE WeatherCache -----------------------------
(***************************************************************************)
(* consumer/weather.py: WeatherClient.get_weather, called by the worker    *)
(* threads at the same time.  The cache is read under a lock and written   *)
(* under it, but not in between: the HTTP request runs unlocked, and the   *)
(* time the entry is stamped with is the time the call began.              *)
(***************************************************************************)
EXTENDS Integers

CONSTANTS
  Threads,     \* callers of get_weather
  Positions,   \* where aircraft are: integers along one coordinate
  Cells,       \* numbers of grid cells; cell c is centred on c * Width
  Width,       \* grid_size_deg, in the unit of Positions
  TTL,         \* cache_ttl_seconds
  Attempts,    \* stop_after_attempt of _fetch_with_retry
  MaxClock,    \* bound: the clock stops there
  None,        \* no position, no entry, no reading
  Raised       \* get_weather ended in an exception

(* Rounding to the nearest cell, halves to the even one.                   *)
Distance(p, c) == IF p < c * Width THEN c * Width - p ELSE p - c * Width

(* Slip: the coordinate is cut off instead of rounded.                     *)
CutOff(p, c)  == c * Width <= p /\ p < (c + 1) * Width

Nearest(p, c) == 2 * Distance(p, c) < Width \/ (2 * Distance(p, c) = Width /\ c % 2 = 0)
GridKey(p)    == CHOOSE c \in Cells : Nearest(p, c)

ASSUME GridAssumption ==
  /\ Positions \subseteq Int /\ Cells \subseteq Int
  /\ Width \in Nat \ {0}
  /\ \A p \in Positions : \E c \in Cells : Nearest(p, c)

ASSUME WeatherAssumption ==
  /\ TTL \in Nat
  /\ Attempts \in Nat \ {0}
  /\ MaxClock \in Nat

(* A reading is known by the cell it is for and the time the server gave   *)
(* it; an entry also carries its time stamp.                               *)
Reading == [cell : Cells, seen : Nat]
Entry   == [reading : Reading, at : Nat]

ASSUME OutcomeAssumption == {None, Raised} \cap (Reading \cup Entry) = {} /\ None # Raised
                            /\ None \notin Positions

VARIABLES
  clock,   \* time.monotonic()
  cache,   \* self._cache
  pc,      \* where each thread is in get_weather
  pos,     \* the position it asks for
  now,     \* when its call began
  tries,   \* failed attempts of its request
  result   \* what it is about to store or return

vars   == <<clock, cache, pc, pos, now, tries, result>>
locals == <<pc, pos, now, tries, result>>

PC == {"idle", "read", "fetch", "put", "done"}

TypeOK ==
  /\ clock \in Nat
  /\ cache \in [Cells -> Entry \cup {None}]
  /\ pc \in [Threads -> PC]
  /\ pos \in [Threads -> Positions \cup {None}]
  /\ now \in [Threads -> Nat]
  /\ tries \in [Threads -> 0..Attempts]
  /\ result \in [Threads -> Reading \cup {None, Raised}]

Init ==
  /\ clock = 0
  /\ cache = [c \in Cells |-> None]
  /\ pc = [t \in Threads |-> "idle"]
  /\ pos = [t \in Threads |-> None]
  /\ now = [t \in Threads |-> 0]
  /\ tries = [t \in Threads |-> 0]
  /\ result = [t \in Threads |-> None]

Key(t)      == GridKey(pos[t])
Goto(t, p)  == pc' = [pc EXCEPT ![t] = p]
Yield(t, r) == result' = [result EXCEPT ![t] = r]

-----------------------------------------------------------------------------

Tick ==
  /\ clock < MaxClock
  /\ clock' = clock + 1
  /\ UNCHANGED <<cache, locals>>

(* A flight without a position has no weather.                             *)
LookupNowhere(t) ==
  /\ pc[t] = "idle"
  /\ Goto(t, "done")
  /\ Yield(t, None)
  /\ now' = [now EXCEPT ![t] = clock]
  /\ UNCHANGED <<clock, cache, pos, tries>>

Lookup(t, p) ==
  /\ pc[t] = "idle"
  /\ Goto(t, "read")
  /\ pos' = [pos EXCEPT ![t] = p]
  /\ now' = [now EXCEPT ![t] = clock]
  /\ UNCHANGED <<clock, cache, tries, result>>

Hit(t) == cache[Key(t)] # None /\ now[t] - cache[Key(t)].at < TTL

ReadHit(t) ==
  /\ pc[t] = "read"
  /\ Hit(t)
  /\ Goto(t, "done")
  /\ Yield(t, cache[Key(t)].reading)
  /\ UNCHANGED <<clock, cache, pos, now, tries>>

ReadMiss(t) ==
  /\ pc[t] = "read"
  /\ ~Hit(t)
  /\ Goto(t, "fetch")
  /\ tries' = [tries EXCEPT ![t] = 0]
  /\ UNCHANGED <<clock, cache, pos, now, result>>

HttpOk(t) ==
  /\ pc[t] = "fetch"
  /\ Goto(t, "put")
  /\ Yield(t, [cell |-> Key(t), seen |-> clock])
  /\ UNCHANGED <<clock, cache, pos, now, tries>>

(* Slips: the count of attempts starts over; the limit off by one.         *)
HttpFailsForEver(t) ==
  /\ pc[t] = "fetch"
  /\ tries' = [tries EXCEPT ![t] = (tries[t] + 1) % Attempts]
  /\ UNCHANGED <<clock, cache, pc, pos, now, result>>
HttpFailsOnceMore(t) ==
  /\ pc[t] = "fetch"
  /\ tries' = [tries EXCEPT ![t] = tries[t] + 1]
  /\ IF tries[t] + 1 <= Attempts
     THEN UNCHANGED <<pc, result>>
     ELSE Goto(t, "done") /\ Yield(t, None)
  /\ UNCHANGED <<clock, cache, pos, now>>

(* httpx.HTTPError: tried again, then None; a failure is not cached.       *)
HttpFails(t) ==
  /\ pc[t] = "fetch"
  /\ tries' = [tries EXCEPT ![t] = tries[t] + 1]
  /\ IF tries[t] + 1 < Attempts
     THEN UNCHANGED <<pc, result>>
     ELSE Goto(t, "done") /\ Yield(t, None)
  /\ UNCHANGED <<clock, cache, pos, now>>

(* A body that is no JSON or has no usable "current" block raises an error *)
(* that is no httpx.HTTPError: neither retried nor caught.                 *)
HttpMalformed(t) ==
  /\ pc[t] = "fetch"
  /\ Goto(t, "done")
  /\ Yield(t, Raised)
  /\ UNCHANGED <<clock, cache, pos, now, tries>>

(* Slip: stamped with the time of the write.                               *)
PutStampedNow(t) ==
  /\ pc[t] = "put"
  /\ cache' = [cache EXCEPT ![Key(t)] = [reading |-> result[t], at |-> clock]]
  /\ Goto(t, "done")
  /\ UNCHANGED <<clock, pos, now, tries, result>>

Put(t) ==
  /\ pc[t] = "put"
  /\ cache' = [cache EXCEPT ![Key(t)] = [reading |-> result[t], at |-> now[t]]]
  /\ Goto(t, "done")
  /\ UNCHANGED <<clock, pos, now, tries, result>>

(* The caller has the result; the locals of the call are gone.             *)
Return(t) ==
  /\ pc[t] = "done"
  /\ Goto(t, "idle")
  /\ Yield(t, None)
  /\ pos' = [pos EXCEPT ![t] = None]
  /\ now' = [now EXCEPT ![t] = 0]
  /\ tries' = [tries EXCEPT ![t] = 0]
  /\ UNCHANGED <<clock, cache>>

Step(t) == ReadHit(t) \/ ReadMiss(t) \/ HttpOk(t) \/ HttpFails(t) \/ HttpMalformed(t)
           \/ Put(t) \/ Return(t)

Next ==
  \/ Tick
  \/ \E t \in Threads :
       LookupNowhere(t) \/ (\E p \in Positions : Lookup(t, p)) \/ Step(t)

Spec == Init /\ [][Next]_vars

(* Threads run and every request ends, by the client's timeout of 15 s.    *)
FairSpec == Spec /\ \A t \in Threads : WF_vars(Step(t))

-----------------------------------------------------------------------------

(***************************************************************************)
(* An entry's stamp is never later than the reading in it: a request that  *)
(* takes long makes an entry expire earlier, never later.  Entries are     *)
(* filed under the cell they are for.                                      *)
(***************************************************************************)
EntriesHonest ==
  \A c \in Cells : cache[c] # None =>
    cache[c].reading.cell = c /\ cache[c].at <= cache[c].reading.seen

(***************************************************************************)
(* Whatever other threads did to the entry meanwhile, a reading that       *)
(* get_weather returns was given by the server less than one TTL before    *)
(* the call (or during it).                                                *)
(***************************************************************************)
Served(t)   == pc[t] = "done" /\ result[t] \notin {None, Raised}
ServedFresh ==
  \A t \in Threads : Served(t) =>
    result[t].seen >= now[t] \/ now[t] - result[t].seen < TTL

(***************************************************************************)
(* ... and it is the weather of a place within half a cell of the          *)
(* aircraft, whichever thread asked for it and for which position: the     *)
(* cache never passes on the weather of another place.                     *)
(***************************************************************************)
ServedNearby ==
  \A t \in Threads : Served(t) => 2 * Distance(pos[t], result[t].cell) <= Width

(***************************************************************************)
(* Every lookup returns, however often its requests fail.                  *)
(***************************************************************************)
LookupReturns == \A t \in Threads : pc[t] # "idle" ~> pc[t] = "idle"

=============================================================================
