--------------------------- MODULE WeatherCacheProofs ---------------------------
(***************************************************************************)
(* Theorems about WeatherCache for any threads, positions, grid, TTL and   *)
(* number of attempts, and for as long as the clock runs.                  *)
(***************************************************************************)
EXTENDS WeatherCache, TLAPS

(* What a thread carries from its request to the cache.                    *)
InFlight ==
  \A t \in Threads :
    /\ pc[t] = "fetch" => tries[t] < Attempts
    /\ pc[t] \in {"read", "fetch", "put"} => now[t] <= clock /\ pos[t] \in Positions
    /\ Served(t) => pos[t] \in Positions /\ result[t].cell = Key(t)
    /\ pc[t] = "put" => /\ result[t] \in Reading
                        /\ result[t].cell = Key(t)
                        /\ now[t] <= result[t].seen

(* Every position has a cell, within half its width.                       *)
LEMMA GridKeyNear ==
  \A p \in Positions : GridKey(p) \in Cells /\ 2 * Distance(p, GridKey(p)) <= Width
<1> SUFFICES ASSUME NEW p \in Positions
             PROVE  GridKey(p) \in Cells /\ 2 * Distance(p, GridKey(p)) <= Width
  OBVIOUS
<1>1. GridKey(p) \in Cells /\ Nearest(p, GridKey(p))
  BY GridAssumption DEF GridKey
<1>2. Distance(p, GridKey(p)) \in Int
  <2>1. p \in Int /\ GridKey(p) \in Int /\ Width \in Int
    <3>1. p \in Int
      BY GridAssumption
    <3>2. GridKey(p) \in Int
      BY <1>1, GridAssumption
    <3>3. Width \in Int
      BY GridAssumption
    <3> QED BY <3>1, <3>2, <3>3
  <2>2. \A i, j \in Int : i * j \in Int
    OBVIOUS
  <2>3. GridKey(p) * Width \in Int
    BY <2>1, <2>2
  <2> QED BY <2>1, <2>3 DEF Distance
<1> QED BY <1>1, <1>2, GridAssumption DEF Nearest

IInv == TypeOK /\ InFlight /\ EntriesHonest /\ ServedFresh

LEMMA InitIInv == Init => IInv
<1> SUFFICES ASSUME Init PROVE IInv
  OBVIOUS
<1> QED BY WeatherAssumption DEF Served, Init, IInv, TypeOK, InFlight, EntriesHonest, ServedFresh, PC

LEMMA NextIInv == IInv /\ [Next]_vars => IInv'
<1> SUFFICES ASSUME IInv, [Next]_vars PROVE IInv'
  OBVIOUS
<1> USE WeatherAssumption, OutcomeAssumption, GridKeyNear DEF Key, Served, IInv, TypeOK, InFlight, EntriesHonest,
        ServedFresh, PC, Goto, Yield, locals
<1>1. CASE Tick
  BY <1>1 DEF Tick
<1>2. ASSUME NEW t \in Threads, LookupNowhere(t) PROVE IInv'
  BY <1>2 DEF LookupNowhere
<1>3. ASSUME NEW t \in Threads, NEW p \in Positions, Lookup(t, p) PROVE IInv'
  BY <1>3 DEF Lookup
<1>4. ASSUME NEW t \in Threads, ReadHit(t) PROVE IInv'
  <2> DEFINE e == cache[Key(t)]
  <2>1. /\ e \in Entry /\ e.reading \in Reading /\ e.reading.cell = Key(t)
        /\ e.at \in Nat /\ e.reading.seen \in Nat
        /\ e.at <= e.reading.seen /\ now[t] - e.at < TTL
    BY <1>4 DEF ReadHit, Hit, Entry, Reading
  <2>2. now[t] - e.reading.seen < TTL
    BY <2>1
  <2>3. TypeOK' /\ InFlight' /\ EntriesHonest'
    BY <1>4, <2>1 DEF ReadHit
  <2>4. ServedFresh'
    BY <1>4, <2>1, <2>2 DEF ReadHit
  <2> QED BY <2>3, <2>4
<1>5. ASSUME NEW t \in Threads, ReadMiss(t) PROVE IInv'
  BY <1>5 DEF ReadMiss
<1>6. ASSUME NEW t \in Threads, HttpOk(t) PROVE IInv'
  <2>1. [cell |-> Key(t), seen |-> clock] \in Reading
    BY <1>6 DEF HttpOk, Reading
  <2> QED BY <1>6, <2>1 DEF HttpOk
<1>7. ASSUME NEW t \in Threads, HttpFails(t) PROVE IInv'
  BY <1>7 DEF HttpFails
<1>8. ASSUME NEW t \in Threads, HttpMalformed(t) PROVE IInv'
  BY <1>8 DEF HttpMalformed
<1>9. ASSUME NEW t \in Threads, Put(t) PROVE IInv'
  <2> DEFINE e == [reading |-> result[t], at |-> now[t]]
  <2>1. e \in Entry /\ e # None /\ e.reading.cell = Key(t) /\ e.at <= e.reading.seen
    BY <1>9 DEF Put, Entry
  <2>2. cache' = [cache EXCEPT ![Key(t)] = e]
    BY <1>9 DEF Put
  <2> HIDE DEF e
  <2>3. TypeOK' /\ InFlight'
    BY <1>9, <2>1, <2>2 DEF Put
  <2>4. EntriesHonest'
    BY <2>1, <2>2
  <2>5. ServedFresh'
    BY <1>9 DEF Put, Reading
  <2> QED BY <2>3, <2>4, <2>5
<1>10. ASSUME NEW t \in Threads, Return(t) PROVE IInv'
  BY <1>10 DEF Return
<1>11. CASE UNCHANGED vars
  BY <1>11 DEF vars
<1> QED BY <1>1, <1>2, <1>3, <1>4, <1>5, <1>6, <1>7, <1>8, <1>9, <1>10, <1>11 DEF Next, Step

(***************************************************************************)
(* Type correctness of the cache and of the lookups under way.             *)
(***************************************************************************)
THEOREM TypeCorrect == Spec => []TypeOK
<1>1. IInv => TypeOK
  BY DEF IInv
<1> QED BY InitIInv, NextIInv, <1>1, PTL DEF Spec

(***************************************************************************)
(* However the threads' lookups overlap, an entry expires no later than    *)
(* its reading ...                                                         *)
(***************************************************************************)
THEOREM EntriesExpireInTime == Spec => []EntriesHonest
<1>1. IInv => EntriesHonest
  BY DEF IInv
<1> QED BY InitIInv, NextIInv, <1>1, PTL DEF Spec

(***************************************************************************)
(* ... and no lookup returns a reading older than the TTL,                 *)
(***************************************************************************)
THEOREM ReadingsAreFresh == Spec => []ServedFresh
<1>1. IInv => ServedFresh
  BY DEF IInv
<1> QED BY InitIInv, NextIInv, <1>1, PTL DEF Spec

(***************************************************************************)
(* ... or one of a place more than half a cell away from the aircraft.     *)
(***************************************************************************)
THEOREM ReadingsAreNear == Spec => []ServedNearby
<1>1. IInv => ServedNearby
  BY GridKeyNear DEF IInv, InFlight, ServedNearby, Key
<1> QED BY InitIInv, NextIInv, <1>1, PTL DEF Spec

-----------------------------------------------------------------------------
(* Lookups end *)

(* Steps a lookup still takes at most, all its requests failing.           *)
CallLeft(t) ==
  CASE pc[t] = "idle"  -> 0
    [] pc[t] = "done"  -> 1
    [] pc[t] = "put"   -> 2
    [] pc[t] = "fetch" -> 2 + (Attempts - tries[t])
    [] pc[t] = "read"  -> 3 + Attempts

CallsBounded == \A t \in Threads : CallLeft(t) \in 0..(3 + Attempts)

LookupsRunOut ==
  \A t \in Threads :
    /\ Step(t) => CallLeft(t)' < CallLeft(t) /\ \A u \in Threads \ {t} : CallLeft(u)' = CallLeft(u)
    /\ pc[t] # "idle" => CallLeft(t)' <= CallLeft(t)

LEMMA BoundedCalls == IInv => CallsBounded
BY WeatherAssumption DEF IInv, TypeOK, PC, CallsBounded, CallLeft

LEMMA NextLookups == IInv /\ CallsBounded /\ CallsBounded' /\ [Next]_vars => LookupsRunOut
<1> SUFFICES ASSUME IInv, CallsBounded, CallsBounded', [Next]_vars PROVE LookupsRunOut
  OBVIOUS
<1> USE WeatherAssumption DEF TypeOK, PC, Goto, Yield, locals
<1>0. TypeOK /\ InFlight
  BY DEF IInv
<1>a. \A t \in Threads : pc'[t] = pc[t] /\ tries'[t] = tries[t] => CallLeft(t)' = CallLeft(t)
  BY DEF CallLeft
<1>b. \A t \in Threads : CallLeft(t) \in Nat /\ CallLeft(t)' \in Nat
  BY DEF CallsBounded
<1>1. ASSUME NEW t \in Threads, Step(t) PROVE CallLeft(t)' < CallLeft(t)
  <2>1. CASE ReadHit(t) \/ ReadMiss(t)
    BY <1>0, <2>1 DEF ReadHit, ReadMiss, CallLeft
  <2>2. CASE HttpOk(t) \/ HttpFails(t) \/ HttpMalformed(t)
    BY <1>0, <2>2 DEF HttpOk, HttpFails, HttpMalformed, CallLeft, InFlight
  <2>3. CASE Put(t) \/ Return(t)
    BY <1>0, <2>3 DEF Put, Return, CallLeft
  <2> QED BY <1>1, <2>1, <2>2, <2>3 DEF Step
<1>2. ASSUME NEW t \in Threads, Step(t), NEW u \in Threads \ {t}
      PROVE  pc'[u] = pc[u] /\ tries'[u] = tries[u]
  BY <1>0, <1>2 DEF Step, ReadHit, ReadMiss, HttpOk, HttpFails, HttpMalformed, Put, Return
<1>3. ASSUME NEW t \in Threads, pc[t] # "idle", ~Step(t)
      PROVE  pc'[t] = pc[t] /\ tries'[t] = tries[t]
  <2>1. CASE Tick \/ UNCHANGED vars
    BY <2>1 DEF Tick, vars
  <2>2. ASSUME NEW u \in Threads, LookupNowhere(u) \/ \E p \in Positions : Lookup(u, p)
        PROVE  pc'[t] = pc[t] /\ tries'[t] = tries[t]
    BY <1>0, <1>3, <2>2 DEF LookupNowhere, Lookup
  <2>3. ASSUME NEW u \in Threads, Step(u) PROVE pc'[t] = pc[t] /\ tries'[t] = tries[t]
    BY <1>2, <1>3, <2>3
  <2> QED BY <2>1, <2>2, <2>3 DEF Next
<1> HIDE DEF CallLeft
<1> QED BY <1>a, <1>b, <1>1, <1>2, <1>3 DEF LookupsRunOut

(***************************************************************************)
(* Whatever OpenMeteo answers and whatever the other threads do, a lookup  *)
(* is over after one look into the cache, Attempts requests, and the two   *)
(* steps that store and hand over the result (weather.py:57-105).          *)
(***************************************************************************)
THEOREM LookupsAreShort == Spec => []CallsBounded /\ [][LookupsRunOut]_vars
<1>1. IInv => CallsBounded
  BY BoundedCalls
<1>2. IInv /\ CallsBounded /\ CallsBounded' /\ [Next]_vars => LookupsRunOut
  BY NextLookups
<1> QED BY InitIInv, NextIInv, <1>1, <1>2, PTL DEF Spec

-----------------------------------------------------------------------------
(* The grid *)

LEMMA Floor ==
  \A p \in Int, w \in Nat \ {0} : \E c \in Int : c * w <= p /\ p < (c + 1) * w
<1> SUFFICES ASSUME NEW p \in Int, NEW w \in Nat \ {0}
             PROVE  \E c \in Int : c * w <= p /\ p < (c + 1) * w
  OBVIOUS
<1> DEFINE c == p \div w
<1>1. c \in Int /\ p = w * c + (p % w) /\ 0 <= p % w /\ p % w < w
  OBVIOUS
<1>2. c * w <= p /\ p < (c + 1) * w
  BY <1>1
<1> QED BY <1>1, <1>2

LEMMA Gaps ==
  \A c, d, w \in Int :
    /\ c * w \in Int /\ (c + 1) * w = c * w + w
    /\ c < d /\ w > 0 => c * w + w <= d * w /\ (d # c + 1 => c * w + 2 * w <= d * w)
OBVIOUS

(* Halves go to the even one of the two cells they lie between.            *)
LEMMA SomeCell == \A p \in Int : \E c \in Int : Nearest(p, c)
<1> SUFFICES ASSUME NEW p \in Int PROVE \E c \in Int : Nearest(p, c)
  OBVIOUS
<1>0. Width \in Nat \ {0}
  BY GridAssumption
<1>1. PICK c \in Int : c * Width <= p /\ p < (c + 1) * Width
  BY <1>0, Floor
<1> DEFINE low == c * Width
<1>2. low \in Int /\ (c + 1) * Width = low + Width /\ low <= p /\ p < low + Width
  BY <1>0, <1>1, Gaps
<1>3. Distance(p, c) = p - low /\ Distance(p, c + 1) = low + Width - p
  BY <1>0, <1>2 DEF Distance
<1>4. c % 2 = 0 \/ (c + 1) % 2 = 0
  BY <1>1
<1> HIDE DEF low
<1>5. Nearest(p, c) \/ Nearest(p, c + 1)
  BY <1>0, <1>2, <1>3, <1>4 DEF Nearest
<1> QED BY <1>1, <1>5

LEMMA OnlyCell ==
  \A p, c, d \in Int : c < d => ~ (Nearest(p, c) /\ Nearest(p, d))
<1> SUFFICES ASSUME NEW p \in Int, NEW c \in Int, NEW d \in Int, c < d, Nearest(p, c), Nearest(p, d)
             PROVE  FALSE
  OBVIOUS
<1>0. Width \in Nat \ {0}
  BY GridAssumption
<1> DEFINE low == c * Width  high == d * Width
<1>1. /\ low \in Int /\ high \in Int
      /\ low + Width <= high /\ (d # c + 1 => low + 2 * Width <= high)
  BY <1>0, Gaps
<1>2. /\ Distance(p, c) = IF p < low THEN low - p ELSE p - low
      /\ Distance(p, d) = IF p < high THEN high - p ELSE p - high
  BY DEF Distance
<1>3. c % 2 = 0 => (c + 1) % 2 # 0
  OBVIOUS
<1> HIDE DEF low, high
<1>4. d = c + 1 /\ 2 * Distance(p, c) = Width /\ 2 * Distance(p, d) = Width
  BY <1>0, <1>1, <1>2 DEF Nearest
<1> QED BY <1>0, <1>3, <1>4 DEF Nearest

(***************************************************************************)
(* Every coordinate rounds to exactly one cell, halves included            *)
(* (weather.py:50-55, round() to the even one), so that threads that ask   *)
(* for one place always meet at one entry, and what is assumed of Cells    *)
(* holds of every grid that is large enough.                               *)
(***************************************************************************)
THEOREM OneCellEach ==
  \A p \in Int : \E c \in Int : \A d \in Int : Nearest(p, d) <=> d = c
<1> SUFFICES ASSUME NEW p \in Int PROVE \E c \in Int : \A d \in Int : Nearest(p, d) <=> d = c
  OBVIOUS
<1>1. PICK c \in Int : Nearest(p, c)
  BY SomeCell
<1>2. ASSUME NEW d \in Int, Nearest(p, d) PROVE d = c
  <2>1. ~ (c < d) /\ ~ (d < c)
    BY <1>1, <1>2, OnlyCell
  <2> QED BY <2>1
<1> QED BY <1>1, <1>2

=============================================================================
