------------------------------ MODULE OpenSkyAuth ------------------------------
(***************************************************************************)
(* ingestion/opensky_auth.py: get_token caches a bearer token and fetches  *)
(* a new one Buffer seconds before it takes the old one to expire.  The    *)
(* expiry is computed when the answer arrives, after the server issued the *)
(* token.  The token server is external: its JSON may leave out either     *)
(* field or carry a null token.                                            *)
(***************************************************************************)
EXTENDS Integers

CONSTANTS
  Lives,        \* how long the server accepts a token
  Default,      \* expires_in where an answer states none: 1800
  Buffer,       \* _EXPIRY_BUFFER_SECONDS
  Latency,      \* how long a request may take
  MaxClock,     \* bound: the clock stops there
  NoToken,      \* None, JSON's null
  Absent        \* a field that an answer does not have

(* A token is known by the moment the server stops accepting it.           *)
Token == [until : Nat]

ASSUME AuthAssumption ==
  /\ Buffer \in Nat
  /\ Latency \in Nat
  /\ Lives \subseteq Nat
  /\ Default \in Nat
  /\ MaxClock \in Nat
  /\ NoToken \notin Token
  /\ Absent \notin Token \cup {NoToken} \cup Nat

VARIABLES
  clock,       \* time.monotonic()
  token,       \* self._token
  expires_at,  \* self._expires_at
  own,         \* history: expires_at is what the server stated for token
  pc,          \* where get_token is
  asked,       \* when the request under way was sent
  issued,      \* the server's answer on its way
  given        \* what get_token is returning

vars == <<clock, token, expires_at, own, pc, asked, issued, given>>

Answer == [access_token : Token \cup {NoToken, Absent}, expires_in : Lives \cup {Absent}]

(* payload.get("expires_in", 1800)                                         *)
ExpiresIn(answer) == IF answer.expires_in = Absent THEN Default ELSE answer.expires_in

Returned == {"cached", "fetched", "raised"}

TypeOK ==
  /\ clock \in Nat
  /\ token \in Token \cup {NoToken}
  /\ expires_at \in Nat
  /\ own \in BOOLEAN
  /\ pc \in {"idle", "asking", "answered"} \cup Returned
  /\ asked \in Nat
  /\ pc = "answered" => issued \in Answer
  /\ given \in Token \cup {NoToken}

Init ==
  /\ clock = 0
  /\ token = NoToken
  /\ expires_at = 0
  /\ own = FALSE
  /\ pc = "idle"
  /\ asked = 0
  /\ issued = NoToken
  /\ given = NoToken

-----------------------------------------------------------------------------

(* Time passes, but no request takes longer than Latency.                  *)
Tick ==
  /\ clock < MaxClock
  /\ pc \in {"asking", "answered"} => clock < asked + Latency
  /\ pc \notin Returned
  /\ clock' = clock + 1
  /\ UNCHANGED <<token, expires_at, own, pc, asked, issued, given>>

(* Slip: no buffer.                                                        *)
UsableToTheEnd == token # NoToken /\ clock < expires_at

Usable == token # NoToken /\ clock < expires_at - Buffer

Cached ==
  /\ pc = "idle"
  /\ Usable
  /\ pc' = "cached"
  /\ given' = token
  /\ UNCHANGED <<clock, token, expires_at, own, asked, issued>>

Ask ==
  /\ pc = "idle"
  /\ ~Usable
  /\ pc' = "asking"
  /\ asked' = clock
  /\ UNCHANGED <<clock, token, expires_at, own, issued, given>>

(* External: a token's life begins here, and expires_in, if stated, is it. *)
Issue(life) ==
  /\ pc = "asking"
  /\ pc' = "answered"
  /\ \E t \in {[until |-> clock + life], NoToken, Absent}, e \in {life, Absent} :
       issued' = [access_token |-> t, expires_in |-> e]
  /\ UNCHANGED <<clock, token, expires_at, own, asked, given>>

(* Slip: the whole answer is kept, not its access_token.                   *)
ArriveKeepsAnswer ==
  /\ pc = "answered"
  /\ issued.access_token # Absent
  /\ expires_at' = clock + ExpiresIn(issued)
  /\ token' = issued
  /\ given' = issued
  /\ own' = (issued.expires_in # Absent)
  /\ pc' = "fetched"
  /\ issued' = NoToken
  /\ UNCHANGED <<clock, asked>>

(* A null token is stored and returned as well: None.                      *)
Arrive ==
  /\ pc = "answered"
  /\ issued.access_token # Absent
  /\ expires_at' = clock + ExpiresIn(issued)
  /\ token' = issued.access_token
  /\ given' = issued.access_token
  /\ own' = (issued.expires_in # Absent)
  /\ pc' = "fetched"
  /\ issued' = NoToken
  /\ UNCHANGED <<clock, asked>>

(* payload["access_token"] raises KeyError: _expires_at is already set and *)
(* _token still the old one.                                               *)
ArriveMalformed ==
  /\ pc = "answered"
  /\ issued.access_token = Absent
  /\ expires_at' = clock + ExpiresIn(issued)
  /\ own' = FALSE
  /\ pc' = "raised"
  /\ issued' = NoToken
  /\ UNCHANGED <<clock, token, asked, given>>

(* The request, its status, its JSON or an expires_in that is no number    *)
(* raises before anything is assigned.                                     *)
AskFails ==
  /\ pc \in {"asking", "answered"}
  /\ pc' = "raised"
  /\ issued' = NoToken
  /\ UNCHANGED <<clock, token, expires_at, own, asked, given>>

Return ==
  /\ pc \in Returned
  /\ pc' = "idle"
  /\ given' = NoToken
  /\ asked' = 0
  /\ UNCHANGED <<clock, token, expires_at, own, issued>>

Next ==
  \/ Tick \/ Cached \/ Ask \/ (\E life \in Lives : Issue(life))
  \/ Arrive \/ ArriveMalformed \/ AskFails \/ Return

Spec == Init /\ [][Next]_vars

-----------------------------------------------------------------------------

(***************************************************************************)
(* A token served from the cache outlives the request it is served for:    *)
(* the server accepts it for more than Buffer less Latency seconds to come *)
(* (opensky_auth.py:19-20, "to avoid racing a request against an           *)
(* about-to-expire token"), however short its life and slow the request    *)
(* that brought it.  This is so while the expiry is the one the server     *)
(* stated for this very token; the default and a renewal by an answer      *)
(* without a token give no such promise.                                   *)
(***************************************************************************)
TokenOutlivesRequest ==
  pc = "cached" /\ own => given.until > clock + Buffer - Latency

(***************************************************************************)
(* "Return a valid bearer token, refreshing it if needed"                  *)
(* (opensky_auth.py:47): no token that get_token returns has expired.      *)
(***************************************************************************)
TokensValid == given # NoToken => given.until > clock

=============================================================================
