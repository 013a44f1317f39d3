--------------------------- MODULE OpenSkyAuthProofs ---------------------------
(***************************************************************************)
(* Theorems about OpenSkyAuth for any buffer, latency, default, token      *)
(* lives and length of run.                                                *)
(***************************************************************************)
EXTENDS OpenSkyAuth, TLAPS

(* The answer under way was given within Latency of its arrival, and what  *)
(* it states of the token it carries is true.                              *)
RequestOK ==
  /\ pc \in {"asking", "answered"} => asked <= clock /\ clock <= asked + Latency
  /\ pc = "answered" /\ issued.access_token \in Token /\ issued.expires_in # Absent =>
       /\ asked + issued.expires_in <= issued.access_token.until
       /\ issued.access_token.until <= clock + issued.expires_in

(* The client takes the token to expire at most Latency after the server.  *)
ExpiryOK == token # NoToken /\ own => expires_at <= token.until + Latency

IInv == TypeOK /\ RequestOK /\ ExpiryOK /\ TokenOutlivesRequest

LEMMA InitIInv == Init => IInv
<1> SUFFICES ASSUME Init PROVE IInv
  OBVIOUS
<1>1. own \in BOOLEAN
  BY Zenon DEF Init
<1>2. TypeOK
  BY <1>1 DEF Init, TypeOK
<1>3. RequestOK /\ ExpiryOK /\ TokenOutlivesRequest
  BY DEF Init, RequestOK, ExpiryOK, TokenOutlivesRequest
<1> QED BY <1>2, <1>3 DEF IInv

LEMMA ExpiresInType == \A a \in Answer : ExpiresIn(a) \in Nat
<1> SUFFICES ASSUME NEW a \in Answer PROVE ExpiresIn(a) \in Nat
  OBVIOUS
<1>1. a.expires_in \in Lives \cup {Absent}
  BY DEF Answer
<1> QED BY <1>1, AuthAssumption DEF ExpiresIn

(***************************************************************************)
(* The invariant is inductive: the stamp is taken after the token was      *)
(* issued, but by no more than Latency.                                    *)
(***************************************************************************)
LEMMA NextIInv == IInv /\ [Next]_vars => IInv'
<1> SUFFICES ASSUME IInv, [Next]_vars PROVE IInv'
  OBVIOUS
<1> USE AuthAssumption DEF IInv, TypeOK, RequestOK, ExpiryOK,
        TokenOutlivesRequest, Token, Returned
<1>1. CASE Tick
  <2>1. TypeOK' /\ ExpiryOK' /\ TokenOutlivesRequest'
    BY <1>1 DEF Tick
  <2>2. pc \in {"asking", "answered"} => asked <= clock' /\ clock' <= asked + Latency
    BY <1>1 DEF Tick
  <2>3. ASSUME pc = "answered", issued.access_token \in Token, issued.expires_in # Absent
        PROVE  issued.access_token.until <= clock' + issued.expires_in
    <3>1. issued.access_token.until \in Nat /\ issued.expires_in \in Nat
      BY <2>3 DEF Answer
    <3> QED BY <1>1, <2>3, <3>1 DEF Tick
  <2> QED BY <1>1, <2>1, <2>2, <2>3 DEF Tick
<1>2. CASE Cached
  <2>1. token \in Token /\ token.until \in Nat
    BY <1>2 DEF Cached, Usable
  <2>2. own => token.until > clock + Buffer - Latency
    BY <1>2, <2>1 DEF Cached, Usable
  <2> QED BY <1>2, <2>1, <2>2 DEF Cached
<1>3. CASE Ask
  BY <1>3 DEF Ask
<1>4. ASSUME NEW life \in Lives, Issue(life) PROVE IInv'
  <2>1. PICK t \in {[until |-> clock + life], NoToken, Absent}, e \in {life, Absent} :
          issued' = [access_token |-> t, expires_in |-> e]
    BY <1>4 DEF Issue
  <2>2. issued' \in Answer
    BY <2>1 DEF Answer
  <2>3. issued'.access_token \in Token => issued'.access_token = [until |-> clock + life]
    BY <2>1
  <2>4. issued'.expires_in # Absent => issued'.expires_in = life
    BY <2>1
  <2> QED BY <1>4, <2>2, <2>3, <2>4 DEF Issue
<1>5. CASE Arrive
  <2>1. /\ issued \in Answer
        /\ issued.access_token \in Token \cup {NoToken}
        /\ ExpiresIn(issued) \in Nat
    BY <1>5, ExpiresInType DEF Arrive, Answer
  <2>2. TypeOK'
    BY <1>5, <2>1 DEF Arrive
  <2>3. ASSUME token' # NoToken, own' PROVE expires_at' <= token'.until + Latency
    <3>1. /\ issued.access_token \in Token /\ issued.access_token.until \in Nat
          /\ issued.expires_in # Absent /\ issued.expires_in \in Nat
          /\ ExpiresIn(issued) = issued.expires_in
      BY <1>5, <2>1, <2>3 DEF Arrive, Answer, ExpiresIn
    <3> QED BY <1>5, <3>1 DEF Arrive
  <2> QED BY <1>5, <2>2, <2>3 DEF Arrive
<1>6. CASE ArriveMalformed
  <2>1. ExpiresIn(issued) \in Nat
    BY <1>6, ExpiresInType DEF ArriveMalformed
  <2>2. own' = FALSE /\ pc' = "raised"
    BY <1>6 DEF ArriveMalformed
  <2>3. expires_at' \in Nat
    BY <1>6, <2>1 DEF ArriveMalformed
  <2>4. UNCHANGED <<clock, token, asked, given>>
    BY <1>6 DEF ArriveMalformed
  <2> QED BY <2>2, <2>3, <2>4
<1>7. CASE AskFails
  BY <1>7 DEF AskFails
<1>8. CASE Return
  BY <1>8 DEF Return
<1>9. CASE UNCHANGED vars
  BY <1>9 DEF vars
<1> QED BY <1>1, <1>2, <1>3, <1>4, <1>5, <1>6, <1>7, <1>8, <1>9 DEF Next

(***************************************************************************)
(* Type correctness of the token cache and of the request under way.       *)
(***************************************************************************)
THEOREM TypeCorrect == Spec => []TypeOK
<1>1. IInv => TypeOK
  BY DEF IInv
<1> QED BY InitIInv, NextIInv, <1>1, PTL DEF Spec

(***************************************************************************)
(* A cached token under the expiry the server stated for it is served only *)
(* while it outlives the request it is for: for any lives, those shorter   *)
(* than the buffer included, and any latency.                              *)
(***************************************************************************)
THEOREM TokensOutliveRequests == Spec => []TokenOutlivesRequest
<1>1. IInv => TokenOutlivesRequest
  BY DEF IInv
<1> QED BY InitIInv, NextIInv, <1>1, PTL DEF Spec

=============================================================================
