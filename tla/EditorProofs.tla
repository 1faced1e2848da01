----------------------------- MODULE EditorProofs -----------------------------
(***************************************************************************)
(* For any secrets, lives of a token and changes of the deployment: a token*)
(* lasts exactly its life, and both sides agree about it.                  *)
(***************************************************************************)
EXTENDS EditorAccess, TLAPS

USE EditorAssumption DEF EditorAssumption

(* A token is as far from its end as its age says, if the clock was left.  *)
Dated == token.form = "signed" /\ ~stepped => token.exp = clock - age + Ttl

Started == up => Starts(flow)

IInv == TypeOK /\ Dated /\ Started

LEMMA EmptyIsValue == Empty \in Values
  BY DEF Empty, Values

LEMMA StripType == ASSUME NEW v \in Values PROVE Strip(v) \in Values
  BY DEF Strip, Values

LEMMA SecretType == ASSUME NEW e \in Envs PROVE GatewaySecret(e) \in Values
  BY StripType DEF GatewaySecret, FirstOf, Envs

(* Without spaces the two sides find the same secret.                      *)
LEMMA SecretsAgree == ASSUME NEW e \in Envs, ~Padded(e) PROVE GatewaySecret(e) = FlowSecret(e)
<1>1. \A v \in Values : ~v.padded => Strip(v) = v
  BY DEF Strip, Values
<1>2. Strip(e.dedicated) = e.dedicated /\ Strip(e.credential) = e.credential
  BY <1>1 DEF Envs, Padded
<1> QED BY <1>2 DEF GatewaySecret, FlowSecret

LEMMA InitIInv == Init => IInv
<1> SUFFICES ASSUME Init PROVE IInv
  OBVIOUS
<1>1. token \in Tokens /\ token.form # "signed"
  BY DEF Init, Tokens
<1>2. clock \in Times /\ changes \in 0..MaxChanges
  BY DEF Init, Times
<1>3. TypeOK
  BY <1>1, <1>2 DEF Init, TypeOK, Starts
<1> QED BY <1>1, <1>3 DEF IInv, Dated, Started, Init

LEMMA NextPreserves == IInv /\ [Next]_vars => IInv'
<1> SUFFICES ASSUME IInv, [Next]_vars PROVE IInv'
  OBVIOUS
<1> USE DEF IInv, TypeOK, Dated, Started
<1>1. ASSUME NEW role \in Roles, Mint(role) PROVE IInv'
  <2>1. clock \in Nat /\ Expiry \in 0..(MaxTime + Ttl)
    BY DEF Times, Expiry
  <2>2. token' \in Signed /\ token'.exp = Expiry
    BY <1>1, <2>1, SecretType DEF Mint, Signed
  <2>3. token' \in Tokens
    BY <2>2 DEF Tokens
  <2>4. TypeOK'
    BY <1>1, <2>3 DEF Mint
  <2>5. Dated'
    BY <1>1, <2>1, <2>2 DEF Mint, Expiry
  <2>6. Started'
    BY <1>1 DEF Mint, Starts
  <2> QED BY <2>4, <2>5, <2>6
<1>2. CASE Configure BY <1>2 DEF Configure, Starts
<1>3. CASE RestartGateway BY <1>3 DEF RestartGateway, Starts
<1>4. CASE RestartFlow BY <1>4 DEF RestartFlow, Starts
<1>5. CASE Tick
  <2>1. clock' \in Times /\ clock \in Nat /\ clock' = clock + 1 /\ age' = age + 1 /\ age' \in Nat
    BY <1>5 DEF Tick, Times
  <2>2. Dated'
    BY <1>5, <2>1 DEF Tick
  <2> QED BY <1>5, <2>1, <2>2 DEF Tick, Starts
<1>6. CASE SetClock BY <1>6 DEF SetClock, Starts
<1>7. CASE UNCHANGED vars BY <1>7 DEF vars, Starts
<1> QED BY <1>1, <1>2, <1>3, <1>4, <1>5, <1>6, <1>7 DEF Next

THEOREM Invariance == Spec => []IInv
<1> QED BY InitIInv, NextPreserves, PTL DEF Spec

(* Environments, tokens and the clock keep their types (flow_token.py).    *)
THEOREM TypeCorrect == Spec => []TypeOK
<1>1. IInv => TypeOK
  BY DEF IInv
<1> QED BY Invariance, <1>1, PTL

(* A token is good for its role and its life, whatever was restarted.      *)
THEOREM SignedAlikeHolds == Spec => []SignedAlike
<1>1. IInv => SignedAlike
  <2> SUFFICES ASSUME IInv, up, Guarded(flow), gateway = flow, ~Padded(flow), token.form = "signed",
                      ~stepped, age < Ttl, token.secret = GatewaySecret(gateway)
               PROVE Allowed = PermissionsFor(token.role)
    BY DEF SignedAlike
  <2>1. token.secret = FlowSecret(flow)
    BY SecretsAgree DEF IInv, TypeOK
  <2>2. ~Expired(token)
    BY DEF IInv, TypeOK, Dated, Times, Expired
  <2>3. Verify(token, FlowSecret(flow)) = PermissionsFor(token.role)
    BY <2>1, <2>2 DEF Verify, Guarded
  <2> QED BY <2>3 DEF Allowed
<1> QED BY Invariance, <1>1, PTL

(* No token opens a guarded editor for longer than its life.               *)
THEOREM NoLongerHolds == Spec => []NoLongerThanTtl
<1>1. IInv => NoLongerThanTtl
  <2> SUFFICES ASSUME IInv, up, Guarded(flow), Allowed # "none", ~stepped PROVE age < Ttl
    BY DEF NoLongerThanTtl
  <2>1. token.form = "signed" /\ ~Expired(token)
    BY DEF Allowed, Verify
  <2>2. token \in Signed
    BY <2>1 DEF IInv, TypeOK, Tokens
  <2>3. token.exp = clock - age + Ttl /\ token.exp > clock
    BY <2>1, <2>2 DEF IInv, TypeOK, Dated, Times, Expired, Signed
  <2> QED BY <2>3 DEF IInv, TypeOK, Times
<1> QED BY Invariance, <1>1, PTL

(* The editor is open only by choice.                                      *)
THEOREM OpenOnlyHolds == Spec => []OpenOnlyByChoice
<1>1. IInv => OpenOnlyByChoice
  BY DEF IInv, Started, Starts, OpenOnlyByChoice, Guarded, FlowSecret, FirstOf
<1> QED BY Invariance, <1>1, PTL
=============================================================================
