----------------------------- MODULE EditorAccess -----------------------------
(***************************************************************************)
(* Who may edit flows: the gateway mints a token (gateway/flow_token.py,   *)
(* controllers/flow.py), Node-RED verifies it with each request of the     *)
(* editor (flow/admin-token.js, flow/settings.js).  Each side takes the    *)
(* secret from its environment when it starts, so secrets and services     *)
(* change under an open editor, and so does the clock of the device, which *)
(* the hub sets.                                                           *)
(***************************************************************************)
EXTENDS Integers

CONSTANTS
    Keys,           \* what a secret can be, spaces aside
    NoKey,
    Ttl,            \* FLOW_ADMIN_TOKEN_TTL_SEC
    MaxTime,        \* bound: the clock
    MaxChanges      \* bound: changes of the environment and of the clock

ASSUME EditorAssumption ==
    Ttl \in Nat \ {0} /\ MaxTime \in Nat /\ MaxChanges \in Nat /\ NoKey \notin Keys

Times == 0..MaxTime

(* A value of the environment: a key or nothing, with spaces around or not.*)
Values == [key : Keys \cup {NoKey}, padded : BOOLEAN]
Empty == [key |-> NoKey, padded |-> FALSE]
Envs == [dedicated : Values, credential : Values, auth : BOOLEAN]

(* a || b, a or b.                                                         *)
FirstOf(a, b) == IF a = Empty THEN b ELSE a

Strip(v) == [v EXCEPT !.padded = FALSE]

(* Settings.FLOW_ADMIN_TOKEN_SECRET.                                       *)
GatewaySecret(e) == FirstOf(Strip(e.dedicated), Strip(e.credential))

(* Variant: the credential secret comes first.                             *)
CredentialFirst(e) == FirstOf(e.credential, e.dedicated)

(* The secret of adminAuth().                                              *)
FlowSecret(e) == FirstOf(e.dedicated, e.credential)

(* adminAuth: null leaves the editor open.                                 *)
Guarded(e) == FlowSecret(e) # Empty /\ e.auth

(* Variant: Node-RED starts without a secret.                              *)
AnyEnv(e) == TRUE

(* What settings.js asks of the environment.                               *)
Starts(e) == e.credential # Empty

Roles == {"owner", "admin", "user", "other"}
Rights == {"none", "read", "edit"}

(* permissionsFor.                                                         *)
PermissionsFor(role) ==
    CASE role \in {"owner", "admin"} -> "edit"
      [] role = "user" -> "read"
      [] role = "other" -> "none"

VARIABLES
    env,            \* the deployment's environment file
    gateway,        \* the environment the gateway runs on
    flow,           \* the one Node-RED was started on
    up,             \* Node-RED runs: it was not refused
    clock,
    token,          \* what the editor sends with its requests
    changes

VARIABLES           \* history
    age,            \* time since the token was minted
    stepped         \* the clock was set since

vars == <<env, gateway, flow, up, clock, token, changes, age, stepped>>

Signed == [form : {"signed"}, secret : Values, role : Roles, exp : 0..(MaxTime + Ttl)]
Tokens == Signed \cup [form : {"none", "malformed"}]

(* Compose starts both on one file.                                        *)
Init ==
    /\ env \in Envs /\ gateway = env /\ flow = env /\ up = Starts(env)
    /\ clock = 0 /\ changes = 0
    /\ token \in [form : {"none", "malformed"}]
    /\ age = 0 /\ stepped = FALSE

-----------------------------------------------------------------------------
(* Variant: a token that ends now is good for now.                         *)
Lasting(t) == t.exp < clock

Expired(t) == t.exp <= clock

(* verify: a known form, a signature with this secret, not yet expired.    *)
Verify(t, secret) ==
    IF t.form = "signed" /\ secret # Empty /\ t.secret = secret /\ ~Expired(t)
    THEN PermissionsFor(t.role) ELSE "none"

(* What a request of the editor may do.                                    *)
Allowed ==
    CASE ~up -> "none"
      [] up /\ ~Guarded(flow) -> "edit"
      [] up /\ Guarded(flow) -> Verify(token, FlowSecret(flow))

Expiry == clock + Ttl

(* flow_token_route, for the operator the hub vouched for or a local admin;*)
(* without a secret it answers 503.                                        *)
Mint(role) ==
    /\ GatewaySecret(gateway) # Empty
    /\ token' = [form |-> "signed", secret |-> GatewaySecret(gateway),
                 role |-> role, exp |-> Expiry]
    /\ age' = 0 /\ stepped' = FALSE
    /\ UNCHANGED <<env, gateway, flow, up, clock, changes>>

(* The operator edits the environment; running services keep theirs.       *)
Configure ==
    /\ changes < MaxChanges /\ changes' = changes + 1
    /\ \E e \in Envs : env' = e
    /\ UNCHANGED <<gateway, flow, up, clock, token, age, stepped>>

RestartGateway ==
    /\ gateway' = env
    /\ UNCHANGED <<env, flow, up, clock, token, changes, age, stepped>>

RestartFlow ==
    /\ flow' = env /\ up' = Starts(env)
    /\ UNCHANGED <<env, gateway, clock, token, changes, age, stepped>>

Tick ==
    /\ clock < MaxTime /\ clock' = clock + 1 /\ age' = age + 1
    /\ UNCHANGED <<env, gateway, flow, up, token, changes, stepped>>

(* The hub corrects the clock.                                             *)
SetClock ==
    /\ changes < MaxChanges /\ changes' = changes + 1
    /\ \E t \in Times : clock' = t
    /\ stepped' = TRUE
    /\ UNCHANGED <<env, gateway, flow, up, token, age>>

Next ==
    \/ \E role \in Roles : Mint(role)
    \/ Configure \/ RestartGateway \/ RestartFlow \/ Tick \/ SetClock

Spec == Init /\ [][Next]_vars

-----------------------------------------------------------------------------
(* Properties.                                                             *)

TypeOK ==
    /\ env \in Envs /\ gateway \in Envs /\ flow \in Envs /\ up \in BOOLEAN
    /\ clock \in Times /\ token \in Tokens
    /\ changes \in 0..MaxChanges
    /\ age \in Nat /\ stepped \in BOOLEAN

Padded(e) == e.dedicated.padded \/ e.credential.padded

(* Both sides sign with one secret (admin-token.js): whatever was changed  *)
(* and restarted since, if both run on one environment, a token of this    *)
(* secret opens the editor with the rights of its role for its whole life, *)
(* unless the clock is set meanwhile, or there are spaces around a secret, *)
(* which one side strips and the other does not.                           *)
SignedAlike ==
    up /\ Guarded(flow) /\ gateway = flow /\ ~Padded(flow)
    /\ token.form = "signed" /\ ~stepped /\ age < Ttl
        => \/ token.secret # GatewaySecret(gateway)
           \/ Allowed = PermissionsFor(token.role)

(* However services restart, no token opens a guarded editor for longer    *)
(* than its life, unless the clock is set.                                 *)
NoLongerThanTtl ==
    up /\ Guarded(flow) /\ Allowed # "none" /\ ~stepped => age < Ttl

(* The editor is open only where FLOW_ADMIN_AUTH=0 says so: what settings.js*)
(* asks of the environment keeps adminAuth from finding no secret.         *)
OpenOnlyByChoice == up /\ ~Guarded(flow) => ~flow.auth
=============================================================================
