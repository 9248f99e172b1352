-------------------------------- MODULE Auth --------------------------------
(***************************************************************************)
(* The auth service: pods that load the ids of a Cognito user pool and of  *)
(* its app client from SSM, one parameter after the other, while they      *)
(* serve; accounts that registration makes in Cognito with several calls;  *)
(* and the tokens a pod issues itself in local mode.                       *)
(*                                                                         *)
(* A pool and its client are known by their generation, 0 for "not set":   *)
(* client n belongs to pool n.                                             *)
(***************************************************************************)
EXTENDS Naturals, FiniteSets

CONSTANTS
    Pod,            \* replicas of the auth deployment
    Email,
    Registration,   \* POST /auth/register requests, sent once each
    Token,          \* tokens createToken may return
    Reload,         \* POST /auth/cognito-admin/... requests
    Env,            \* the generation in the environment of a pod, 0 for none
    MaxGeneration,  \* bound: how often the pool is replaced
    EnableLocal,    \* enableLocalAuth
    Fault,
    MaxFaults       \* bound: how many faults happen

FaultKind == {"ssm", "sign up", "confirm", "verify", "lost reply", "restart"}

ASSUME AuthAssumption ==
    /\ MaxGeneration \in Nat \ {0} /\ Env \in 0..MaxGeneration
    /\ EnableLocal \in BOOLEAN
    /\ Fault \subseteq FaultKind /\ MaxFaults \in Nat
    /\ Pod \cap Reload = {}

Generation == 0..MaxGeneration
Set        == Generation \ {0}
Load       == Pod \cup Reload     \* a pod's own is the load of its start

VARIABLES
    ssm,        \* the parameters, replaced one after the other
    config,     \* the pool and the client that each pod has assigned
    load,       \* loadAuthConfigFromSsm, in progress or not
    overtaken,  \* history: loads that read before another one of the pod assigned
    account,    \* what Cognito has of an email in a pool
    request,    \* the continuation of every registration
    issued,     \* history: local tokens that were issued
    active,     \* activeTokens of every pod
    faults      \* faults so far

vars == <<ssm, config, load, overtaken, account, request, issued, active,
          faults>>

Pair == [pool: Generation, client: Generation]

TypeOK ==
    /\ ssm \in Pair
    /\ config \in [Pod -> Pair]
    /\ load \in [Load -> [pc: {"idle", "pool", "client", "assign", "done"},
                          pod: Pod \cup {"none"}, read: Pair]]
    /\ overtaken \in SUBSET Load
    /\ account \in [Set \X Email ->
                      {"none", "unconfirmed", "unverified", "verified"}]
    /\ request \in [Registration ->
         [pc: {"idle", "sign up", "confirm", "verify", "done"},
          email: Email \cup {"none"}, at: Pair,
          answer: {"none", "201", "400", "409", "dropped"},
          pod: Pod \cup {"none"}]]
    /\ issued \in SUBSET Token
    /\ active \in [Pod -> SUBSET Token]
    /\ faults \in 0..MaxFaults

None == [pool |-> 0, client |-> 0]
Idle == [pc |-> "idle", pod |-> "none", read |-> None]
New  == [pc |-> "idle", email |-> "none", at |-> None, answer |-> "none",
         pod |-> "none"]
Start(p) == [pc |-> "pool", pod |-> p, read |-> None]

\* A pod listens while the load of its start is under way.
Init ==
    /\ ssm = [pool |-> 1, client |-> 1]
    /\ config = [p \in Pod |-> [pool |-> Env, client |-> Env]]
    /\ load = [l \in Load |-> IF l \in Pod THEN Start(l) ELSE Idle]
    /\ overtaken = {}
    /\ account = [a \in Set \X Email |-> "none"]
    /\ request = [r \in Registration |-> New]
    /\ issued = {}
    /\ active = [p \in Pod |-> {}]
    /\ faults = 0

Happens(fault) ==
    /\ fault \in Fault /\ faults < MaxFaults
    /\ faults' = faults + 1

-----------------------------------------------------------------------------
(* The configuration.                                                      *)

\* A pool is only used with its client.
Configured(p) == config[p].pool # 0 /\ config[p].client # 0

\* Whoever deploys a new pool writes its parameters one after the other.
ReplacePool ==
    /\ ssm.pool = ssm.client /\ ssm.pool < MaxGeneration
    /\ ssm' = [ssm EXCEPT !.pool = @ + 1]
    /\ UNCHANGED <<config, load, overtaken, account, request, issued, active,
                   faults>>

ReplaceClient ==
    /\ ssm.client < ssm.pool
    /\ ssm' = [ssm EXCEPT !.client = ssm.pool]
    /\ UNCHANGED <<config, load, overtaken, account, request, issued, active,
                   faults>>

Loading(p) == {l \in Load : load[l].pod = p
                            /\ load[l].pc \in {"pool", "client", "assign"}}

\* Each login or MFA answer of an administrator loads the configuration first,
\* whatever other load of the pod is under way.
BeginLoad(l, p) ==
    /\ l \in Reload /\ load[l].pc = "idle"
    /\ load' = [load EXCEPT ![l] = Start(p)]
    /\ UNCHANGED <<ssm, config, overtaken, account, request, issued, active,
                   faults>>

ReadParameter(l) ==
    /\ \/ /\ load[l].pc = "pool"
          /\ load' = [load EXCEPT ![l].pc = "client", ![l].read.pool = ssm.pool]
       \/ /\ load[l].pc = "client"
          /\ load' = [load EXCEPT ![l].pc = "assign",
                                  ![l].read.client = ssm.client]
    /\ UNCHANGED <<ssm, config, overtaken, account, request, issued, active,
                   faults>>

\* Loads of the pod that have read and not assigned: the configuration may be
\* newer than what they have.
Overtakes(l) ==
    {k \in Loading(load[l].pod) \ {l} : load[k].pc # "pool"}

Assign(l) ==
    /\ load[l].pc = "assign"
    /\ config' = [config EXCEPT ![load[l].pod] = load[l].read]
    /\ load' = [load EXCEPT ![l] = [Idle EXCEPT !.pc = "done"]]
    /\ overtaken' = (overtaken \ {l}) \cup Overtakes(l)
    /\ UNCHANGED <<ssm, account, request, issued, active, faults>>

\* Mutant: a load that fails goes back to the environment.
FailToLoadReset(l) ==
    /\ load[l].pc \in {"pool", "client"} /\ Happens("ssm")
    /\ config' = [config EXCEPT ![load[l].pod] = [pool |-> Env, client |-> Env]]
    /\ load' = [load EXCEPT ![l] = [Idle EXCEPT !.pc = "done"]]
    /\ overtaken' = overtaken \ {l}
    /\ UNCHANGED <<ssm, account, request, issued, active>>

\* Mutant: what the call returned is assigned although it is no parameter.
FailToLoadUndefined(l) ==
    /\ load[l].pc \in {"pool", "client"} /\ Happens("ssm")
    /\ config' = [config EXCEPT ![load[l].pod].client = MaxGeneration + 1]
    /\ load' = [load EXCEPT ![l] = [Idle EXCEPT !.pc = "done"]]
    /\ overtaken' = overtaken \ {l}
    /\ UNCHANGED <<ssm, account, request, issued, active>>

\* One parameter that cannot be read ends the load; what was there stays.
FailToLoad(l) ==
    /\ load[l].pc \in {"pool", "client"} /\ Happens("ssm")
    /\ load' = [load EXCEPT ![l] = [Idle EXCEPT !.pc = "done"]]
    /\ overtaken' = overtaken \ {l}
    /\ UNCHANGED <<ssm, config, account, request, issued, active>>

-----------------------------------------------------------------------------
(* POST /auth/register in Cognito.  The handler keeps the pool and the     *)
(* client it started with.                                                 *)

Answer(r, answer) ==
    request' = [request EXCEPT ![r].pc = "done", ![r].answer = answer]

Register(r, e, p) ==
    /\ request[r].pc = "idle" /\ Configured(p)
    /\ request' = [request EXCEPT ![r] =
                     [New EXCEPT !.pc = "sign up", !.email = e,
                                 !.at = config[p], !.pod = p]]
    /\ UNCHANGED <<ssm, config, load, overtaken, account, issued, active,
                   faults>>

\* The account that the client of a registration is about.
Mine(r) == <<request[r].at.client, request[r].email>>

\* When the reply to SignUp is lost the SDK sends it again, and Cognito says
\* that the user exists; or it gives up, and the account is there all the same.
\* The pools confirm nobody by themselves: UserConfirmed is never set.
SignUp(r) ==
    /\ request[r].pc = "sign up"
    /\ \/ /\ account[Mine(r)] # "none"
          /\ Answer(r, "409")
          /\ UNCHANGED <<account, faults>>
       \/ Happens("sign up") /\ Answer(r, "400") /\ UNCHANGED account
       \/ /\ account[Mine(r)] = "none"
          /\ account' = [account EXCEPT ![Mine(r)] = "unconfirmed"]
          /\ \/ /\ request' = [request EXCEPT ![r].pc = "confirm"]
                /\ UNCHANGED faults
             \/ Happens("lost reply")
                /\ \E a \in {"400", "409"} : Answer(r, a)
    /\ UNCHANGED <<ssm, config, load, overtaken, issued, active>>

\* The administrator's calls name the account by its id and go to the pool of
\* the registration, which is another one than its client's when the
\* configuration was read between two writes.
Found(r) == request[r].at.pool = request[r].at.client

\* Mutant: an account that cannot be confirmed is reported as registered.
ConfirmAnyway(r) ==
    /\ request[r].pc = "confirm"
    /\ request' = [request EXCEPT
                     ![r].pc     = IF Found(r) THEN "verify" ELSE "done",
                     ![r].answer = IF Found(r) THEN @ ELSE "201"]
    /\ account' = IF Found(r) THEN [account EXCEPT ![Mine(r)] = "unverified"]
                              ELSE account
    /\ UNCHANGED <<ssm, config, load, overtaken, issued, active, faults>>

\* A call that fails, here and in Verify, may have been carried out.
Confirm(r) ==
    LET confirmed == [account EXCEPT ![Mine(r)] = "unverified"] IN
    /\ request[r].pc = "confirm"
    /\ \/ /\ Found(r)
          /\ account' = confirmed
          /\ request' = [request EXCEPT ![r].pc = "verify"]
          /\ UNCHANGED faults
       \/ /\ Found(r) /\ Happens("confirm")
          /\ account' \in {account, confirmed}
          /\ Answer(r, "400")
       \/ ~Found(r) /\ Answer(r, "400") /\ UNCHANGED <<account, faults>>
    /\ UNCHANGED <<ssm, config, load, overtaken, issued, active>>

\* The login that follows may fail, and changes no more.
Verify(r) ==
    LET verified == [account EXCEPT ![Mine(r)] = "verified"] IN
    /\ request[r].pc = "verify"
    /\ \/ account' = verified /\ Answer(r, "201") /\ UNCHANGED faults
       \/ /\ Happens("verify")
          /\ account' \in {account, verified}
          /\ Answer(r, "400")
    /\ UNCHANGED <<ssm, config, load, overtaken, issued, active>>

-----------------------------------------------------------------------------
(* Local mode.                                                             *)

LocalMode(p) == EnableLocal /\ ~Configured(p)

\* Login, or the registration of a new user.
Issue(t, p) ==
    /\ LocalMode(p) /\ t \notin issued
    /\ issued' = issued \cup {t}
    /\ active' = [active EXCEPT ![p] = @ \cup {t}]
    /\ UNCHANGED <<ssm, config, load, overtaken, account, request, faults>>

\* requireAuth, for a local token.
Accepts(p, t) == LocalMode(p) /\ t \in active[p]

Logout(t, p) ==
    /\ Accepts(p, t)
    /\ active' = [active EXCEPT ![p] = @ \ {t}]
    /\ UNCHANGED <<ssm, config, load, overtaken, account, request, issued,
                   faults>>

\* The process ends, with its tokens and its requests, and starts again.
Restart(p) ==
    /\ Happens("restart")
    /\ config' = [config EXCEPT ![p] = [pool |-> Env, client |-> Env]]
    /\ active' = [active EXCEPT ![p] = {}]
    /\ load' = [l \in Load |->
                  IF l = p THEN Start(p)
                  ELSE IF l \in Loading(p) THEN [Idle EXCEPT !.pc = "done"]
                  ELSE load[l]]
    /\ overtaken' = overtaken \ (Loading(p) \cup {p})
    /\ request' = [r \in Registration |->
                     IF request[r].pod = p /\ request[r].pc # "done"
                       THEN [request[r] EXCEPT !.pc = "done",
                                               !.answer = "dropped"]
                       ELSE request[r]]
    /\ UNCHANGED <<ssm, account, issued>>

-----------------------------------------------------------------------------

Next ==
    \/ ReplacePool \/ ReplaceClient
    \/ \E l \in Load : \/ \E p \in Pod : BeginLoad(l, p)
                       \/ ReadParameter(l) \/ Assign(l) \/ FailToLoad(l)
    \/ \E r \in Registration :
         \/ \E e \in Email, p \in Pod : Register(r, e, p)
         \/ SignUp(r) \/ Confirm(r) \/ Verify(r)
    \/ \E p \in Pod : \/ \E t \in Token : Issue(t, p) \/ Logout(t, p)
                      \/ Restart(p)

Spec == Init /\ [][Next]_vars

=============================================================================
