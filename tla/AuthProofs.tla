------------------------------ MODULE AuthProofs ------------------------------
(***************************************************************************)
(* The auth service proved: types, what clients are told of their account, *)
(* tokens that stay signed out, and pools that are never left for older    *)
(* ones.                                                                   *)
(***************************************************************************)
EXTENDS AuthProperties, TLAPS

LoadState == [pc: {"idle", "pool", "client", "assign", "done"},
              pod: Pod \cup {"none"}, read: Pair]
Asked     == [pc: {"idle", "sign up", "confirm", "verify", "done"},
              email: Email \cup {"none"}, at: Pair,
              answer: {"none", "201", "400", "409", "dropped"},
              pod: Pod \cup {"none"}]

-----------------------------------------------------------------------------
(* Types.                                                                  *)

\* One fault more is one of those there may be.
LEMMA FaultsStayBounded ==
    ASSUME faults \in 0..MaxFaults, NEW fault, Happens(fault)
    PROVE  faults' \in 0..MaxFaults
BY AuthAssumption DEF Happens

\* The states that steps write.
LEMMA StatesAreTyped ==
    /\ None \in Pair /\ Idle \in LoadState /\ New \in Asked
    /\ \A p \in Pod : Start(p) \in LoadState
    /\ [Idle EXCEPT !.pc = "done"] \in LoadState
    /\ [pool |-> Env, client |-> Env] \in Pair
BY AuthAssumption
   DEF None, Pair, Generation, Idle, LoadState, New, Asked, Start

\* A load that goes on is typed.
LEMMA LoadsAreTyped ==
    ASSUME TypeOK, NEW l \in Load
    PROVE  /\ [load[l] EXCEPT !.pc = "client", !.read.pool = ssm.pool]
                \in LoadState
           /\ [load[l] EXCEPT !.pc = "assign", !.read.client = ssm.client]
                \in LoadState
<1>1. load[l] \in LoadState /\ ssm \in Pair BY DEF TypeOK, LoadState
<1>2. load[l].read \in Pair /\ ssm.pool \in Generation
      /\ ssm.client \in Generation
  BY <1>1 DEF LoadState, Pair
<1>3. /\ [load[l].read EXCEPT !.pool = ssm.pool] \in Pair
      /\ [load[l].read EXCEPT !.client = ssm.client] \in Pair
  BY <1>2 DEF Pair
<1> QED BY <1>1, <1>3 DEF LoadState

\* What ReadParameter writes.
LEMMA ReadsOne ==
    ASSUME TypeOK, NEW l \in Load, ReadParameter(l)
    PROVE  \/ /\ load[l].pc = "pool"
              /\ load' = [load EXCEPT ![l] =
                   [load[l] EXCEPT !.pc = "client", !.read.pool = ssm.pool]]
           \/ /\ load[l].pc = "client"
              /\ load' = [load EXCEPT ![l] =
                   [load[l] EXCEPT !.pc = "assign", !.read.client = ssm.client]]
BY DEF ReadParameter, TypeOK

\* The steps of the configuration preserve the types.
LEMMA ConfigurationTypes ==
    ASSUME TypeOK,
           \/ ReplacePool \/ ReplaceClient
           \/ \E l \in Load : \/ \E p \in Pod : BeginLoad(l, p)
                              \/ ReadParameter(l) \/ Assign(l) \/ FailToLoad(l)
    PROVE  TypeOK'
<1>1. CASE ReplacePool
  <2>1. ssm.pool + 1 \in Generation
    <3>1. ssm.pool \in Generation /\ ssm.pool < MaxGeneration
      BY <1>1 DEF ReplacePool, TypeOK, Pair
    <3> QED BY <3>1, AuthAssumption DEF Generation
  <2>2. ssm' \in Pair BY <1>1, <2>1 DEF ReplacePool, TypeOK, Pair
  <2> QED BY <1>1, <2>2 DEF ReplacePool, TypeOK
<1>2. CASE ReplaceClient
  <2>1. ssm' \in Pair BY <1>2 DEF ReplaceClient, TypeOK, Pair
  <2> QED BY <1>2, <2>1 DEF ReplaceClient, TypeOK
<1>3. ASSUME NEW l \in Load, NEW p \in Pod, BeginLoad(l, p) PROVE TypeOK'
  <2>1. load' \in [Load -> LoadState]
    BY <1>3, StatesAreTyped DEF BeginLoad, TypeOK, LoadState
  <2> QED BY <1>3, <2>1 DEF BeginLoad, TypeOK, LoadState
<1>4. ASSUME NEW l \in Load, ReadParameter(l) PROVE TypeOK'
  <2>1. load \in [Load -> LoadState] BY DEF TypeOK, LoadState
  <2>2. \E s \in LoadState : load' = [load EXCEPT ![l] = s]
    BY <1>4, ReadsOne, LoadsAreTyped
  <2>3. load' \in [Load -> LoadState] BY <2>1, <2>2
  <2> QED BY <1>4, <2>3 DEF ReadParameter, TypeOK, LoadState
<1>5. ASSUME NEW l \in Load, Assign(l) \/ FailToLoad(l) PROVE TypeOK'
  <2>1. load' \in [Load -> LoadState]
    <3>1. load \in [Load -> LoadState] BY DEF TypeOK, LoadState
    <3>2. load' = [load EXCEPT ![l] = [Idle EXCEPT !.pc = "done"]]
      BY <1>5 DEF Assign, FailToLoad
    <3> QED BY <3>1, <3>2, StatesAreTyped
  <2>2. config' \in [Pod -> Pair]
    <3>1. load[l].read \in Pair /\ config \in [Pod -> Pair]
      BY DEF TypeOK
    <3>2. \/ config' = config
          \/ config' = [config EXCEPT ![load[l].pod] = load[l].read]
      BY <1>5 DEF Assign, FailToLoad
    <3> QED BY <3>1, <3>2
  <2>3. faults' \in 0..MaxFaults
    BY <1>5, FaultsStayBounded DEF Assign, FailToLoad, TypeOK
  <2>4. UNCHANGED <<ssm, account, request, issued, active>>
    BY <1>5 DEF Assign, FailToLoad
  <2>5. overtaken' \in SUBSET Load
    <3>1. overtaken \in SUBSET Load BY DEF TypeOK
    <3>2. Overtakes(l) \in SUBSET Load BY DEF Overtakes, Loading
    <3> QED BY <1>5, <3>1, <3>2 DEF Assign, FailToLoad
  <2> QED BY <2>1, <2>2, <2>3, <2>4, <2>5 DEF TypeOK, LoadState
<1> QED BY <1>1, <1>2, <1>3, <1>4, <1>5

\* The account that a registration is about.
Of(s) == <<s.at.client, s.email>>

\* What an answer, or the next call, changes of a registration.
LEMMA AnsweredIsTyped ==
    ASSUME TypeOK, NEW r \in Registration,
           NEW a \in {"201", "400", "409", "dropped"}
    PROVE  LET s == [request[r] EXCEPT !.pc = "done", !.answer = a] IN
           /\ s \in Asked /\ s.pc = "done" /\ s.answer = a
           /\ Of(s) = Of(request[r])
<1>1. request[r] \in Asked BY DEF TypeOK, Asked
<1> QED BY <1>1 DEF Asked, Of

\* A registration that goes on to its next call is typed.
LEMMA CallingIsTyped ==
    ASSUME TypeOK, NEW r \in Registration, NEW pc \in {"confirm", "verify"}
    PROVE  LET s == [request[r] EXCEPT !.pc = pc] IN
           /\ s \in Asked /\ s.pc = pc /\ s.answer = request[r].answer
           /\ Of(s) = Of(request[r])
<1>1. request[r] \in Asked BY DEF TypeOK, Asked
<1> QED BY <1>1 DEF Asked, Of

\* A registration goes on, and only it.
OneGoesOn(r, s) ==
    /\ request' = [request EXCEPT ![r] = s]
    /\ s \in Asked

\* What the four steps of a registration change.
LEMMA RegisterMoves ==
    ASSUME TypeOK, NEW r \in Registration, NEW e \in Email, NEW p \in Pod,
           Register(r, e, p)
    PROVE  OneGoesOn(r, [New EXCEPT !.pc = "sign up", !.email = e,
                                    !.at = config[p], !.pod = p])
<1>1. config[p] \in Pair BY DEF TypeOK
<1> QED BY <1>1, StatesAreTyped DEF Register, OneGoesOn, Asked

\* So does one that is answered,
LEMMA AnswerMoves ==
    ASSUME TypeOK, NEW r \in Registration,
           NEW a \in {"201", "400", "409"}, Answer(r, a)
    PROVE  OneGoesOn(r, [request[r] EXCEPT !.pc = "done", !.answer = a])
<1>1. request' = [request EXCEPT
                    ![r] = [request[r] EXCEPT !.pc = "done", !.answer = a]]
  BY DEF Answer, TypeOK
<1> QED BY <1>1, AnsweredIsTyped DEF OneGoesOn

\* and one that makes its next call.
LEMMA CallMoves ==
    ASSUME TypeOK, NEW r \in Registration, NEW pc \in {"confirm", "verify"},
           request' = [request EXCEPT ![r].pc = pc]
    PROVE  OneGoesOn(r, [request[r] EXCEPT !.pc = pc])
<1>1. request' = [request EXCEPT ![r] = [request[r] EXCEPT !.pc = pc]]
  BY DEF TypeOK
<1> QED BY <1>1, CallingIsTyped DEF OneGoesOn

\* What goes on is typed, and the others are what they were.
LEMMA GoesOnTypes ==
    ASSUME TypeOK, NEW r \in Registration, NEW s, OneGoesOn(r, s)
    PROVE  /\ request' \in [Registration -> Asked] /\ request'[r] = s
           /\ \A q \in Registration \ {r} : request'[q] = request[q]
BY DEF OneGoesOn, TypeOK, Asked

\* Who says that an account is his.
Has(s) == s.pc \in {"confirm", "verify"} \/ s.answer = "201"

\* A registration under way, or told that an account is there, is about one
\* that Cognito can have.  Whoever has an account has it alone, and it exists.
Told ==
    /\ \A r \in Registration :
          LET s == request[r] IN
          /\ s.pc = "sign up" \/ Has(s) \/ s.answer = "409"
                => Of(s) \in Set \X Email
          /\ s.pc # "done" => s.answer = "none"
          /\ Has(s) \/ s.answer = "409" => account[Of(s)] # "none"
          /\ s.answer = "201" => account[Of(s)] = "verified"
    /\ \A r, q \in Registration :
          Has(request[r]) /\ Has(request[q]) /\ Of(request[r]) = Of(request[q])
              => r = q

\* A step of one registration: what it must see to of its account.
LEMMA TurnTold ==
    ASSUME TypeOK, Told, NEW r \in Registration, NEW s \in Asked,
           OneGoesOn(r, s),
           \/ Of(s) = Of(request[r])
           \/ request[r].pc = "idle" /\ account' = account,
           s.pc = "sign up" \/ Has(s) \/ s.answer = "409"
              => Of(s) \in Set \X Email,
           s.pc # "done" => s.answer = "none",
           \A a \in Set \X Email : a # Of(s) => account'[a] = account[a],
           \/ account' = account
           \/ Has(request[r]) \/ account[Of(s)] = "none",
           account[Of(s)] # "none" => account'[Of(s)] # "none",
           Has(s) => /\ account'[Of(s)] # "none"
                     /\ Has(request[r]) \/ account[Of(s)] = "none",
           s.answer = "201" => account'[Of(s)] = "verified",
           s.answer = "409" => account'[Of(s)] # "none"
    PROVE  Told'
<1>1. /\ request'[r] = s
      /\ \A q \in Registration \ {r} : request'[q] = request[q]
  BY GoesOnTypes
<1>2. ASSUME NEW q \in Registration \ {r}, Has(request[q])
      PROVE  /\ account'[Of(request[q])] = account[Of(request[q])]
             /\ Has(s) => Of(s) # Of(request[q])
  <2>1. Of(request[q]) \in Set \X Email /\ account[Of(request[q])] # "none"
    BY <1>2 DEF Told
  <2>2. Has(request[r]) => Of(request[r]) # Of(request[q])
    BY <1>2 DEF Told
  <2>3. request[r].pc = "idle" => ~Has(request[r]) BY DEF Told, Has
  <2> QED BY <2>1, <2>2, <2>3
<1>3. ASSUME NEW q \in Registration \ {r}, request[q].answer = "409"
      PROVE  account'[Of(request[q])] # "none"
  <2>1. Of(request[q]) \in Set \X Email /\ account[Of(request[q])] # "none"
    BY <1>3 DEF Told
  <2> QED BY <2>1
<1>4. ASSUME NEW q \in Registration
      PROVE  LET t == request'[q] IN
             /\ t.pc = "sign up" \/ Has(t) \/ t.answer = "409"
                   => Of(t) \in Set \X Email
             /\ t.pc # "done" => t.answer = "none"
             /\ Has(t) \/ t.answer = "409" => account'[Of(t)] # "none"
             /\ t.answer = "201" => account'[Of(t)] = "verified"
  <2>1. CASE q = r BY <1>1, <2>1
  <2>2. CASE q # r
    <3>1. request[q].answer = "201" => Has(request[q]) BY DEF Has
    <3>2. request'[q] = request[q] BY <1>1, <2>2
    <3>3. /\ request[q].pc = "sign up" \/ Has(request[q])
                \/ request[q].answer = "409"
             => Of(request[q]) \in Set \X Email
          /\ request[q].pc # "done" => request[q].answer = "none"
          /\ request[q].answer = "201" =>
                account[Of(request[q])] = "verified"
          /\ Has(request[q]) => account[Of(request[q])] # "none"
      BY DEF Told
    <3>4. /\ Has(request[q]) => account'[Of(request[q])] = account[Of(request[q])]
          /\ request[q].answer = "409" => account'[Of(request[q])] # "none"
      BY <1>2, <1>3, <2>2
    <3> QED BY <3>1, <3>2, <3>3, <3>4
  <2> QED BY <2>1, <2>2
<1>5. ASSUME NEW q \in Registration, NEW k \in Registration,
             Has(request'[q]), Has(request'[k]),
             Of(request'[q]) = Of(request'[k])
      PROVE  q = k
  <2>1. CASE q # r /\ k # r BY <1>1, <1>5, <2>1 DEF Told
  <2>2. CASE q = r /\ k # r
    <3>1. Has(request[k]) /\ Has(s) /\ Of(s) = Of(request[k])
      BY <1>1, <1>5, <2>2
    <3> QED BY <1>2, <2>2, <3>1
  <2>3. CASE q # r /\ k = r
    <3>1. Has(request[q]) /\ Has(s) /\ Of(s) = Of(request[q])
      BY <1>1, <1>5, <2>3
    <3> QED BY <1>2, <2>3, <3>1
  <2> QED BY <2>1, <2>2, <2>3
<1> QED BY <1>4, <1>5 DEF Told

-----------------------------------------------------------------------------
(* The steps of a registration.                                            *)

\* What Cognito makes of an account.
LEMMA AccountsAreTyped ==
    ASSUME TypeOK, NEW a,
           NEW v \in {"unconfirmed", "unverified", "verified"}
    PROVE  /\ [account EXCEPT ![a] = v] \in
                [Set \X Email -> {"none", "unconfirmed", "unverified", "verified"}]
           /\ a \in Set \X Email => [account EXCEPT ![a] = v][a] = v
           /\ \A b \in (Set \X Email) \ {a} :
                [account EXCEPT ![a] = v][b] = account[b]
BY DEF TypeOK

\* A registration starts at the pool and the client of its pod.
LEMMA RegisterKeeps ==
    ASSUME TypeOK, Told, NEW r \in Registration, NEW e \in Email, NEW p \in Pod,
           Register(r, e, p)
    PROVE  TypeOK' /\ Told'
<1> DEFINE s == [New EXCEPT !.pc = "sign up", !.email = e,
                            !.at = config[p], !.pod = p]
<1>1. OneGoesOn(r, s) BY RegisterMoves
<1>2. s \in Asked BY <1>1 DEF OneGoesOn
<1>3. /\ s.pc = "sign up" /\ s.answer = "none" /\ s.email = e
      /\ s.at = config[p]
  BY DEF New
<1>4. Of(s) \in Set \X Email
  <2>1. config[p] \in Pair /\ config[p].client # 0
    BY DEF TypeOK, Register, Configured
  <2> QED BY <1>3, <2>1 DEF Of, Set, Pair
<1>5. request[r].pc = "idle" /\ account' = account BY DEF Register
<1>6. ~Has(s) BY <1>3 DEF Has
<1> HIDE DEF s
<1>7. Told' BY <1>1, <1>2, <1>3, <1>4, <1>5, <1>6, TurnTold
<1>8. TypeOK'
  BY <1>1, GoesOnTypes DEF Register, TypeOK, Asked
<1> QED BY <1>7, <1>8

\* SignUp makes an account that was not there, or none.
LEMMA SignUpKeeps ==
    ASSUME TypeOK, Told, NEW r \in Registration, SignUp(r)
    PROVE  TypeOK' /\ Told'
<1> DEFINE done(a) == [request[r] EXCEPT !.pc = "done", !.answer = a]
           on      == [request[r] EXCEPT !.pc = "confirm"]
<1>1. /\ request[r] \in Asked /\ request[r].pc = "sign up"
      /\ request[r].answer = "none" /\ Of(request[r]) \in Set \X Email
      /\ Mine(r) = Of(request[r])
  BY DEF TypeOK, Asked, SignUp, Told, Of, Mine
<1>2. /\ faults' \in 0..MaxFaults /\ UNCHANGED <<ssm, config, load, overtaken, issued, active>>
  BY FaultsStayBounded DEF SignUp, TypeOK
<1>3. \E s \in Asked :
        /\ OneGoesOn(r, s) /\ Of(s) = Of(request[r])
        /\ \/ /\ s = on /\ account[Mine(r)] = "none"
              /\ account' = [account EXCEPT ![Mine(r)] = "unconfirmed"]
           \/ /\ s \in {done("400"), done("409")} /\ account[Mine(r)] = "none"
              /\ account' = [account EXCEPT ![Mine(r)] = "unconfirmed"]
           \/ s = done("409") /\ account[Mine(r)] # "none" /\ account' = account
           \/ s = done("400") /\ account' = account
  <2>1. ASSUME NEW a \in {"400", "409"}
        PROVE  done(a) \in Asked /\ Of(done(a)) = Of(request[r])
    BY AnsweredIsTyped
  <2>2. on \in Asked /\ Of(on) = Of(request[r]) BY CallingIsTyped
  <2>3. CASE account[Mine(r)] # "none" /\ Answer(r, "409") /\ account' = account
    BY <2>1, <2>3, AnswerMoves
  <2>4. CASE Answer(r, "400") /\ account' = account
    BY <2>1, <2>4, AnswerMoves
  <2>5. CASE /\ account[Mine(r)] = "none"
             /\ account' = [account EXCEPT ![Mine(r)] = "unconfirmed"]
             /\ request' = [request EXCEPT ![r].pc = "confirm"]
    <3>1. OneGoesOn(r, on) BY <2>5, CallMoves
    <3> QED BY <2>2, <2>5, <3>1
  <2>6. CASE /\ account[Mine(r)] = "none"
             /\ account' = [account EXCEPT ![Mine(r)] = "unconfirmed"]
             /\ \E a \in {"400", "409"} : Answer(r, a)
    <3>1. PICK a \in {"400", "409"} : Answer(r, a) BY <2>6
    <3>2. OneGoesOn(r, done(a)) BY <3>1, AnswerMoves
    <3>3. done(a) \in {done("400"), done("409")} OBVIOUS
    <3> QED BY <2>1, <2>6, <3>2, <3>3
  <2> QED BY <2>3, <2>4, <2>5, <2>6 DEF SignUp
<1>4. PICK s \in Asked :
        /\ OneGoesOn(r, s) /\ Of(s) = Of(request[r])
        /\ \/ /\ s = on /\ account[Mine(r)] = "none"
              /\ account' = [account EXCEPT ![Mine(r)] = "unconfirmed"]
           \/ /\ s \in {done("400"), done("409")} /\ account[Mine(r)] = "none"
              /\ account' = [account EXCEPT ![Mine(r)] = "unconfirmed"]
           \/ s = done("409") /\ account[Mine(r)] # "none" /\ account' = account
           \/ s = done("400") /\ account' = account
  BY <1>3
<1>5. \/ s.pc = "confirm" /\ s.answer = "none" /\ s = on
      \/ s.pc = "done" /\ s.answer \in {"400", "409"}
  BY <1>1, <1>4 DEF Asked
<1>6. s.answer = "409" => s # done("400")
  BY <1>1 DEF Asked
<1>7. /\ account' \in [Set \X Email ->
                          {"none", "unconfirmed", "unverified", "verified"}]
      /\ \A a \in Set \X Email : a # Of(s) => account'[a] = account[a]
      /\ account' = account \/ account[Of(s)] = "none"
      /\ account[Of(s)] # "none" => account'[Of(s)] # "none"
      /\ s.pc = "confirm" \/ s.answer = "409" => account'[Of(s)] # "none"
      /\ s.pc = "confirm" => account[Of(s)] = "none"
  <2>1. account \in [Set \X Email ->
                       {"none", "unconfirmed", "unverified", "verified"}]
    BY DEF TypeOK
  <2>2. Of(s) \in Set \X Email /\ Mine(r) = Of(s) BY <1>1, <1>4
  <2>3. done("400").pc = "done" /\ done("409").pc = "done"
    BY <1>1 DEF Asked
  <2> HIDE DEF done, on
  <2> QED BY <1>4, <1>5, <1>6, <2>1, <2>2, <2>3
<1> HIDE DEF done, on
<1>8. Told' BY <1>1, <1>4, <1>5, <1>7, TurnTold DEF Has
<1>9. TypeOK' BY <1>2, <1>4, <1>7, GoesOnTypes DEF TypeOK, Asked
<1> QED BY <1>8, <1>9

\* A call about an account that the registration has: what may come of it.
LEMMA OwnerKeeps ==
    ASSUME TypeOK, Told, NEW r \in Registration,
           request[r].pc \in {"confirm", "verify"},
           NEW v \in {"unverified", "verified"},
           account' \in {account, [account EXCEPT ![Mine(r)] = v]},
           NEW s \in Asked, OneGoesOn(r, s), Of(s) = Of(request[r]),
           \/ s.pc = "verify" /\ s.answer = "none"
           \/ s.pc = "done" /\ s.answer = "400"
           \/ s.pc = "done" /\ s.answer = "201" /\ account'[Mine(r)] = "verified",
           faults' \in 0..MaxFaults,
           UNCHANGED <<ssm, config, load, overtaken, issued, active>>
    PROVE  TypeOK' /\ Told'
<1>1. /\ Has(request[r]) /\ Mine(r) = Of(s) /\ Of(s) \in Set \X Email
      /\ account[Of(s)] # "none"
  BY DEF Has, Mine, Of, Told
<1>2. /\ account' \in [Set \X Email ->
                         {"none", "unconfirmed", "unverified", "verified"}]
      /\ \A a \in Set \X Email : a # Of(s) => account'[a] = account[a]
      /\ account'[Of(s)] # "none"
  <2>1. account \in [Set \X Email ->
                       {"none", "unconfirmed", "unverified", "verified"}]
    BY DEF TypeOK
  <2> QED BY <1>1, <2>1
<1>3. Told' BY <1>1, <1>2, TurnTold
<1>4. TypeOK' BY <1>2, GoesOnTypes DEF TypeOK, Asked
<1> QED BY <1>3, <1>4

\* So Confirm and Verify keep both.
LEMMA ConfirmKeeps ==
    ASSUME TypeOK, Told, NEW r \in Registration, Confirm(r)
    PROVE  TypeOK' /\ Told'
<1> DEFINE failed == [request[r] EXCEPT !.pc = "done", !.answer = "400"]
           on     == [request[r] EXCEPT !.pc = "verify"]
<1>1. /\ request[r].pc = "confirm" /\ request[r].answer = "none"
      /\ account' \in {account, [account EXCEPT ![Mine(r)] = "unverified"]}
      /\ faults' \in 0..MaxFaults
      /\ UNCHANGED <<ssm, config, load, overtaken, issued, active>>
  BY FaultsStayBounded DEF Confirm, Told, TypeOK
<1>2. CASE Answer(r, "400")
  <2>1. /\ OneGoesOn(r, failed) /\ failed \in Asked /\ failed.pc = "done"
        /\ failed.answer = "400" /\ Of(failed) = Of(request[r])
    BY <1>2, AnswerMoves, AnsweredIsTyped
  <2> HIDE DEF failed
  <2> QED BY <1>1, <2>1, OwnerKeeps
<1>3. CASE request' = [request EXCEPT ![r].pc = "verify"]
  <2>1. /\ OneGoesOn(r, on) /\ on \in Asked /\ on.pc = "verify"
        /\ on.answer = "none" /\ Of(on) = Of(request[r])
    BY <1>1, <1>3, CallMoves, CallingIsTyped
  <2> HIDE DEF on
  <2> QED BY <1>1, <2>1, OwnerKeeps
<1> QED BY <1>2, <1>3 DEF Confirm

\* The email is marked as verified, or not.
LEMMA VerifyKeeps ==
    ASSUME TypeOK, Told, NEW r \in Registration, Verify(r)
    PROVE  TypeOK' /\ Told'
<1> DEFINE done(a) == [request[r] EXCEPT !.pc = "done", !.answer = a]
<1>1. /\ request[r].pc = "verify"
      /\ account' \in {account, [account EXCEPT ![Mine(r)] = "verified"]}
      /\ faults' \in 0..MaxFaults
      /\ UNCHANGED <<ssm, config, load, overtaken, issued, active>>
  BY FaultsStayBounded DEF Verify, TypeOK
<1>2. PICK a \in {"201", "400"} :
        /\ Answer(r, a)
        /\ a = "201" => account' = [account EXCEPT ![Mine(r)] = "verified"]
  BY DEF Verify
<1>3. /\ OneGoesOn(r, done(a)) /\ done(a) \in Asked /\ done(a).pc = "done"
      /\ done(a).answer = a /\ Of(done(a)) = Of(request[r])
  BY <1>2, AnswerMoves, AnsweredIsTyped, ZenonT(30)
<1>4. a = "201" => account'[Mine(r)] = "verified"
  <2>1. Mine(r) \in Set \X Email BY <1>1 DEF Told, Has, Mine, Of
  <2> QED BY <1>2, <2>1 DEF TypeOK
<1> HIDE DEF done
<1> QED BY <1>1, <1>2, <1>3, <1>4, OwnerKeeps

-----------------------------------------------------------------------------
(* The other steps.                                                        *)

\* Steps of no registration leave what was told.
LEMMA OthersTold ==
    ASSUME Told, UNCHANGED <<account, request>>
    PROVE  Told'
BY DEF Told, Has, Of

\* Local tokens.
LEMMA TokensTypes ==
    ASSUME TypeOK, NEW p \in Pod, NEW t \in Token, Issue(t, p) \/ Logout(t, p)
    PROVE  TypeOK'
<1>1. issued' \in SUBSET Token BY DEF Issue, Logout, TypeOK
<1>3. active' \in [Pod -> SUBSET Token]
  <2>1. \E ts \in SUBSET Token : active' = [active EXCEPT ![p] = ts]
    <3>1. active[p] \in SUBSET Token BY DEF TypeOK
    <3>2. active[p] \cup {t} \in SUBSET Token /\ active[p] \ {t} \in SUBSET Token
      BY <3>1
    <3> QED BY <3>2 DEF Issue, Logout
  <2> QED BY <2>1 DEF TypeOK
<1>2. UNCHANGED <<ssm, config, load, overtaken, account, request, faults>>
  BY DEF Issue, Logout
<1> QED BY <1>1, <1>2, <1>3 DEF TypeOK

\* What a restart makes of loads and registrations.
LEMMA RestartMoves ==
    ASSUME TypeOK, NEW p \in Pod, Restart(p)
    PROVE  /\ load' \in [Load -> LoadState] /\ load'[p] = Start(p)
           /\ \A l \in Load \ {p} :
                 \/ l \notin Loading(p) /\ load'[l] = load[l]
                 \/ l \in Loading(p) /\ load'[l] = [Idle EXCEPT !.pc = "done"]
           /\ request' \in [Registration -> Asked]
           /\ \A r \in Registration :
                 \/ request'[r] = request[r]
                 \/ /\ request[r].pc # "done" /\ request'[r].pc = "done"
                    /\ request'[r].answer = "dropped"
<1>1. load \in [Load -> LoadState] /\ p \in Load BY DEF TypeOK, LoadState, Load
<1>2. load' = [l \in Load |->
                  IF l = p THEN Start(p)
                  ELSE IF l \in Loading(p) THEN [Idle EXCEPT !.pc = "done"]
                  ELSE load[l]]
  BY DEF Restart
<1>3. ASSUME NEW r \in Registration
      PROVE  LET s == [request[r] EXCEPT !.pc = "done", !.answer = "dropped"] IN
             s \in Asked /\ s.pc = "done" /\ s.answer = "dropped"
  BY AnsweredIsTyped
<1>4. ASSUME NEW r \in Registration
      PROVE  /\ request'[r] \in Asked
             /\ \/ request'[r] = request[r]
                \/ /\ request[r].pc # "done" /\ request'[r].pc = "done"
                   /\ request'[r].answer = "dropped"
  <2>1. request'[r] = IF request[r].pod = p /\ request[r].pc # "done"
                        THEN [request[r] EXCEPT !.pc = "done",
                                                !.answer = "dropped"]
                        ELSE request[r]
    BY DEF Restart
  <2>2. request[r] \in Asked BY DEF TypeOK, Asked
  <2> QED BY <1>3, <2>1, <2>2
<1>5. request' \in [Registration -> Asked] BY <1>4 DEF Restart
<1> QED BY <1>1, <1>2, <1>4, <1>5, StatesAreTyped

\* A restart drops requests, which claim nothing any more.
LEMMA RestartKeeps ==
    ASSUME TypeOK, Told, NEW p \in Pod, Restart(p)
    PROVE  TypeOK' /\ Told'
<1>1. account' = account /\ UNCHANGED <<ssm, issued>> BY DEF Restart
<1>2. \A r \in Registration :
        Has(request'[r]) \/ request'[r].answer = "409"
          \/ request'[r].pc = "sign up" => request'[r] = request[r]
  BY RestartMoves DEF Has
<1>3. ASSUME NEW r \in Registration
      PROVE  LET s == request'[r] IN
             /\ s.pc = "sign up" \/ Has(s) \/ s.answer = "409"
                   => Of(s) \in Set \X Email
             /\ s.pc # "done" => s.answer = "none"
             /\ Has(s) \/ s.answer = "409" => account'[Of(s)] # "none"
             /\ s.answer = "201" => account'[Of(s)] = "verified"
  <2>1. CASE request'[r] = request[r] BY <1>1, <2>1 DEF Told
  <2>2. CASE request'[r] # request[r]
    BY <1>2, <2>2, RestartMoves DEF Has
  <2> QED BY <2>1, <2>2
<1>4. Told' BY <1>2, <1>3 DEF Told
<1>5. /\ config' \in [Pod -> Pair] /\ active' \in [Pod -> SUBSET Token]
      /\ faults' \in 0..MaxFaults
  BY StatesAreTyped, FaultsStayBounded DEF Restart, TypeOK
<1>6. overtaken' \in SUBSET Load BY DEF Restart, TypeOK
<1>7. TypeOK' BY <1>1, <1>5, <1>6, RestartMoves DEF TypeOK, Asked, LoadState
<1> QED BY <1>4, <1>7

\* Every step preserves types and what has been told.
LEMMA NextKeeps == TypeOK /\ Told /\ [Next]_vars => TypeOK' /\ Told'
<1> SUFFICES ASSUME TypeOK, Told, [Next]_vars PROVE TypeOK' /\ Told' OBVIOUS
<1>1. CASE UNCHANGED vars
  BY <1>1, OthersTold DEF vars, TypeOK
<1>2. CASE \/ ReplacePool \/ ReplaceClient
           \/ \E l \in Load : \/ \E p \in Pod : BeginLoad(l, p)
                              \/ ReadParameter(l) \/ Assign(l) \/ FailToLoad(l)
  <2>1. UNCHANGED <<account, request>>
    BY <1>2 DEF ReplacePool, ReplaceClient, BeginLoad, ReadParameter, Assign,
                FailToLoad
  <2> QED BY <1>2, <2>1, ConfigurationTypes, OthersTold
<1>3. ASSUME NEW p \in Pod, NEW t \in Token, Issue(t, p) \/ Logout(t, p)
      PROVE  TypeOK' /\ Told'
  BY <1>3, TokensTypes, OthersTold DEF Issue, Logout
<1> QED
  BY <1>1, <1>2, <1>3, RegisterKeeps, SignUpKeeps, ConfirmKeeps, VerifyKeeps,
     RestartKeeps DEF Next

\* They hold at first.
LEMMA Initially == Init => TypeOK /\ Told
<1> SUFFICES ASSUME Init PROVE TypeOK /\ Told OBVIOUS
<1>1. ssm \in Pair BY AuthAssumption DEF Init, Pair, Generation
<1>2. config \in [Pod -> Pair] BY StatesAreTyped DEF Init
<1>3. load \in [Load -> LoadState] BY StatesAreTyped DEF Init
<1>4. request \in [Registration -> Asked] BY StatesAreTyped DEF Init
<1>5. faults \in 0..MaxFaults BY AuthAssumption DEF Init
<1>6. TypeOK
  BY <1>1, <1>2, <1>3, <1>4, <1>5 DEF Init, TypeOK, Asked, LoadState
<1>7. Told BY DEF Init, Told, Has, New
<1> QED BY <1>6, <1>7

\* Every reachable state of the auth service is well typed.
THEOREM TypeCorrect == Spec => []TypeOK
BY Initially, NextKeeps, PTL DEF Spec

\* 201 only for an account that is confirmed, verified and nobody else's, 409
\* only where there is one: for any number of registrations of one email, pools
\* that are replaced meanwhile, and calls that fail or come twice.
THEOREM AnswersAreTrue == Spec => []AnswersTellTheAccount
<1>1. Told => AnswersTellTheAccount
  <2> SUFFICES ASSUME Told, NEW r \in Registration
               PROVE  /\ request[r].answer = "201" =>
                            /\ account[Mine(r)] = "verified"
                            /\ \A q \in Registration \ {r} :
                                  request[q].answer = "201" => Mine(q) # Mine(r)
                      /\ request[r].answer = "409" => account[Mine(r)] # "none"
    BY DEF AnswersTellTheAccount
  <2>1. \A q \in Registration : Mine(q) = Of(request[q]) BY DEF Mine, Of
  <2>2. \A q \in Registration : request[q].answer = "201" => Has(request[q])
    BY DEF Has
  <2>3. /\ request[r].answer = "201" => account[Of(request[r])] = "verified"
        /\ request[r].answer = "409" => account[Of(request[r])] # "none"
    BY DEF Told
  <2>4. ASSUME NEW q \in Registration \ {r},
               request[r].answer = "201", request[q].answer = "201"
        PROVE  Of(request[q]) # Of(request[r])
    <3>1. Has(request[q]) /\ Has(request[r]) BY <2>2, <2>4
    <3> QED BY <3>1 DEF Told
  <2> QED BY <2>1, <2>3, <2>4
<1> QED BY <1>1, Initially, NextKeeps, PTL DEF Spec

-----------------------------------------------------------------------------
(* Configurations and tokens.                                              *)

\* What a load has read by now is set.
LoadsAreSet ==
    /\ ssm.pool # 0 /\ ssm.client # 0
    /\ \A l \in Load :
          /\ load[l].pc \in {"client", "assign"} => load[l].read.pool # 0
          /\ load[l].pc = "assign" => load[l].read.client # 0

\* How the loads go on in the steps of a configuration.
LEMMA LoadMoves ==
    ASSUME TypeOK, NEW l \in Load,
           \/ \E p \in Pod : BeginLoad(l, p)
           \/ ReadParameter(l) \/ Assign(l) \/ FailToLoad(l)
    PROVE  /\ \A k \in Load \ {l} : load'[k] = load[k]
           /\ \/ load'[l].pc = "pool" \/ load'[l].pc = "done"
              \/ /\ load[l].pc = "pool" /\ load'[l].pc = "client"
                 /\ load'[l].pod = load[l].pod
                 /\ load'[l].read.pool = ssm.pool
              \/ /\ load[l].pc = "client" /\ load'[l].pc = "assign"
                 /\ load'[l].pod = load[l].pod
                 /\ load'[l].read.pool = load[l].read.pool
                 /\ load'[l].read.client = ssm.client
<1>1. load \in [Load -> LoadState] /\ load[l] \in LoadState
      /\ load[l].read \in Pair
  BY DEF TypeOK, LoadState
<1>2. ASSUME NEW p \in Pod, BeginLoad(l, p)
      PROVE  /\ \A k \in Load \ {l} : load'[k] = load[k]
             /\ load'[l].pc = "pool"
  BY <1>1, <1>2 DEF BeginLoad, Start
<1>3. CASE Assign(l) \/ FailToLoad(l)
  <2>1. load' = [load EXCEPT ![l] = [Idle EXCEPT !.pc = "done"]]
    BY <1>3 DEF Assign, FailToLoad
  <2>2. [Idle EXCEPT !.pc = "done"].pc = "done" BY DEF Idle
  <2> HIDE DEF Idle
  <2> QED BY <1>1, <2>1, <2>2
<1>4. CASE ReadParameter(l)
  <2>1. CASE /\ load[l].pc = "pool"
             /\ load' = [load EXCEPT ![l] =
                  [load[l] EXCEPT !.pc = "client", !.read.pool = ssm.pool]]
    <3>1. LET s == [load[l] EXCEPT !.pc = "client", !.read.pool = ssm.pool] IN
          s.pc = "client" /\ s.pod = load[l].pod /\ s.read.pool = ssm.pool
      BY <1>1 DEF LoadState, Pair
    <3> QED BY <1>1, <2>1, <3>1
  <2>2. CASE /\ load[l].pc = "client"
             /\ load' = [load EXCEPT ![l] =
                  [load[l] EXCEPT !.pc = "assign", !.read.client = ssm.client]]
    <3>1. LET s == [load[l] EXCEPT !.pc = "assign",
                                   !.read.client = ssm.client] IN
          /\ s.pc = "assign" /\ s.pod = load[l].pod
          /\ s.read.pool = load[l].read.pool /\ s.read.client = ssm.client
      BY <1>1 DEF LoadState, Pair
    <3> QED BY <1>1, <2>2, <3>1
  <2> QED BY <1>4, <2>1, <2>2, ReadsOne
<1> QED BY <1>2, <1>3, <1>4

\* Generations are numbers.
LEMMA PairsAreNatural ==
    ASSUME NEW pair \in Pair
    PROVE  pair.pool \in Nat /\ pair.client \in Nat
<1>1. pair.pool \in 0..MaxGeneration /\ pair.client \in 0..MaxGeneration
  BY DEF Pair, Generation
<1> QED BY <1>1, AuthAssumption

\* The parameters only grow, and stay set.
LEMMA ParametersGrow ==
    ASSUME TypeOK, ReplacePool \/ ReplaceClient
    PROVE  /\ ssm'.pool >= ssm.pool /\ ssm'.client >= ssm.client
           /\ UNCHANGED <<config, load, overtaken, active, issued>>
<1>1. ssm \in Pair /\ ssm.pool \in Nat /\ ssm.client \in Nat
  BY PairsAreNatural DEF TypeOK
<1>2. CASE ReplacePool
  <2>1. ssm'.pool = ssm.pool + 1 /\ ssm'.client = ssm.client
    BY <1>1, <1>2 DEF ReplacePool, Pair
  <2> QED BY <1>1, <1>2, <2>1 DEF ReplacePool
<1>3. CASE ReplaceClient
  <2>1. ssm'.pool = ssm.pool /\ ssm'.client = ssm.pool
    BY <1>1, <1>3 DEF ReplaceClient, Pair
  <2> QED BY <1>1, <1>3, <2>1 DEF ReplaceClient
<1> QED BY <1>2, <1>3

\* Steps that change neither parameters nor configuration.
LEMMA QuietSteps ==
    ASSUME [Next]_vars
    PROVE  \/ ReplacePool \/ ReplaceClient
           \/ \E l \in Load :
                 /\ ssm' = ssm
                 /\ \/ \E p \in Pod : BeginLoad(l, p)
                    \/ ReadParameter(l) \/ Assign(l) \/ FailToLoad(l)
           \/ ssm' = ssm /\ \E p \in Pod : Restart(p)
           \/ UNCHANGED <<ssm, config, load, overtaken>>
BY DEF Next, vars, BeginLoad, ReadParameter, Assign, FailToLoad, Restart,
       Register, SignUp, Confirm, Verify, Issue, Logout

\* Every step preserves that a load has read what it assigns.
LEMMA NextLoadsAreSet ==
    ASSUME TypeOK, LoadsAreSet, [Next]_vars
    PROVE  LoadsAreSet'
<1>1. CASE ReplacePool \/ ReplaceClient
  <2>1. ssm.pool \in Nat /\ ssm.client \in Nat BY PairsAreNatural DEF TypeOK
  <2>2. ssm'.pool >= ssm.pool /\ ssm'.client >= ssm.client /\ load' = load
    BY <1>1, ParametersGrow
  <2>3. ssm' \in Pair BY <1>1, ConfigurationTypes DEF TypeOK
  <2>4. ssm'.pool \in Nat /\ ssm'.client \in Nat BY <2>3, PairsAreNatural
  <2> QED BY <2>1, <2>2, <2>4 DEF LoadsAreSet
<1>2. ASSUME NEW l \in Load, ssm' = ssm,
             \/ \E p \in Pod : BeginLoad(l, p)
             \/ ReadParameter(l) \/ Assign(l) \/ FailToLoad(l)
      PROVE  LoadsAreSet'
  BY <1>2, LoadMoves DEF LoadsAreSet
<1>3. ASSUME NEW p \in Pod, Restart(p), ssm' = ssm PROVE LoadsAreSet'
  <2>1. Start(p).pc = "pool" /\ [Idle EXCEPT !.pc = "done"].pc = "done"
    BY DEF Start, Idle
  <2> QED BY <1>3, <2>1, RestartMoves DEF LoadsAreSet
<1>4. CASE UNCHANGED <<ssm, config, load>> BY <1>4 DEF LoadsAreSet
<1> QED BY <1>1, <1>2, <1>3, <1>4, QuietSteps

\* A token that no pod accepts is accepted by none after the step.
StaysOut == \A t \in issued : (\A p \in Pod : ~Accepts(p, t)) =>
                                  (\A p \in Pod : ~Accepts(p, t)')

\* No step signs out a pod that has signed nobody in.
LEMMA StepsKeepOut == TypeOK /\ LoadsAreSet /\ [Next]_vars => [StaysOut]_vars
<1> SUFFICES ASSUME TypeOK, LoadsAreSet, Next, NEW t \in issued,
                    \A p \in Pod : ~Accepts(p, t), NEW p \in Pod
             PROVE  ~Accepts(p, t)'
  BY DEF StaysOut
<1>1. EnableLocal /\ t \in active[p] => Configured(p)
  BY DEF Accepts, LocalMode
<1>2. Configured(p) => Configured(p)' \/ active'[p] = {}
  <2>1. ASSUME NEW l \in Load, Assign(l), Configured(p) PROVE Configured(p)'
    <3>1. load[l].read.pool # 0 /\ load[l].read.client # 0
      BY <2>1 DEF Assign, LoadsAreSet
    <3>2. config'[p] \in {config[p], load[l].read}
      BY <2>1 DEF Assign, TypeOK
    <3> QED BY <2>1, <3>1, <3>2 DEF Configured
  <2>2. ASSUME NEW q \in Pod, Restart(q), Configured(p)
        PROVE  Configured(p)' \/ active'[p] = {}
    BY <2>2 DEF Restart, TypeOK, Configured
  <2>3. CASE config' = config BY <2>3 DEF Configured
  <2> QED
    BY <2>1, <2>2, <2>3
       DEF Next, ReplacePool, ReplaceClient, BeginLoad, ReadParameter,
           FailToLoad, Register, SignUp, Confirm, Verify, Issue, Logout
<1>3. t \in active'[p] => t \in active[p]
  <2>1. ASSUME NEW q \in Pod, NEW u \in Token, Issue(u, q) \/ Logout(u, q)
        PROVE  t \in active'[p] => t \in active[p]
    <3>1. CASE q # p BY <2>1, <3>1 DEF Issue, Logout, TypeOK
    <3>2. CASE q = p /\ Issue(u, q)
      <4>1. active'[p] = active[p] \cup {u} /\ u \notin issued
        BY <3>2 DEF Issue, TypeOK
      <4> QED BY <4>1
    <3>3. CASE q = p /\ Logout(u, q)
      <4>1. active'[p] = active[p] \ {u} BY <3>3 DEF Logout, TypeOK
      <4> QED BY <4>1
    <3> QED BY <2>1, <3>1, <3>2, <3>3
  <2>2. ASSUME NEW q \in Pod, Restart(q)
        PROVE  t \in active'[p] => t \in active[p]
    BY <2>2 DEF Restart, TypeOK
  <2>3. CASE active' = active BY <2>3
  <2> QED
    BY <2>1, <2>2, <2>3
       DEF Next, ReplacePool, ReplaceClient, BeginLoad, ReadParameter, Assign,
           FailToLoad, Register, SignUp, Confirm, Verify
<1> QED BY <1>1, <1>2, <1>3 DEF Accepts, LocalMode

\* No reload, failed or not, no new pool and no restart brings a token back that
\* every pod has ceased to accept.
THEOREM TokensStayOut == Spec => SignedOutStaysOut
<1>1. Init => LoadsAreSet
  BY StatesAreTyped DEF Init, LoadsAreSet, Start, Idle
<1>2. TypeOK /\ LoadsAreSet /\ [Next]_vars => LoadsAreSet' BY NextLoadsAreSet
<1>3. Spec => [][StaysOut]_vars
  BY <1>1, <1>2, StepsKeepOut, TypeCorrect, PTL DEF Spec
<1> QED BY <1>3 DEF SignedOutStaysOut, StaysOut

\* What a load has read is no newer than the parameters, and no older than what
\* its pod has, unless another load of the pod has assigned since it read.
Fresh(l) ==
    /\ load[l].pc \in {"client", "assign"} =>
          /\ load[l].read.pool <= ssm.pool
          /\ \A p \in Pod :
                load[l].pod = p /\ l \notin overtaken
                    => config[p].pool <= load[l].read.pool
    /\ load[l].pc = "assign" =>
          /\ load[l].read.client <= ssm.client
          /\ \A p \in Pod :
                load[l].pod = p /\ l \notin overtaken
                    => config[p].client <= load[l].read.client
Behind(p)  == config[p].pool <= ssm.pool /\ config[p].client <= ssm.client

\* A load is overtaken once it has read.
Forward == /\ \A l \in Load : Fresh(l)
           /\ \A p \in Pod : Behind(p)
           /\ \A l \in overtaken : load[l].pc \in {"client", "assign"}

\* Every step preserves the order of loads.
LEMMA NextGoesForward ==
    ASSUME TypeOK, Forward, [Next]_vars, Env <= 1, LoadsAreSet
    PROVE  Forward'
<1>1. /\ config \in [Pod -> Pair] /\ load \in [Load -> LoadState]
      /\ ssm.pool \in Nat /\ ssm.client \in Nat
      /\ \A p \in Pod : config[p].pool \in Nat /\ config[p].client \in Nat
      /\ \A l \in Load : load[l].read.pool \in Nat /\ load[l].read.client \in Nat
  <2>1. /\ ssm \in Pair /\ config \in [Pod -> Pair]
        /\ load \in [Load -> LoadState]
    BY DEF TypeOK, LoadState
  <2>2. \A l \in Load : load[l].read \in Pair BY <2>1 DEF LoadState
  <2> QED BY <2>1, <2>2, PairsAreNatural
<1>2. CASE ReplacePool \/ ReplaceClient
  <2>1. ssm'.pool >= ssm.pool /\ ssm'.client >= ssm.client
        /\ config' = config /\ load' = load /\ overtaken' = overtaken
    BY <1>2, ParametersGrow
  <2>2. ssm'.pool \in Nat /\ ssm'.client \in Nat
    BY <1>2, ConfigurationTypes, PairsAreNatural DEF TypeOK
  <2>3. \A l \in Load : Fresh(l)'
    BY <1>1, <2>1, <2>2 DEF Forward, Fresh
  <2>4. \A p \in Pod : Behind(p)'
    BY <1>1, <2>1, <2>2 DEF Forward, Behind
  <2> QED BY <2>1, <2>3, <2>4 DEF Forward
<1>3. CASE UNCHANGED <<ssm, config, load, overtaken>>
  BY <1>3 DEF Forward, Fresh, Behind
<1>4. ASSUME NEW l \in Load, NEW p \in Pod, BeginLoad(l, p) PROVE Forward'
  <2>1. /\ load' = [load EXCEPT ![l] = Start(p)] /\ load[l].pc = "idle"
        /\ UNCHANGED <<ssm, config, overtaken>>
    BY <1>4 DEF BeginLoad
  <2>2. load'[l].pc = "pool"
    BY <1>1, <2>1 DEF Start
  <2>3. \A k \in Load \ {l} : load'[k] = load[k] BY <1>1, <2>1
  <2>4. \A k \in Load : Fresh(k)' BY <2>1, <2>2, <2>3 DEF Forward, Fresh
  <2>5. \A q \in Pod : Behind(q)' BY <2>1 DEF Forward, Behind
  <2>6. \A k \in overtaken' : load'[k].pc \in {"client", "assign"}
    BY <2>1, <2>3 DEF Forward, TypeOK
  <2> QED BY <2>4, <2>5, <2>6 DEF Forward
<1>5. ASSUME NEW l \in Load, ReadParameter(l) PROVE Forward'
  <2>1. UNCHANGED <<ssm, config, overtaken>> BY <1>5 DEF ReadParameter
  <2>2. \A k \in Load \ {l} : load'[k] = load[k] BY <1>5, LoadMoves
  <2>3. /\ load'[l].pod = load[l].pod
        /\ \/ /\ load[l].pc = "pool" /\ load'[l].pc = "client"
              /\ load'[l].read.pool = ssm.pool
           \/ /\ load[l].pc = "client" /\ load'[l].pc = "assign"
              /\ load'[l].read.pool = load[l].read.pool
              /\ load'[l].read.client = ssm.client
    <3>1. \/ load[l].pc = "pool" /\ load'[l].pc = "client"
          \/ load[l].pc = "client" /\ load'[l].pc = "assign"
      BY <1>1, <1>5 DEF ReadParameter, LoadState
    <3> QED BY <1>5, <3>1, LoadMoves
  <2>4. Fresh(l)'
    <3>1. CASE load[l].pc = "pool"
      BY <1>1, <2>1, <2>3, <3>1 DEF Forward, Fresh, Behind
    <3>2. CASE load[l].pc = "client"
      <4>1. Fresh(l) /\ \A p \in Pod : Behind(p) BY DEF Forward
      <4> QED BY <1>1, <2>1, <2>3, <3>2, <4>1 DEF Fresh, Behind
    <3> QED BY <2>3, <3>1, <3>2
  <2>5. \A k \in Load : Fresh(k)' BY <2>1, <2>2, <2>4 DEF Forward, Fresh
  <2>6. \A q \in Pod : Behind(q)' BY <2>1 DEF Forward, Behind
  <2>7. \A k \in overtaken' : load'[k].pc \in {"client", "assign"}
    BY <2>1, <2>2, <2>3 DEF Forward, TypeOK
  <2> QED BY <2>5, <2>6, <2>7 DEF Forward
<1>6. ASSUME NEW l \in Load, Assign(l) \/ FailToLoad(l) PROVE Forward'
  <2>1. /\ ssm' = ssm /\ load'[l].pc = "done"
        /\ \A k \in Load \ {l} : load'[k] = load[k]
    <3>1. load' = [load EXCEPT ![l] = [Idle EXCEPT !.pc = "done"]]
      BY <1>6 DEF Assign, FailToLoad
    <3>2. [Idle EXCEPT !.pc = "done"].pc = "done" BY DEF Idle
    <3> HIDE DEF Idle
    <3> QED BY <1>1, <1>6, <3>1, <3>2 DEF Assign, FailToLoad
  <2>2. ASSUME NEW k \in Load \ {l}, k \in overtaken PROVE k \in overtaken'
    BY <1>6, <2>2 DEF Assign, FailToLoad
  <2>3. ASSUME NEW q \in Pod
        PROVE  \/ config'[q] = config[q]
               \/ /\ Assign(l) /\ load[l].pod = q /\ load[l].pc = "assign"
                  /\ config'[q] = load[l].read
    BY <1>1, <1>6 DEF Assign, FailToLoad
  <2>4. ASSUME NEW q \in Pod
        PROVE  config'[q].pool <= ssm.pool /\ config'[q].client <= ssm.client
    BY <2>3 DEF Forward, Fresh, Behind
  <2>5. ASSUME NEW k \in Load \ {l}, NEW q \in Pod, load[k].pod = q,
               load[k].pc \in {"client", "assign"}, k \notin overtaken'
        PROVE  config'[q] = config[q]
    <3>1. k \in Loading(q) BY <2>5 DEF Loading
    <3>2. load[l].pod = q /\ Assign(l) => k \in overtaken'
      BY <2>5, <3>1 DEF Assign, Overtakes
    <3> QED BY <2>3, <2>5, <3>2
  <2>6. ASSUME NEW k \in Load PROVE Fresh(k)'
    <3>1. CASE k = l BY <2>1, <3>1 DEF Fresh
    <3>2. CASE k # l
      <4>1. Fresh(k) /\ load'[k] = load[k] BY <2>1, <3>2 DEF Forward
      <4> QED BY <2>1, <2>2, <2>5, <3>2, <4>1 DEF Fresh
    <3> QED BY <3>1, <3>2
  <2>7. \A q \in Pod : Behind(q)'
    BY <2>1, <2>4 DEF Behind
  <2>8. ASSUME NEW k \in overtaken' PROVE load'[k].pc \in {"client", "assign"}
    <3>1. k # l /\ k \in Load
      BY <1>6, <2>8 DEF Assign, FailToLoad, Overtakes, Loading, TypeOK
    <3>2. k \in overtaken \/ k \in Overtakes(l)
      BY <1>6, <2>8 DEF Assign, FailToLoad
    <3>3. load[k].pc \in {"client", "assign"}
      BY <3>2 DEF Forward, Overtakes, Loading
    <3> QED BY <2>1, <3>1, <3>3
  <2> QED BY <2>6, <2>7, <2>8 DEF Forward
<1>7. ASSUME NEW p \in Pod, Restart(p) PROVE Forward'
  <2>1. /\ ssm' = ssm /\ config'[p] = [pool |-> Env, client |-> Env]
        /\ \A q \in Pod \ {p} : config'[q] = config[q]
        /\ overtaken' = overtaken \ (Loading(p) \cup {p})
    BY <1>1, <1>7 DEF Restart
  <2>2. /\ load'[p].pc = "pool"
        /\ \A l \in Load \ {p} :
              \/ l \notin Loading(p) /\ load'[l] = load[l]
              \/ l \in Loading(p) /\ load'[l].pc = "done"
    <3>1. Start(p).pc = "pool" /\ [Idle EXCEPT !.pc = "done"].pc = "done"
      BY DEF Start, Idle
    <3> QED BY <1>7, <3>1, RestartMoves
  <2>3. config'[p].pool <= ssm.pool /\ config'[p].client <= ssm.client
    <3>1. Env \in Nat BY AuthAssumption
    <3> QED BY <1>1, <2>1, <3>1 DEF LoadsAreSet
  <2>4. \A l \in Load : load'[l].pc \in {"client", "assign"} =>
           load'[l] = load[l] /\ load[l].pod # p
    BY <2>2 DEF Loading
  <2>5. ASSUME NEW l \in Load PROVE Fresh(l)'
    <3>1. Fresh(l) BY DEF Forward
    <3>2. load'[l].pc \in {"client", "assign"} =>
             (l \in overtaken => l \in overtaken')
      BY <2>1, <2>2, <2>4 DEF Loading
    <3> QED BY <2>1, <2>4, <3>1, <3>2 DEF Fresh
  <2>6. \A q \in Pod : Behind(q)'
    BY <2>1, <2>3 DEF Forward, Behind
  <2>7. ASSUME NEW l \in overtaken' PROVE load'[l].pc \in {"client", "assign"}
    <3>1. l \in overtaken /\ l \notin Loading(p) /\ l \in Load /\ l # p
      BY <2>1, <2>7 DEF TypeOK
    <3>2. load[l].pc \in {"client", "assign"} BY <3>1 DEF Forward
    <3> QED BY <2>2, <3>1, <3>2
  <2> QED BY <2>5, <2>6, <2>7 DEF Forward
<1> QED BY <1>2, <1>3, <1>4, <1>5, <1>6, <1>7, QuietSteps

\* A pod goes back only by its restart or by a load that was overtaken.
OnlyGrows ==
    \A p \in Pod :
        \/ /\ config'[p].pool >= config[p].pool
           /\ config'[p].client >= config[p].client
        \/ Restart(p)
        \/ \E l \in overtaken : load[l].pod = p /\ Assign(l)

\* No other step takes a pod back to an older pool.
LEMMA StepsOnlyGrow == TypeOK /\ Forward /\ [Next]_vars => [OnlyGrows]_vars
<1> SUFFICES ASSUME TypeOK, Forward, Next, NEW p \in Pod, ~Restart(p),
                    ~ \E l \in overtaken : load[l].pod = p /\ Assign(l)
             PROVE  /\ config'[p].pool >= config[p].pool
                    /\ config'[p].client >= config[p].client
  BY DEF OnlyGrows
<1>1. config[p].pool \in Nat /\ config[p].client \in Nat
  BY PairsAreNatural DEF TypeOK
<1>2. CASE config'[p] = config[p] BY <1>1, <1>2
<1>3. ASSUME NEW l \in Load, Assign(l)
      PROVE  /\ config'[p].pool >= config[p].pool
             /\ config'[p].client >= config[p].client
  <2>1. config'[p] = IF load[l].pod = p THEN load[l].read ELSE config[p]
    BY <1>3 DEF Assign, TypeOK
  <2>2. load[l].read \in Pair BY DEF TypeOK
  <2>3. load[l].read.pool \in Nat /\ load[l].read.client \in Nat
    BY <2>2, PairsAreNatural
  <2>4. Fresh(l) /\ load[l].pc = "assign" BY <1>3 DEF Forward, Assign
  <2>5. load[l].pod = p => l \notin overtaken BY <1>3
  <2> QED BY <1>1, <1>2, <2>1, <2>3, <2>4, <2>5 DEF Fresh
<1>4. ASSUME NEW q \in Pod, Restart(q) PROVE config'[p] = config[p]
  <2>1. q # p BY <1>4
  <2> QED BY <1>4, <2>1 DEF Restart, TypeOK
<1> QED
  BY <1>2, <1>3, <1>4
     DEF Next, ReplacePool, ReplaceClient, BeginLoad, ReadParameter,
         FailToLoad, Register, SignUp, Confirm, Verify, Issue, Logout

\* However many loads overlap, a pod whose environment has no pool newer than
\* the first never leaves a pool or client for an older one but by its restart
\* or by a load that read before another one of the pod assigned.
THEOREM PoolsOnlyGrow == Env <= 1 /\ Spec => NeverBackToOldPool
<1>1. CASE Env <= 1
  <2>1. Init => LoadsAreSet
    BY StatesAreTyped DEF Init, LoadsAreSet, Start, Idle
  <2>2. Init => Forward
    <3> SUFFICES ASSUME Init PROVE Forward OBVIOUS
    <3>1. \A p \in Pod : load[p].pc = "pool"
      BY DEF Init, Load, Start
    <3>2. \A l \in Load \ Pod : load[l].pc = "idle" BY DEF Init, Idle
    <3>3. \A p \in Pod : config[p].pool <= 1 /\ config[p].client <= 1
      BY <1>1 DEF Init
    <3>4. ssm.pool = 1 /\ ssm.client = 1 /\ overtaken = {} BY DEF Init
    <3>5. \A l \in Load : load[l].pc \notin {"client", "assign"}
      BY <3>1, <3>2
    <3> QED BY <3>3, <3>4, <3>5 DEF Forward, Fresh, Behind
  <2>3. TypeOK /\ LoadsAreSet /\ [Next]_vars => LoadsAreSet'
    BY NextLoadsAreSet
  <2>4. TypeOK /\ LoadsAreSet /\ Forward /\ [Next]_vars => Forward'
    BY <1>1, NextGoesForward
  <2>5. Spec => [][OnlyGrows]_vars
    BY <2>1, <2>2, <2>3, <2>4, StepsOnlyGrow, TypeCorrect, PTL DEF Spec
  <2> QED BY <2>5 DEF NeverBackToOldPool, OnlyGrows
<1> QED BY <1>1

=============================================================================
