----------------------------- MODULE AtomicCart -----------------------------
(***************************************************************************)
(* What the cart service promises a user: one cart, on which each request  *)
(* takes effect at one point between its arrival and its answer.           *)
(***************************************************************************)
EXTENDS CartContents

VARIABLES
    cart,      \* the one cart
    outcome    \* how far each request is, and what it has been shown

Waiting == [state |-> "waiting"]
Reached(op, state, shown) == [state |-> state, op |-> op, shown |-> shown]

AtomicInit == cart \in AtFirst /\ outcome = [r \in Request |-> Waiting]

\* The request takes effect; the answer shows the cart it has made.
Serve(r, op) ==
    /\ outcome[r] = Waiting /\ Allows(op, cart)
    /\ cart' = Effect(op, cart)
    /\ \E state \in {"ok", "applied"} :
          outcome' = [outcome EXCEPT ![r] = Reached(op, state, cart')]

Refuse(r, op) ==
    /\ outcome[r] = Waiting /\ ~Allows(op, cart)
    /\ outcome' = [outcome EXCEPT ![r] = Reached(op, "refused", Empty)]
    /\ UNCHANGED cart

Confirm(r) ==
    /\ outcome[r].state = "applied"
    /\ outcome' = [outcome EXCEPT ![r].state = "ok"]
    /\ UNCHANGED cart

\* A process ends, and with it the answers to all its requests: each of them
\* may have taken effect or not.
Lose(gone) ==
    /\ \A r \in gone : outcome[r].state \in {"waiting", "applied"}
    /\ \E asked \in [gone -> Operation] :
         /\ \A r \in gone : outcome[r] # Waiting => asked[r] = outcome[r].op
         /\ outcome' = [r \in Request |->
                          IF r \in gone THEN Reached(asked[r], "dropped", Empty)
                                        ELSE outcome[r]]
    /\ UNCHANGED cart

AtomicNext ==
    \/ \E r \in Request :
         \/ \E op \in Operation : Serve(r, op) \/ Refuse(r, op)
         \/ Confirm(r)
    \/ \E gone \in SUBSET Request : Lose(gone)

cartVars   == <<cart, outcome>>
AtomicSpec == AtomicInit /\ [][AtomicNext]_cartVars

=============================================================================
