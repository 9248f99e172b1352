--------------------------- MODULE AtomicInventory ---------------------------
(***************************************************************************)
(* What the catalog promises its callers: there is one inventory, and each *)
(* request takes effect on it at one point between its arrival and its     *)
(* answer ("validates stock and decrements atomically per request").  A    *)
(* request whose pod dies gets no answer, and may or may not have taken    *)
(* effect.  Catalog says how far the program keeps this promise.           *)
(***************************************************************************)
EXTENDS InventoryDocument

VARIABLES
    current,   \* the one inventory
    outcome    \* how far each request is

abstractVars == <<current, outcome>>

Waiting == [state |-> "waiting"]
Reached(op, state) == [state |-> state, op |-> op]

AtomicInit ==
    /\ current = Seed
    /\ outcome = [r \in Request |-> Waiting]

\* The request takes effect; its answer may follow at once or later.
Serve(r, op) ==
    /\ outcome[r] = Waiting
    /\ WellFormed(op) /\ Accepts(op, current)
    /\ current' = IF Mutates(op) THEN Updated(r, op, current) ELSE current
    /\ \E state \in {"ok", "applied"} :
          outcome' = [outcome EXCEPT ![r] = Reached(op, state)]

\* A refusal is justified by the inventory of the moment.
Refuse(r, op) ==
    /\ outcome[r] = Waiting
    /\ ~(WellFormed(op) /\ Accepts(op, current))
    /\ outcome' = [outcome EXCEPT ![r] = Reached(op, "refused")]
    /\ UNCHANGED current

Confirm(r, op) ==
    /\ outcome[r] = Reached(op, "applied")
    /\ outcome' = [outcome EXCEPT ![r] = Reached(op, "ok")]
    /\ UNCHANGED current

\* A process ends, and with it the answers to all its requests: each of them
\* may have taken effect or not.
Lose(gone) ==
    /\ \A r \in gone : outcome[r].state \in {"waiting", "applied"}
    /\ \E asked \in [gone -> Operation] :
         /\ \A r \in gone : outcome[r] # Waiting => asked[r] = outcome[r].op
         /\ outcome' = [r \in Request |->
                          IF r \in gone THEN Reached(asked[r], "dropped")
                                        ELSE outcome[r]]
    /\ UNCHANGED current

AtomicNext ==
    \/ \E r \in Request, op \in Operation :
          Serve(r, op) \/ Refuse(r, op) \/ Confirm(r, op)
    \/ \E gone \in SUBSET Request : Lose(gone)

AtomicSpec == AtomicInit /\ [][AtomicNext]_abstractVars

=============================================================================
