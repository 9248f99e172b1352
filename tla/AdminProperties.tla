---------------------------- MODULE AdminProperties ----------------------------
(***************************************************************************)
(* What the admin panel and the limit on attempts promise.                 *)
(***************************************************************************)
EXTENDS Admin, Functions

\* Whatever calls overlap, fail or are answered after a sign-out, the panel is
\* never left disabled: busy is only on while some handler will still turn it
\* off (inventory-panel.html 418-439, 608-757).
BusyEnds == busy => \E f \in Flow : flow[f] # Idle

\* Any stretch of time as long as a window has at most twice the limit less one
\* of the attempts made at one pod under one key: the last of one window and all
\* of the next, never more (admin 51-71).  The limit alone does not hold, and
\* neither bound holds of an address, which has a key for every X-Forwarded-For
\* it sends (43-49).
AttemptsBounded ==
    \A s \in Slot : \A t \in 0..MaxTime :
        SumFunctionOnSet(admitted[s], {u \in 0..MaxTime : t <= u /\ u < t + Window})
            <= 2 * Limit - 1

\* The catalog has just made the change that a handler asked for.
Saved(f) == /\ flow[f] # Idle /\ flow'[f] # Idle
            /\ flow[f].at = "admitted" /\ flow'[f].at = "ok"
            /\ flow[f].op.kind = "patch"

\* A save sets the stock to a number.  For an admin who lets one handler end
\* before the next click, and unless a call fails, that changes the stock by what
\* the admin changed in the row, and by just the reservations that were made
\* since the row was loaded, which are for sale again (inventory-panel.html
\* 686-722, catalog 175).
StockIsAccountedFor ==
    [][ \A f \in Flow : calm /\ Saved(f) =>
          LET c == flow[f]  p == flow[f].op.product IN
          inventory'.stock[p] = inventory.stock[p]
                                  + (c.op.stock - c.seen.doc.stock[p])
                                  + (reserved[p] - c.seen.reserved[p]) ]_vars

=============================================================================
