---------------------------- MODULE AuthProperties ----------------------------
(***************************************************************************)
(* What registrations, reloads and local tokens come to.                   *)
(***************************************************************************)
EXTENDS Auth

\* A client told 201 has an account that is confirmed and verified, and no
\* other client was told so of this account; one told 409 has, or somebody
\* has, an account of this email.  With registrations of one email under way
\* together, a pool replaced meanwhile, and calls that fail or are repeated
\* (auth 440-530).
AnswersTellTheAccount ==
    \A r \in Registration :
        /\ request[r].answer = "201" =>
              /\ account[Mine(r)] = "verified"
              /\ \A s \in Registration \ {r} :
                    request[s].answer = "201" => Mine(s) # Mine(r)
        /\ request[r].answer = "409" => account[Mine(r)] # "none"

\* A local token that no pod accepts any more is never accepted again: not by
\* a reload that fails, a new pool, or the restart of a pod (auth 60-61,
\* 240-275, 650-659).
SignedOutStaysOut ==
    [][ \A t \in issued :
          (\A p \in Pod : ~Accepts(p, t)) =>
              (\A p \in Pod : ~Accepts(p, t)') ]_vars

\* However loads overlap, a pod goes back to an older pool or client only by its
\* restart, or by a load that read before another one of the pod assigned: a
\* load alone, one that fails, or one that began after the last that assigned
\* never takes a pod back (auth 91-107, 314-319, 661-664).
NeverBackToOldPool ==
    [][ \A p \in Pod :
          \/ /\ config'[p].pool >= config[p].pool
             /\ config'[p].client >= config[p].client
          \/ Restart(p)
          \/ \E l \in overtaken : load[l].pod = p /\ Assign(l) ]_vars

=============================================================================
