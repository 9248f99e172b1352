------------------------------- MODULE MCInvoice -------------------------------
(***************************************************************************)
(* Small instances of InvoiceWorker for TLC.                               *)
(***************************************************************************)
EXTENDS InvoiceProperties, TLC

CONSTANTS m1, m2, m3, w1, l1, h1

MCKinds == [m \in {m1, m2, m3} |-> CASE m = m1 -> "valid"
                                     [] m = m2 -> "invalid"
                                     [] m = m3 -> "unparsable"]

=============================================================================
