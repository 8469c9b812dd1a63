----------------------------- MODULE MCPayments -----------------------------
(* Instances of Payments for TLC. *)
EXTENDS Payments

\* all that steps and safety properties depend on: who has been answered only
\* matters to the redelivery of LiveSpec
AllButAcked == <<now, jobVars, row, provVars, processed, enqueuing, queue,
                 session, crashes>>
=============================================================================
