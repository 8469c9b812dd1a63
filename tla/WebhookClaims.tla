---------------------------- MODULE WebhookClaims ----------------------------
(***************************************************************************)
(* What the documentation says of outbound webhooks and the code does not  *)
(* do.                                                                     *)
(***************************************************************************)
EXTENDS WebhookDelivery

\* deliver_webhook: a POST that fails is tried again, with a growing delay, until
\* the delivery is delivered or has failed WEBHOOK_MAX_ATTEMPTS times.  Nothing
\* reads next_attempt_at, and nothing enqueues the task again.
RetriedUntilResolved ==
    \A d \in Deliveries :
        (delivery[d].status = "pending" /\ delivery[d].attempts > 0)
            ~> delivery[d].status # "pending"

=============================================================================
