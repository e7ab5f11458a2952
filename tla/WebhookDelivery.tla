--------------------------- MODULE WebhookDelivery ---------------------------
(***************************************************************************)
(* Outgoing webhooks: packages/integrations/src/webhooks.ts.               *)
(*                                                                         *)
(* Events are queued once per active endpoint that subscribes to them.     *)
(* Whoever sends a delivery reports its outcome afterwards; nothing claims *)
(* a delivery, so that an outcome may come late and for a delivery others  *)
(* have reported meanwhile.  Attempts are counted up to their limit and    *)
(* failures up to the number that disables, beyond which the code sees no  *)
(* difference.                                                             *)
(***************************************************************************)
EXTENDS Naturals, FiniteSets

CONSTANTS
    Endpoints,
    Events,
    Senders,        \* attempts under way at once
    MaxAttempts,    \* 8
    FailingAt,      \* 5 failures in a row
    DisabledAt,     \* 20 failures in a row
    Nil

VARIABLES
    endpoint,       \* webhook_endpoints: status and consecutive_failures
    delivery,       \* per endpoint and event, Nil or status and attempt
    sender          \* per sender, Nil or the delivery it is sending

wvars == <<endpoint, delivery, sender>>

TypeOK ==
    /\ endpoint \in [Endpoints -> [status: {"active", "failing", "disabled"}, failures: 0 .. DisabledAt]]
    /\ \A e \in Endpoints, v \in Events :
          delivery[e, v] \in [status: {"pending", "delivered", "abandoned"}, attempt: 0 .. MaxAttempts]
                             \cup {Nil}
    /\ \A s \in Senders : sender[s] \in (Endpoints \X Events) \cup {Nil}

Init ==
    /\ endpoint = [e \in Endpoints |-> [status |-> "active", failures |-> 0]]
    /\ delivery = [d \in Endpoints \X Events |-> Nil]
    /\ sender = [s \in Senders |-> Nil]

\* queueDeliveries: once per endpoint and event.
QueueDeliveries(v) ==
    /\ delivery' = [d \in Endpoints \X Events |->
          IF d[2] = v /\ endpoint[d[1]].status = "active" /\ delivery[d] = Nil
            THEN [status |-> "pending", attempt |-> 0] ELSE delivery[d]]
    /\ delivery' # delivery
    /\ UNCHANGED <<endpoint, sender>>

\* Somebody sends what is due.
Send(s, d) ==
    /\ sender[s] = Nil
    /\ delivery[d] # Nil /\ delivery[d].status = "pending"
    /\ sender' = [sender EXCEPT ![s] = d]
    /\ UNCHANGED <<endpoint, delivery>>

\* Seeded fault: one attempt too many.
Tried_Again(row) == [row EXCEPT !.status = "pending", !.attempt = IF @ < MaxAttempts THEN @ + 1 ELSE @]

\* recordDeliveryOutcome: the delivery after a failed attempt.
Tried(row) ==
    LET n == IF row.attempt < MaxAttempts THEN row.attempt + 1 ELSE row.attempt
    IN  [status |-> IF n >= MaxAttempts THEN "abandoned" ELSE "pending", attempt |-> n]

\* Seeded fault: a success leaves the count of failures as it is.
Answered_Counting(row) == [row EXCEPT !.status = "active"]

\* Seeded fault: a status the table does not have.
Answered_Status(row) == [status |-> "delivered", failures |-> 0]

\* recordDeliveryOutcome: the endpoint after a success.
Answered(row) == [status |-> "active", failures |-> 0]

\* recordDeliveryOutcome: the endpoint after a failure.
Silent(row) ==
    LET n == IF row.failures < DisabledAt THEN row.failures + 1 ELSE row.failures
    IN  [status |-> IF n >= DisabledAt THEN "disabled" ELSE IF n >= FailingAt THEN "failing" ELSE row.status,
         failures |-> n]

Succeed(s) ==
    LET d == sender[s]
    IN  /\ d # Nil
        /\ delivery' = [delivery EXCEPT ![d] =
              [status |-> "delivered", attempt |-> IF @.attempt < MaxAttempts THEN @.attempt + 1 ELSE @.attempt]]
        /\ endpoint' = [endpoint EXCEPT ![d[1]] = Answered(@)]
        /\ sender' = [sender EXCEPT ![s] = Nil]

Fail(s) ==
    LET d == sender[s]
    IN  /\ d # Nil
        /\ delivery' = [delivery EXCEPT ![d] = Tried(@)]
        /\ endpoint' = [endpoint EXCEPT ![d[1]] = Silent(@)]
        /\ sender' = [sender EXCEPT ![s] = Nil]

\* Whoever was sending dies: the delivery stays as it was.
Die(s) ==
    /\ sender[s] # Nil
    /\ sender' = [sender EXCEPT ![s] = Nil]
    /\ UNCHANGED <<endpoint, delivery>>

Next ==
    \/ \E v \in Events : QueueDeliveries(v)
    \/ \E s \in Senders : \/ \E d \in Endpoints \X Events : Send(s, d)
                          \/ Succeed(s) \/ Fail(s) \/ Die(s)

Spec == Init /\ [][Next]_wvars

(* Retries end, and an endpoint's status says what has happened to it: a   *)
(* delivery that waits has attempts left, an endpoint is active, failing   *)
(* or disabled by the failures in a row that are counted; whatever         *)
(* outcomes come late, twice or in another order.                          *)
RetriesEnd ==
    /\ \A d \in Endpoints \X Events :
          delivery[d] # Nil /\ delivery[d].status = "pending" => delivery[d].attempt < MaxAttempts
    /\ \A e \in Endpoints :
          endpoint[e].status = CASE endpoint[e].failures >= DisabledAt -> "disabled"
                                 [] endpoint[e].failures >= FailingAt /\ endpoint[e].failures < DisabledAt -> "failing"
                                 [] OTHER -> "active"

=============================================================================
