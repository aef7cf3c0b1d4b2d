------------------------------- MODULE Outbox --------------------------------
(***************************************************************************)
(* The outbox_messages table and the dispatchers that deliver it:           *)
(* ScopedPostgresOutbox (Lease, MarkDelivered, FailDelivery) driven by       *)
(* Dispatcher.DispatchOnce.  Each repository call is one transaction; a       *)
(* dispatcher works through its batch one message at a time and may stop      *)
(* between any two calls.                                                     *)
(*                                                                            *)
(* Time is not a number here.  A dispatcher compares available_at and         *)
(* lease_expires_at with its own clock, and nothing bounds how far the        *)
(* clocks are apart, so a lease may expire, and a backoff may elapse, at any  *)
(* moment.                                                                    *)
(***************************************************************************)
EXTENDS Integers, Sequences, FiniteSets

CONSTANTS
    Messages,
    Routed,        \* the messages whose destination has an adapter
    Dispatchers,   \* dispatcher processes, each with its own lease owner name
    NoOwner,       \* SQL NULL in lease_owner
    Limit,         \* DispatchOnce's batch limit
    MaxDeliveries, \* the dispatcher's maxAttempts
    MaxFaults      \* bound: crashes, failed transactions and leases overtaken

ASSUME OutboxConstants ==
    /\ Routed \subseteq Messages
    /\ NoOwner \notin Dispatchers
    /\ Limit \in Nat \ {0}
    /\ MaxDeliveries \in Nat \ {0}
    /\ MaxFaults \in Nat

VARIABLES
    row,       \* row[m]: the outbox_messages row
    batch,     \* batch[d]: what is left of the messages d has leased
    answer,    \* answer[d]: what the adapter answered for the first of them
    received,  \* the messages their consumer has received
    faults     \* faults so far

vars == <<row, batch, answer, received, faults>>

-----------------------------------------------------------------------------
\* Mutations: the candidates include rows that were given up, or leave out the
\* leases that expired.
EligibleDead(m) ==
    \/ row[m].status = "dead_letter"
    \/ row[m].status \in {"pending", "delivering"} /\ row[m].due

EligiblePending(m) == row[m].status = "pending" /\ row[m].due

\* The candidates of Lease.
Eligible(m) == row[m].status \in {"pending", "delivering"} /\ row[m].due

\* Mutation: the guard does not name the owner.
OwnsAnyLease(d, m) == row[m].status = "delivering"

\* The WHERE clause of MarkDelivered and FailDelivery.
OwnsLease(d, m) == row[m].status = "delivering" /\ row[m].owner = d

Closed(r, status, due) == [r EXCEPT !.status = status, !.owner = NoOwner, !.due = due]

Current(d) == Head(batch[d])

-----------------------------------------------------------------------------
Init ==
    /\ row = [m \in Messages |->
                [status |-> "none", owner |-> NoOwner, attempts |-> 0, due |-> FALSE]]
    /\ batch = [d \in Dispatchers |-> <<>>]
    /\ answer = [d \in Dispatchers |-> "none"]
    /\ received = {}
    /\ faults = 0

\* insertOutboxMessage: a task command commits its message with available_at = now.
Enqueue(m) ==
    /\ row[m].status = "none"
    /\ row' = [row EXCEPT ![m].status = "pending", ![m].due = TRUE]
    /\ UNCHANGED <<batch, answer, received, faults>>

\* Some dispatcher is still working on the newest lease of m.
InHand(m) ==
    \E d \in Dispatchers :
        \E i \in DOMAIN batch[d] :
            batch[d][i] = [message |-> m, attempts |-> row[m].attempts]

\* A backoff elapses, or the lease of a dispatcher that is gone expires.
BecomeDue(m) ==
    /\ row[m].status \in {"pending", "delivering"}
    /\ ~row[m].due
    /\ ~InHand(m)
    /\ row' = [row EXCEPT ![m].due = TRUE]
    /\ UNCHANGED <<batch, answer, received, faults>>

\* A lease expires under its dispatcher: a slow delivery, a long batch, or a
\* clock that runs ahead.
Overtake(m) ==
    /\ row[m].status = "delivering"
    /\ ~row[m].due
    /\ InHand(m)
    /\ faults < MaxFaults
    /\ faults' = faults + 1
    /\ row' = [row EXCEPT ![m].due = TRUE]
    /\ UNCHANGED <<batch, answer, received>>

Leased(r, d) ==
    [r EXCEPT !.status = "delivering", !.owner = d, !.attempts = r.attempts + 1, !.due = FALSE]

\* FOR UPDATE SKIP LOCKED and the LIMIT: any of the candidates, up to Limit.
Claims == {S \in SUBSET {m \in Messages : Eligible(m)} : Cardinality(S) \in 1..Limit}

\* The orders in which a batch may be worked through.
Orders(S) == {s \in [1..Cardinality(S) -> S] : \A i, j \in DOMAIN s : s[i] = s[j] => i = j}

Lease(d, S) ==
    /\ batch[d] = <<>>
    /\ row' = [m \in Messages |-> IF m \in S THEN Leased(row[m], d) ELSE row[m]]
    /\ \E order \in Orders(S) :
          batch' = [batch EXCEPT ![d] =
                      [i \in DOMAIN order |->
                         [message |-> order[i], attempts |-> row[order[i]].attempts + 1]]]
    /\ UNCHANGED <<answer, received, faults>>

\* The lease commits and the dispatcher never learns of it.
LeaseUnanswered(d, S) ==
    /\ batch[d] = <<>>
    /\ faults < MaxFaults
    /\ faults' = faults + 1
    /\ row' = [m \in Messages |-> IF m \in S THEN Leased(row[m], d) ELSE row[m]]
    /\ UNCHANGED <<batch, answer, received>>

\* adapter.Deliver: the consumer has the message and the adapter says so, it has
\* the message and the adapter reports an error, or it does not have it.
Deliver(d) ==
    /\ batch[d] # <<>>
    /\ answer[d] = "none"
    /\ Current(d).message \in Routed
    /\ \/ /\ received' = received \cup {Current(d).message}
          /\ \E a \in {"ok", "error"} : answer' = [answer EXCEPT ![d] = a]
       \/ /\ answer' = [answer EXCEPT ![d] = "error"]
          /\ UNCHANGED received
    /\ UNCHANGED <<row, batch, faults>>

\* The loop goes on to the next message whether or not the row was updated.
Advance(d) ==
    /\ batch' = [batch EXCEPT ![d] = Tail(@)]
    /\ answer' = [answer EXCEPT ![d] = "none"]

MarkDelivered(d) ==
    /\ answer[d] = "ok"
    /\ LET m == Current(d).message
       IN  row' = IF OwnsLease(d, m)
                  THEN [row EXCEPT ![m] = Closed(@, "delivered", FALSE)]
                  ELSE row
    /\ Advance(d)
    /\ UNCHANGED <<received, faults>>

\* Mutation: a delivery less than allowed.
FailedRowEarly(r, maxAttempts) ==
    IF r.attempts + 1 >= maxAttempts
    THEN Closed(r, "dead_letter", FALSE)
    ELSE Closed(r, "pending", FALSE)

\* FailDelivery with the given maxAttempts.
FailedRow(r, maxAttempts) ==
    IF r.attempts >= maxAttempts
    THEN Closed(r, "dead_letter", FALSE)
    ELSE Closed(r, "pending", FALSE)

FailDelivery(d, maxAttempts) ==
    LET m == Current(d).message
    IN  row' = IF OwnsLease(d, m)
               THEN [row EXCEPT ![m] = FailedRow(@, maxAttempts)]
               ELSE row

\* The maxAttempts DispatchOnce passes for a destination without an adapter: the
\* attempts of the lease itself, so that the message is given up at once.
UnroutedLimit(item) == item.attempts

RetryDelivery(d) ==
    /\ answer[d] = "error"
    /\ FailDelivery(d, MaxDeliveries)
    /\ Advance(d)
    /\ UNCHANGED <<received, faults>>

RejectUnrouted(d) ==
    /\ batch[d] # <<>>
    /\ Current(d).message \notin Routed
    /\ FailDelivery(d, UnroutedLimit(Current(d)))
    /\ Advance(d)
    /\ UNCHANGED <<received, faults>>

\* The transaction that records the outcome fails: the error is joined and the
\* loop continues.
RecordFails(d) ==
    /\ batch[d] # <<>>
    /\ answer[d] # "none" \/ Current(d).message \notin Routed
    /\ faults < MaxFaults
    /\ faults' = faults + 1
    /\ Advance(d)
    /\ UNCHANGED <<row, received>>

\* The dispatcher process dies and is started again.
Crash(d) ==
    /\ batch[d] # <<>>
    /\ faults < MaxFaults
    /\ faults' = faults + 1
    /\ batch' = [batch EXCEPT ![d] = <<>>]
    /\ answer' = [answer EXCEPT ![d] = "none"]
    /\ UNCHANGED <<row, received>>

-----------------------------------------------------------------------------
Dispatch(d) ==
    \/ \E S \in Claims : Lease(d, S)
    \/ Deliver(d)
    \/ MarkDelivered(d)
    \/ RetryDelivery(d)
    \/ RejectUnrouted(d)

Fault(d) ==
    \/ \E S \in Claims : LeaseUnanswered(d, S)
    \/ RecordFails(d)
    \/ Crash(d)

Next ==
    \/ \E m \in Messages : Enqueue(m) \/ BecomeDue(m) \/ Overtake(m)
    \/ \E d \in Dispatchers : Dispatch(d) \/ Fault(d)

Spec == Init /\ [][Next]_vars

\* Dispatchers keep calling DispatchOnce, and time passes.
FairSpec ==
    /\ Spec
    /\ \A d \in Dispatchers : WF_vars(Dispatch(d))
    /\ \A m \in Messages : WF_vars(BecomeDue(m))

-----------------------------------------------------------------------------
\* A message is given up only after as many deliveries as the dispatcher allows,
\* or because nothing is configured to deliver it.
GivenUpOnlyWhenExhausted ==
    \A m \in Messages :
        row[m].status = "dead_letter" => m \notin Routed \/ row[m].attempts >= MaxDeliveries

\* outbox-dispatcher.md: "a stale worker cannot complete a message after another
\* worker has reclaimed it."  A delivering row is closed or returned to pending
\* only by the dispatcher that holds its newest lease and is working on it, even
\* though the row carries no fence and the guard compares only the owner name.
ClosedByNewestLease ==
    [][\A m \in Messages :
         (row[m].status = "delivering" /\ row'[m].status # "delivering") =>
             \E d \in Dispatchers :
                 batch[d] # <<>> /\ Current(d) = [message |-> m, attempts |-> row[m].attempts]
      ]_vars

\* Every message a command enqueued is eventually delivered or given up, with
\* finitely many crashes, failed transactions and overtaken leases in between.
EveryMessageSettles ==
    \A m \in Messages :
        row[m].status = "pending" ~> row[m].status \in {"delivered", "dead_letter"}

\* task-event-contract.md: "The dispatcher uses bounded retry with backoff and a
\* dead-letter state."
DeliveriesBounded == \A m \in Messages : row[m].attempts <= MaxDeliveries

FateOf(status) == IF status \in {"pending", "delivering"} THEN "owed" ELSE status

Promise == INSTANCE AtLeastOnce WITH fate <- [m \in Messages |-> FateOf(row[m].status)]

\* The outbox keeps the promise of at-least-once delivery: a message is marked
\* delivered only after its consumer received it, and a delivered or given-up
\* message is never taken up again.
ImplementsAtLeastOnce == Promise!Spec
=============================================================================
