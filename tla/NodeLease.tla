------------------------------ MODULE NodeLease ------------------------------
(***************************************************************************)
(* The durable execution authority: the execution_node_runtime row of every *)
(* plan node and the execution_attempts rows of its claims, as              *)
(* PostgresExecutionNodeLeases reads and writes them.  Every operation is   *)
(* one PostgreSQL transaction that first reads clock_timestamp() and then   *)
(* waits for the row lock, so the instant it decides with (now) may be up   *)
(* to LockWait older than the clock at which it takes effect.               *)
(*                                                                          *)
(* The specification is the most general client: any lease that was ever    *)
(* issued may be presented at any time, by a worker that is slow, that has  *)
(* lost its lease, or that repeats a call whose answer was lost.  A call    *)
(* whose guard is false returns an error and changes nothing.               *)
(***************************************************************************)
EXTENDS Integers, Sequences

CONSTANTS
    Nodes,          \* plan nodes
    Workers,        \* worker ids that own leases
    NoOwner,        \* SQL NULL in lease_owner
    LeaseDuration,  \* the ttl a claim or a renewal asks for
    LockWait,       \* longest wait between reading the clock and the row lock
    MaxClock,       \* bound: the clock stops here
    MaxAttempts     \* bound: claims per node

ASSUME LeaseConstants ==
    /\ NoOwner \notin Workers
    /\ LeaseDuration \in Nat \ {0}
    /\ LockWait \in Nat
    /\ MaxClock \in Nat
    /\ MaxAttempts \in Nat

VARIABLES
    clock,     \* PostgreSQL clock_timestamp()
    node,      \* node[n]: the execution_node_runtime row
    attempts   \* attempts[n]: the execution_attempts rows, in claim order

vars == <<clock, node, attempts>>

-----------------------------------------------------------------------------
EffectClasses ==
    {"PURE", "READ_ONLY", "IDEMPOTENT_MUTATION", "NON_IDEMPOTENT_MUTATION"}

isMutation(effect) ==
    effect \in {"IDEMPOTENT_MUTATION", "NON_IDEMPOTENT_MUTATION"}

\* ABSENT: no row yet.  Only READY rows are registered and only Claim,
\* Complete, ReleaseBeforeEffect and RequeueFailed write the column, so PENDING,
\* WAITING_APPROVAL, SKIPPED and BLOCKED never appear in it.
NodeStates == {"ABSENT", "READY", "RUNNING", "SUCCEEDED", "FAILED", "CANCELLED"}

CompletionStates == {"SUCCEEDED", "FAILED", "CANCELLED"}

AttemptStatuses == {"PENDING", "RUNNING", "ABANDONED"} \cup CompletionStates

\* token 0 and the times 0 of a row whose owner is NoOwner stand for NULL.
NodeRow ==
    [state : NodeStates, effect : EffectClasses, retrySafe : BOOLEAN,
     attemptNumber : Nat, fence : Nat,
     owner : Workers \cup {NoOwner}, token : Nat,
     claimedAt : Nat, expiresAt : Nat,
     effectStarted : BOOLEAN, effectCommitted : BOOLEAN]

\* started stands for started_at and for the target, policy and budget binding
\* that StartAttempt writes with it.
AttemptRow ==
    [number : Nat, fence : Nat, owner : Workers, status : AttemptStatuses,
     started : BOOLEAN, effectStarted : BOOLEAN, effectCommitted : BOOLEAN]

Live(attempt) == attempt.status \in {"PENDING", "RUNNING"}

\* What Claim returns.  The attempt reference is the position in attempts[n].
\* newLeaseToken draws 128 random bits: a value never drawn before for the node,
\* for which the fence of the claim serves.
LeaseOf(n, k) ==
    [attemptRef |-> k, owner |-> attempts[n][k].owner,
     token |-> attempts[n][k].fence, fence |-> attempts[n][k].fence,
     attemptNumber |-> attempts[n][k].number]

Issued(n) == {LeaseOf(n, k) : k \in DOMAIN attempts[n]}

-----------------------------------------------------------------------------
\* databaseNow: the clock as a transaction read it before it got the row lock.
databaseNow == {t \in 1..MaxClock : t <= clock /\ clock <= t + LockWait}

\* The instants at which the holder of n's current lease can have read the
\* clock: its transactions begin after the claim.
HolderNow(n) == {t \in databaseNow : node[n].claimedAt <= t}

leaseOwnsRow(row, lease, now) ==
    /\ row.state = "RUNNING"
    /\ row.owner = lease.owner
    /\ row.token = lease.token
    /\ row.fence = lease.fence
    /\ row.attemptNumber = lease.attemptNumber
    /\ now < row.expiresAt

\* The WHERE clause of the conditional UPDATEs, which does not look at
\* attempt_number.
LeaseFilter(row, lease, now) ==
    /\ row.state = "RUNNING"
    /\ row.owner = lease.owner
    /\ row.token = lease.token
    /\ row.fence = lease.fence
    /\ row.expiresAt > now

\* The attempt row a held lease names.
AttemptOf(n, lease) ==
    {k \in DOMAIN attempts[n] :
        /\ k = lease.attemptRef
        /\ attempts[n][k].fence = lease.fence
        /\ attempts[n][k].number = lease.attemptNumber}

\* The rows abandonAttemptTx updates; unless it is exactly one the transaction
\* rolls back.
Abandonable(n, number, fence) ==
    {k \in DOMAIN attempts[n] :
        /\ attempts[n][k].number = number
        /\ attempts[n][k].fence = fence
        /\ Live(attempts[n][k])}

\* Mutation: the attempt stays open.
abandonNothing(n, k) == attempts[n]

\* Mutation: the UPDATE lost its attempt_number, lease_fence and status filter.
abandonAll(n, k) ==
    [j \in DOMAIN attempts[n] |-> [attempts[n][j] EXCEPT !.status = "ABANDONED"]]

abandonAttemptTx(n, k) == [attempts[n] EXCEPT ![k].status = "ABANDONED"]

Unleased(row, state) ==
    [row EXCEPT !.state = state, !.owner = NoOwner, !.token = 0,
                !.claimedAt = 0, !.expiresAt = 0]

-----------------------------------------------------------------------------
Init ==
    /\ clock = 1
    /\ node = [n \in Nodes |->
                 [state |-> "ABSENT", effect |-> "PURE", retrySafe |-> FALSE,
                  attemptNumber |-> 0, fence |-> 0,
                  owner |-> NoOwner, token |-> 0, claimedAt |-> 0, expiresAt |-> 0,
                  effectStarted |-> FALSE, effectCommitted |-> FALSE]]
    /\ attempts = [n \in Nodes |-> <<>>]

Tick ==
    /\ clock < MaxClock
    /\ clock' = clock + 1
    /\ UNCHANGED <<node, attempts>>

\* validateNodeRuntimeRecord, and the CHECK of the same name in migration 017.
RetryContract(effect, retrySafe) ==
    effect = "NON_IDEMPOTENT_MUTATION" => ~retrySafe

Register(n, effect, retrySafe) ==
    /\ RetryContract(effect, retrySafe)
    /\ node[n].state = "ABSENT"
    /\ node' = [node EXCEPT ![n].state = "READY", ![n].effect = effect,
                            ![n].retrySafe = retrySafe]
    /\ UNCHANGED <<clock, attempts>>

-----------------------------------------------------------------------------
\* Mutation: the attempt number is not advanced.
ClaimedRowSameNumber(row, w, now) ==
    [row EXCEPT !.state = "RUNNING", !.fence = @ + 1,
                !.owner = w, !.token = row.fence + 1,
                !.claimedAt = now, !.expiresAt = now + LeaseDuration,
                !.effectStarted = FALSE, !.effectCommitted = FALSE]

\* The UPDATE of Claim: next attempt, next fence, fresh token, cleared effect.
ClaimedRow(row, w, now) ==
    [row EXCEPT !.state = "RUNNING",
                !.attemptNumber = @ + 1, !.fence = @ + 1,
                !.owner = w, !.token = row.fence + 1,
                !.claimedAt = now, !.expiresAt = now + LeaseDuration,
                !.effectStarted = FALSE, !.effectCommitted = FALSE]

PendingAttempt(row, w) ==
    [number |-> row.attemptNumber + 1, fence |-> row.fence + 1, owner |-> w,
     status |-> "PENDING", started |-> FALSE,
     effectStarted |-> FALSE, effectCommitted |-> FALSE]

\* Claim of a READY row.
ClaimReady(n, w, now) ==
    /\ now \in databaseNow
    /\ Len(attempts[n]) < MaxAttempts
    /\ node[n].state = "READY"
    /\ node[n].token = 0
    /\ attempts' = [attempts EXCEPT ![n] = Append(@, PendingAttempt(node[n], w))]
    /\ node' = [node EXCEPT ![n] = ClaimedRow(@, w, now)]
    /\ UNCHANGED clock

\* Mutations: Claim forgets the committed effect, the retry-safe flag, or is one
\* instant early.
ReclaimableCommitted(row, now) ==
    row.state = "RUNNING" /\ ~(now < row.expiresAt) /\ row.retrySafe

ReclaimableUnsafe(row, now) ==
    row.state = "RUNNING" /\ ~(now < row.expiresAt) /\ ~row.effectCommitted

ReclaimableEarly(row, now) ==
    row.state = "RUNNING" /\ ~(now + 1 < row.expiresAt) /\ row.retrySafe
    /\ ~row.effectCommitted

\* Claim of a RUNNING row whose lease has expired: ErrNodeLeaseHeld before the
\* expiry, ErrNodeRecoveryRequired unless the node is retry-safe and its effect
\* is not committed.
Reclaimable(row, now) ==
    /\ row.state = "RUNNING"
    /\ ~(row.owner # NoOwner /\ now < row.expiresAt)
    /\ row.retrySafe
    /\ ~row.effectCommitted

ClaimExpired(n, w, now) ==
    /\ now \in databaseNow
    /\ Len(attempts[n]) < MaxAttempts
    /\ Reclaimable(node[n], now)
    /\ \E k \in Abandonable(n, node[n].attemptNumber, node[n].fence) :
          attempts' = [attempts EXCEPT
                         ![n] = Append(abandonAttemptTx(n, k),
                                       PendingAttempt(node[n], w))]
    /\ node' = [node EXCEPT ![n] = ClaimedRow(@, w, now)]
    /\ UNCHANGED clock

Renew(n, lease, now) ==
    /\ now \in HolderNow(n)
    /\ LeaseFilter(node[n], lease, now)
    /\ node' = [node EXCEPT ![n].expiresAt = now + LeaseDuration]
    /\ UNCHANGED <<clock, attempts>>

StartAttempt(n, lease, now) ==
    /\ now \in HolderNow(n)
    /\ leaseOwnsRow(node[n], lease, now)
    /\ \E k \in AttemptOf(n, lease) :
          /\ attempts[n][k].status = "PENDING"
          /\ attempts' = [attempts EXCEPT ![n][k].status = "RUNNING",
                                          ![n][k].started = TRUE]
    /\ UNCHANGED <<clock, node>>

MarkEffectStarted(n, lease, now) ==
    /\ now \in HolderNow(n)
    /\ LeaseFilter(node[n], lease, now)
    /\ ~node[n].effectStarted
    /\ \E k \in AttemptOf(n, lease) :
          /\ attempts[n][k].status = "RUNNING"
          /\ ~attempts[n][k].effectStarted
          /\ attempts' = [attempts EXCEPT ![n][k].effectStarted = TRUE]
    /\ node' = [node EXCEPT ![n].effectStarted = TRUE]
    /\ UNCHANGED clock

MarkEffectCommitted(n, lease, now) ==
    /\ now \in HolderNow(n)
    /\ LeaseFilter(node[n], lease, now)
    /\ node[n].effectStarted
    /\ ~node[n].effectCommitted
    /\ \E k \in AttemptOf(n, lease) :
          /\ attempts[n][k].status = "RUNNING"
          /\ attempts[n][k].effectStarted
          /\ ~attempts[n][k].effectCommitted
          /\ attempts' = [attempts EXCEPT ![n][k].effectCommitted = TRUE]
    /\ node' = [node EXCEPT ![n].effectCommitted = TRUE]
    /\ UNCHANGED clock

ReleaseBeforeEffect(n, lease, now) ==
    /\ now \in HolderNow(n)
    /\ LeaseFilter(node[n], lease, now)
    /\ ~node[n].effectStarted
    /\ \E k \in Abandonable(n, lease.attemptNumber, lease.fence) :
          attempts' = [attempts EXCEPT ![n] = abandonAttemptTx(n, k)]
    /\ node' = [node EXCEPT ![n] = Unleased(@, "READY")]
    /\ UNCHANGED clock

\* completeAttemptTx: a PENDING attempt can only be cancelled.
Completable(attempt, terminal) ==
    \/ attempt.status = "RUNNING"
    \/ terminal = "CANCELLED" /\ attempt.status = "PENDING"

\* Mutation: a started effect is enough.
EffectResolvedStarted(row, terminal) ==
    (terminal = "SUCCEEDED" /\ isMutation(row.effect)) => row.effectStarted

\* Complete refuses to call a mutation SUCCEEDED before its effect is committed.
EffectResolved(row, terminal) ==
    (terminal = "SUCCEEDED" /\ isMutation(row.effect)) => row.effectCommitted

\* The node state and the attempt status agree by validateAttemptCompletion.
Complete(n, lease, terminal, now) ==
    /\ now \in HolderNow(n)
    /\ leaseOwnsRow(node[n], lease, now)
    /\ EffectResolved(node[n], terminal)
    /\ \E k \in AttemptOf(n, lease) :
          /\ Completable(attempts[n][k], terminal)
          /\ attempts' = [attempts EXCEPT ![n][k].status = terminal]
    /\ node' = [node EXCEPT ![n] = Unleased(@, terminal)]
    /\ UNCHANGED clock

\* Mutation: CANCELLED nodes are requeued.
RequeueableCancelled(row) ==
    row.state \in {"FAILED", "CANCELLED"} /\ row.retrySafe /\ ~isMutation(row.effect)

Requeueable(row) ==
    row.state = "FAILED" /\ row.retrySafe /\ ~isMutation(row.effect)

RequeueFailed(n) ==
    /\ Requeueable(node[n])
    /\ node' = [node EXCEPT ![n] = Unleased(@, "READY")]
    /\ UNCHANGED <<clock, attempts>>

-----------------------------------------------------------------------------
LeaseCall(n, lease, now) ==
    \/ Renew(n, lease, now)
    \/ StartAttempt(n, lease, now)
    \/ MarkEffectStarted(n, lease, now)
    \/ MarkEffectCommitted(n, lease, now)
    \/ ReleaseBeforeEffect(n, lease, now)
    \/ \E terminal \in CompletionStates : Complete(n, lease, terminal, now)

Next ==
    \/ Tick
    \/ \E n \in Nodes :
          \/ \E effect \in EffectClasses, retrySafe \in BOOLEAN :
                Register(n, effect, retrySafe)
          \/ \E w \in Workers, now \in databaseNow :
                ClaimReady(n, w, now) \/ ClaimExpired(n, w, now)
          \/ \E lease \in Issued(n), now \in databaseNow : LeaseCall(n, lease, now)
          \/ RequeueFailed(n)

Spec == Init /\ [][Next]_vars

-----------------------------------------------------------------------------
\* The rows have the columns and values of migrations 017 and 018.
TypeOK ==
    /\ clock \in Nat
    /\ node \in [Nodes -> NodeRow]
    /\ attempts \in [Nodes -> Seq(AttemptRow)]

Numbered(row, rows) ==
    /\ row.fence = Len(rows)
    /\ row.attemptNumber = Len(rows)
    /\ \A k \in DOMAIN rows : rows[k].number = k /\ rows[k].fence = k

\* Claims are numbered without gaps: the k-th attempt row of a node has attempt
\* number and fence k, and the node row carries the number of the last one, so
\* no attempt is lost, shared by two fences or overwritten by a reclaim.
AttemptLineage == \A n \in Nodes : Numbered(node[n], attempts[n])

Exclusive(row, rows) ==
    \A k \in DOMAIN rows :
        /\ Live(rows[k]) <=> (row.state = "RUNNING" /\ k = Len(rows))
        /\ Live(rows[k]) =>
              /\ row.owner = rows[k].owner
              /\ row.token = rows[k].fence
              /\ row.effectStarted <=> rows[k].effectStarted
              /\ row.effectCommitted <=> rows[k].effectCommitted

\* Execution authority is exclusive and recorded twice consistently: an attempt
\* is open (PENDING or RUNNING) exactly when it is the newest claim of a RUNNING
\* node, and then the row's owner, token and effect columns are that attempt's.
SingleLiveAttempt == \A n \in Nodes : Exclusive(node[n], attempts[n])

LeaseColumns(row) ==
    IF row.state = "RUNNING"
    THEN row.owner # NoOwner /\ row.token # 0 /\ row.expiresAt > row.claimedAt
    ELSE row.owner = NoOwner /\ row.token = 0 /\ row.claimedAt = 0 /\ row.expiresAt = 0

\* execution_node_lease_state_contract (migration 017): the lease columns are
\* set exactly while the row is RUNNING, with an expiry after the claim, so no
\* transaction of this code is rejected by the CHECK, stale clock or not.
LeaseStateContract == \A n \in Nodes : LeaseColumns(node[n])

LifecycleColumns(rows) ==
    \A k \in DOMAIN rows :
        /\ rows[k].status \in {"RUNNING", "SUCCEEDED", "FAILED"} => rows[k].started
        /\ rows[k].status = "PENDING" => ~rows[k].started
        /\ rows[k].effectStarted => rows[k].started
        /\ rows[k].effectCommitted => rows[k].effectStarted

\* execution_attempt_lifecycle_contract and the effect-commit contract (migration
\* 018): only a started attempt runs, succeeds, fails or reaches its effect, and
\* an effect is committed only after it was started.
AttemptLifecycleContract == \A n \in Nodes : LifecycleColumns(attempts[n])

\* What migrations 017 and 018 demand of the rows, by CHECK and UNIQUE: every
\* interleaving of claims, takeovers, calls with stale leases and stale clock
\* readings keeps attempts numbered without gaps, lease columns set exactly while
\* the node is RUNNING, and attempts started before they run, end or have effects.
RecordContract == AttemptLineage /\ LeaseStateContract /\ AttemptLifecycleContract

OutcomeOfLast(row, rows) ==
    row.state \in CompletionStates =>
        /\ Len(rows) > 0
        /\ rows[Len(rows)].status = row.state
        /\ (row.state = "SUCCEEDED" /\ isMutation(row.effect)) =>
              rows[Len(rows)].effectCommitted

\* A terminal node state is the outcome of its newest attempt, and a mutation is
\* SUCCEEDED only when that attempt's effect was recorded as committed.
TerminalMatchesAttempt == \A n \in Nodes : OutcomeOfLast(node[n], attempts[n])

CommittedLast(row, rows) ==
    \A k \in DOMAIN rows :
        (isMutation(row.effect) /\ rows[k].effectCommitted) =>
            k = Len(rows) /\ rows[k].status # "ABANDONED"

\* An effect recorded as committed is never attempted again: for a mutation it
\* belongs to the newest attempt, whatever expired, failed or was requeued since.
CommittedEffectIsLast == \A n \in Nodes : CommittedLast(node[n], attempts[n])

NotRepeated(row, rows) ==
    \A k \in DOMAIN rows :
        (~row.retrySafe /\ k < Len(rows)) =>
            rows[k].status = "ABANDONED" /\ ~rows[k].effectStarted

\* A node that is not retry-safe gets a further attempt only after attempts that
\* were released before any effect started.
UnsafeNodeNotRepeated == \A n \in Nodes : NotRepeated(node[n], attempts[n])

\* No effect is made twice: neither one that was committed, whatever the node's
\* retry policy, nor one of a node that is not retry-safe that was started.
OneEffect == CommittedEffectIsLast /\ UnsafeNodeNotRepeated

ClaimableHistory(row, rows) ==
    /\ row.state = "ABSENT" => Len(rows) = 0
    /\ row.state = "READY" =>
          \A k \in DOMAIN rows :
              /\ isMutation(row.effect) => ~rows[k].effectCommitted
              /\ ~row.retrySafe =>
                    rows[k].status = "ABANDONED" /\ ~rows[k].effectStarted

\* What Claim relies on when it grants a READY row without looking at its
\* history: no committed effect of a mutation, and for a node that is not
\* retry-safe only attempts released before their effect started.
ReadyIsClaimable == \A n \in Nodes : ClaimableHistory(node[n], attempts[n])

Retriable(row, rows) ==
    \A k \in DOMAIN rows :
        (k < Len(rows) \/ row.state = "READY") => rows[k].status \in {"ABANDONED", "FAILED"}

\* An attempt that SUCCEEDED or was CANCELLED is the last of its node: neither a
\* requeue nor a claim that raced the completion starts another one.
OutcomeIsFinal == \A n \in Nodes : Retriable(node[n], attempts[n])

FrozenHistory(rows, rows2) ==
    /\ Len(rows2) \in {Len(rows), Len(rows) + 1}
    /\ \A k \in DOMAIN rows :
          (k < Len(rows) \/ ~Live(rows[k])) => rows2[k] = rows[k]

\* Migration 017: "Stale workers must not mutate control-plane rows protected by
\* a newer fence."  No step changes an attempt below the current fence or a
\* closed one, removes an attempt, or adds more than one, whatever lease the
\* worker that takes it presents.
StaleWorkersInert ==
    [][\A n \in Nodes : FrozenHistory(attempts[n], attempts'[n])]_vars

TakeoverAfterExpiry(row, row2, t) ==
    (row.state = "RUNNING" /\ row2.fence # row.fence) =>
        row.expiresAt <= t /\ row2.fence = row.fence + 1

\* A live lease is taken over only after its expiry on PostgreSQL's clock, even
\* when the reclaiming transaction decided with an older reading of it.
NoEarlyTakeover ==
    [][\A n \in Nodes : TakeoverAfterExpiry(node[n], node'[n], clock)]_vars

\* Renew's comment (postgres_execution_node_leases.go:167): "An expired lease
\* cannot be revived".
ExpiredLeaseNotRevived ==
    [][\A n \in Nodes :
         (/\ node[n].state = "RUNNING"
          /\ node'[n].fence = node[n].fence
          /\ node'[n].expiresAt > node[n].expiresAt) => clock < node[n].expiresAt]_vars

-----------------------------------------------------------------------------
\* The grants of the abstract authority, read off the attempt rows.
GrantOf(attempt) ==
    [owner |-> attempt.owner,
     outcome |-> IF Live(attempt) THEN "OPEN" ELSE attempt.status]

GrantsOf(rows) == [k \in DOMAIN rows |-> GrantOf(rows[k])]

Authority == INSTANCE ExecutionAuthority WITH grants <- [n \in Nodes |-> GrantsOf(attempts[n])]

\* The lease repository implements the authority its workers rely on: every
\* transaction grants, supersedes or closes exactly as ExecutionAuthority allows,
\* or changes no grant.
ImplementsAuthority == Authority!Spec
=============================================================================
