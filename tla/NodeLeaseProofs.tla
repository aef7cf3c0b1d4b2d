--------------------------- MODULE NodeLeaseProofs ---------------------------
(***************************************************************************)
(* Proofs about the execution authority of NodeLease, for any set of nodes  *)
(* and workers and any bounds.  Every operation touches the row and the     *)
(* attempts of one node, so the inductive invariant is a predicate RowInv   *)
(* of one row and its attempts, each operation has a lemma about that pair, *)
(* and OneNode lifts them to the whole table.                               *)
(***************************************************************************)
EXTENDS NodeLease, TLAPS

RowInv(row, rows) ==
    /\ Numbered(row, rows)
    /\ Exclusive(row, rows)
    /\ LeaseColumns(row)
    /\ LifecycleColumns(rows)
    /\ OutcomeOfLast(row, rows)
    /\ CommittedLast(row, rows)
    /\ NotRepeated(row, rows)
    /\ ClaimableHistory(row, rows)
    /\ Retriable(row, rows)

IInv == TypeOK /\ \A n \in Nodes : RowInv(node[n], attempts[n])

-----------------------------------------------------------------------------
\* What the row operations return.

LEMMA UnleasedRow ==
    ASSUME NEW row \in NodeRow, NEW s \in NodeStates
    PROVE  LET r == Unleased(row, s) IN
           /\ r \in NodeRow
           /\ r.state = s /\ r.owner = NoOwner /\ r.token = 0
           /\ r.claimedAt = 0 /\ r.expiresAt = 0
           /\ r.effect = row.effect /\ r.retrySafe = row.retrySafe
           /\ r.fence = row.fence /\ r.attemptNumber = row.attemptNumber
  BY Zenon DEF Unleased, NodeRow

LEMMA ClaimedRowFields ==
    ASSUME NEW row \in NodeRow, NEW w \in Workers, NEW now \in Nat
    PROVE  LET r == ClaimedRow(row, w, now) IN
           /\ r \in NodeRow
           /\ r.state = "RUNNING" /\ r.owner = w /\ r.token = row.fence + 1
           /\ r.claimedAt = now /\ r.expiresAt = now + LeaseDuration
           /\ r.effect = row.effect /\ r.retrySafe = row.retrySafe
           /\ r.fence = row.fence + 1 /\ r.attemptNumber = row.attemptNumber + 1
           /\ r.effectStarted = FALSE /\ r.effectCommitted = FALSE
  <1>1. row.fence + 1 \in Nat /\ row.attemptNumber + 1 \in Nat
    BY DEF NodeRow
  <1>2. now + LeaseDuration \in Nat
    BY LeaseConstants
  <1>3. ClaimedRow(row, w, now) \in NodeRow
    BY <1>1, <1>2, Zenon DEF ClaimedRow, NodeRow, NodeStates
  <1> QED
    BY <1>3, Zenon DEF ClaimedRow, NodeRow

LEMMA PendingAttemptType ==
    ASSUME NEW row \in NodeRow, NEW w \in Workers
    PROVE  PendingAttempt(row, w) \in AttemptRow
  BY DEF PendingAttempt, AttemptRow, NodeRow, AttemptStatuses

\* Replacing one attempt of a sequence of attempts.
LEMMA ReplaceAttempt ==
    ASSUME NEW rows \in Seq(AttemptRow), NEW k \in DOMAIN rows, NEW a \in AttemptRow
    PROVE  LET t == [rows EXCEPT ![k] = a] IN
           /\ t \in Seq(AttemptRow)
           /\ Len(t) = Len(rows)
           /\ DOMAIN t = DOMAIN rows
           /\ t[k] = a
           /\ \A j \in DOMAIN rows : j # k => t[j] = rows[j]
  OBVIOUS

\* Adding the attempt of a new claim.
LEMMA AppendAttempt ==
    ASSUME NEW rows \in Seq(AttemptRow), NEW a \in AttemptRow
    PROVE  LET t == Append(rows, a) IN
           /\ t \in Seq(AttemptRow)
           /\ Len(t) = Len(rows) + 1
           /\ DOMAIN t = DOMAIN rows \cup {Len(rows) + 1}
           /\ t[Len(rows) + 1] = a
           /\ \A j \in DOMAIN rows : t[j] = rows[j] /\ j \in 1..Len(rows)
  OBVIOUS

\* The attempt numbered by the row is the last one.
LEMMA LastAttempt ==
    ASSUME NEW row \in NodeRow, NEW rows \in Seq(AttemptRow), Numbered(row, rows),
           NEW k \in DOMAIN rows, rows[k].fence = row.fence
    PROVE  k = Len(rows) /\ rows[k] \in AttemptRow
  BY DEF Numbered

-----------------------------------------------------------------------------
\* The history a claim may be granted on: every attempt is closed, no mutation
\* is committed, and nothing but released attempts if the node is not retry-safe.
Settled(row, rows) ==
    /\ Numbered(row, rows)
    /\ LifecycleColumns(rows)
    /\ \A k \in DOMAIN rows :
          /\ rows[k].status \in {"ABANDONED", "FAILED"}
          /\ isMutation(row.effect) => ~rows[k].effectCommitted
          /\ ~row.retrySafe => rows[k].status = "ABANDONED" /\ ~rows[k].effectStarted

\* Claim's UPDATE and INSERT on a settled history.
LEMMA ClaimSettled ==
    ASSUME NEW row \in NodeRow, NEW rows \in Seq(AttemptRow),
           NEW w \in Workers, NEW now \in Nat, Settled(row, rows)
    PROVE  RowInv(ClaimedRow(row, w, now), Append(rows, PendingAttempt(row, w)))
  <1> DEFINE r == ClaimedRow(row, w, now)
             a == PendingAttempt(row, w)
             t == Append(rows, a)
  <1>1. /\ r \in NodeRow
        /\ r.state = "RUNNING" /\ r.owner = w /\ r.token = row.fence + 1
        /\ r.claimedAt = now /\ r.expiresAt = now + LeaseDuration
        /\ r.effect = row.effect /\ r.retrySafe = row.retrySafe
        /\ r.fence = row.fence + 1 /\ r.attemptNumber = row.attemptNumber + 1
        /\ r.effectStarted = FALSE /\ r.effectCommitted = FALSE
    BY ClaimedRowFields, Zenon
  <1>2. a \in AttemptRow
    BY PendingAttemptType
  <1>3. /\ a.number = row.attemptNumber + 1 /\ a.fence = row.fence + 1 /\ a.owner = w
        /\ a.status = "PENDING" /\ a.started = FALSE
        /\ a.effectStarted = FALSE /\ a.effectCommitted = FALSE
    BY DEF PendingAttempt
  <1>4. /\ t \in Seq(AttemptRow)
        /\ Len(t) = Len(rows) + 1
        /\ DOMAIN t = DOMAIN rows \cup {Len(rows) + 1}
        /\ t[Len(rows) + 1] = a
        /\ \A j \in DOMAIN rows : t[j] = rows[j] /\ j \in 1..Len(rows)
    BY <1>2, AppendAttempt
  <1>5. row.fence = Len(rows) /\ row.attemptNumber = Len(rows) /\ Len(rows) \in Nat
    BY DEF Settled, Numbered
  <1> HIDE DEF r, a, t
  <1>6. Numbered(r, t)
    BY <1>1, <1>3, <1>4, <1>5 DEF Settled, Numbered
  <1>7. Exclusive(r, t)
    <2>1. ASSUME NEW k \in DOMAIN rows
          PROVE  k # Len(t) /\ ~Live(t[k])
      BY <2>1, <1>4, <1>5 DEF Settled, Live
    <2>2. Live(t[Len(t)]) /\ t[Len(t)] = a
      BY <1>3, <1>4 DEF Live
    <2> QED
      BY <2>1, <2>2, <1>1, <1>3, <1>4, <1>5 DEF Exclusive
  <1>8. LeaseColumns(r)
    BY <1>1, <1>5, LeaseConstants DEF LeaseColumns
  <1>9. LifecycleColumns(t)
    BY <1>3, <1>4 DEF Settled, LifecycleColumns
  <1>10. OutcomeOfLast(r, t)
    BY <1>1 DEF OutcomeOfLast, CompletionStates
  <1>11. CommittedLast(r, t)
    BY <1>1, <1>3, <1>4 DEF Settled, CommittedLast
  <1>12. NotRepeated(r, t)
    BY <1>1, <1>4, <1>5 DEF Settled, NotRepeated
  <1>13. ClaimableHistory(r, t)
    BY <1>1 DEF ClaimableHistory
  <1>14. Retriable(r, t)
    BY <1>1, <1>4 DEF Settled, Retriable
  <1> QED
    BY <1>6, <1>7, <1>8, <1>9, <1>10, <1>11, <1>12, <1>13, <1>14 DEF RowInv, r, t, a

\* A READY row has a settled history.
LEMMA ReadySettled ==
    ASSUME NEW row \in NodeRow, NEW rows \in Seq(AttemptRow), RowInv(row, rows),
           row.state = "READY"
    PROVE  Settled(row, rows)
  BY DEF RowInv, Settled, ClaimableHistory, Retriable

\* Abandoning the open attempt of a RUNNING row leaves a settled history when
\* the effect is not committed, and the node is retry-safe or its effect has not
\* started.
LEMMA AbandonSettled ==
    ASSUME NEW row \in NodeRow, NEW rows \in Seq(AttemptRow), RowInv(row, rows),
           row.state = "RUNNING", ~row.effectCommitted,
           row.retrySafe \/ ~row.effectStarted,
           NEW k \in DOMAIN rows, rows[k].fence = row.fence
    PROVE  LET t == [rows EXCEPT ![k].status = "ABANDONED"] IN
           t \in Seq(AttemptRow) /\ Settled(row, t)
  <1> DEFINE a == [rows[k] EXCEPT !.status = "ABANDONED"]
             t == [rows EXCEPT ![k] = a]
  <1>1. k = Len(rows) /\ rows[k] \in AttemptRow
    BY LastAttempt DEF RowInv
  <1>2. /\ a \in AttemptRow
        /\ a.status = "ABANDONED" /\ a.number = rows[k].number
        /\ a.fence = rows[k].fence /\ a.started = rows[k].started
        /\ a.effectStarted = rows[k].effectStarted
        /\ a.effectCommitted = rows[k].effectCommitted
    BY <1>1 DEF AttemptRow, AttemptStatuses
  <1>3. /\ t \in Seq(AttemptRow)
        /\ Len(t) = Len(rows)
        /\ DOMAIN t = DOMAIN rows
        /\ t[k] = a
        /\ \A j \in DOMAIN rows : j # k => t[j] = rows[j]
    BY <1>2, ReplaceAttempt
  <1>4. /\ Live(rows[k])
        /\ ~rows[k].effectCommitted
        /\ row.effectStarted <=> rows[k].effectStarted
    BY <1>1 DEF RowInv, Exclusive
  <1> HIDE DEF a, t
  <1>5. Numbered(row, t)
    BY <1>2, <1>3 DEF RowInv, Numbered
  <1>6. LifecycleColumns(t)
    BY <1>2, <1>3 DEF RowInv, LifecycleColumns
  <1>7. ASSUME NEW j \in DOMAIN t
        PROVE  t[j].status \in {"ABANDONED", "FAILED"}
    BY <1>1, <1>2, <1>3 DEF RowInv, Retriable
  <1>8. ASSUME NEW j \in DOMAIN t, isMutation(row.effect)
        PROVE  ~t[j].effectCommitted
    BY <1>8, <1>1, <1>2, <1>3, <1>4 DEF RowInv, CommittedLast
  <1>9. ASSUME NEW j \in DOMAIN t, ~row.retrySafe
        PROVE  t[j].status = "ABANDONED" /\ ~t[j].effectStarted
    <2>1. CASE j = k
      BY <2>1, <1>9, <1>2, <1>3, <1>4
    <2>2. CASE j # k
      BY <2>2, <1>9, <1>1, <1>3 DEF RowInv, NotRepeated
    <2> QED
      BY <2>1, <2>2
  <1>10. Settled(row, t)
    BY <1>5, <1>6, <1>7, <1>8, <1>9 DEF Settled
  <1> QED
    BY <1>3, <1>10 DEF t, a

\* ReleaseBeforeEffect and RequeueFailed: a settled history under a READY row.
LEMMA ReadyAgain ==
    ASSUME NEW row \in NodeRow, NEW rows \in Seq(AttemptRow), Settled(row, rows)
    PROVE  RowInv(Unleased(row, "READY"), rows)
  <1> DEFINE r == Unleased(row, "READY")
  <1>1. /\ r.state = "READY" /\ r.owner = NoOwner /\ r.token = 0
        /\ r.claimedAt = 0 /\ r.expiresAt = 0
        /\ r.effect = row.effect /\ r.retrySafe = row.retrySafe
        /\ r.fence = row.fence /\ r.attemptNumber = row.attemptNumber
    BY UnleasedRow DEF NodeStates
  <1> HIDE DEF r
  <1>2. Numbered(r, rows) /\ Exclusive(r, rows) /\ LeaseColumns(r)
    BY <1>1 DEF Settled, Numbered, Exclusive, Live, LeaseColumns
  <1>3. LifecycleColumns(rows) /\ OutcomeOfLast(r, rows) /\ CommittedLast(r, rows)
    BY <1>1 DEF Settled, OutcomeOfLast, CompletionStates, CommittedLast
  <1>4. NotRepeated(r, rows) /\ ClaimableHistory(r, rows) /\ Retriable(r, rows)
    BY <1>1 DEF Settled, NotRepeated, ClaimableHistory, Retriable
  <1> QED
    BY <1>2, <1>3, <1>4 DEF RowInv, r

\* RequeueFailed: a FAILED retry-safe node that is no mutation.
LEMMA FailedSettled ==
    ASSUME NEW row \in NodeRow, NEW rows \in Seq(AttemptRow), RowInv(row, rows),
           row.state = "FAILED", row.retrySafe, ~isMutation(row.effect)
    PROVE  Settled(row, rows)
  BY DEF RowInv, Settled, Retriable, OutcomeOfLast, CompletionStates

\* Renew moves only the expiry, and to an instant after the claim.
LEMMA RenewRow ==
    ASSUME NEW row \in NodeRow, NEW rows \in Seq(AttemptRow), RowInv(row, rows),
           row.state = "RUNNING", NEW now \in Nat, row.claimedAt <= now
    PROVE  LET r == [row EXCEPT !.expiresAt = now + LeaseDuration] IN
           r \in NodeRow /\ RowInv(r, rows)
  <1> DEFINE r == [row EXCEPT !.expiresAt = now + LeaseDuration]
  <1>1. now + LeaseDuration \in Nat /\ now + LeaseDuration > now
    BY LeaseConstants
  <1>2. r \in NodeRow
    BY <1>1 DEF NodeRow
  <1>3. /\ r.state = row.state /\ r.owner = row.owner /\ r.token = row.token
        /\ r.claimedAt = row.claimedAt /\ r.expiresAt = now + LeaseDuration
        /\ r.effect = row.effect /\ r.retrySafe = row.retrySafe
        /\ r.fence = row.fence /\ r.attemptNumber = row.attemptNumber
        /\ r.effectStarted = row.effectStarted
        /\ r.effectCommitted = row.effectCommitted
    BY DEF NodeRow
  <1>4. row.claimedAt \in Nat
    BY DEF NodeRow
  <1> HIDE DEF r
  <1>5. Numbered(r, rows) /\ Exclusive(r, rows) /\ LeaseColumns(r)
    BY <1>1, <1>3, <1>4 DEF RowInv, Numbered, Exclusive, LeaseColumns
  <1>6. LifecycleColumns(rows) /\ OutcomeOfLast(r, rows) /\ CommittedLast(r, rows)
    BY <1>3 DEF RowInv, OutcomeOfLast, CommittedLast
  <1>7. NotRepeated(r, rows) /\ ClaimableHistory(r, rows) /\ Retriable(r, rows)
    BY <1>3 DEF RowInv, NotRepeated, ClaimableHistory, Retriable
  <1> QED
    BY <1>2, <1>5, <1>6, <1>7 DEF RowInv, r

\* The holder updates its own open attempt a and, in step with it, the effect
\* columns of the row (StartAttempt, MarkEffectStarted, MarkEffectCommitted).
LEMMA HolderUpdate ==
    ASSUME NEW row \in NodeRow, NEW rows \in Seq(AttemptRow), RowInv(row, rows),
           row.state = "RUNNING", NEW k \in DOMAIN rows, rows[k].fence = row.fence,
           NEW r \in NodeRow, NEW a \in AttemptRow,
           /\ r.state = row.state /\ r.owner = row.owner /\ r.token = row.token
           /\ r.claimedAt = row.claimedAt /\ r.expiresAt = row.expiresAt
           /\ r.effect = row.effect /\ r.retrySafe = row.retrySafe
           /\ r.fence = row.fence /\ r.attemptNumber = row.attemptNumber,
           /\ a.number = rows[k].number /\ a.fence = rows[k].fence
           /\ a.owner = rows[k].owner /\ a.status = "RUNNING" /\ a.started
           /\ a.effectCommitted => a.effectStarted
           /\ r.effectStarted <=> a.effectStarted
           /\ r.effectCommitted <=> a.effectCommitted
    PROVE  LET t == [rows EXCEPT ![k] = a] IN
           t \in Seq(AttemptRow) /\ RowInv(r, t)
  <1> DEFINE t == [rows EXCEPT ![k] = a]
  <1>1. k = Len(rows)
    BY LastAttempt DEF RowInv
  <1>2. /\ t \in Seq(AttemptRow)
        /\ Len(t) = Len(rows)
        /\ DOMAIN t = DOMAIN rows
        /\ t[k] = a
        /\ \A j \in DOMAIN rows : j # k => t[j] = rows[j]
    BY ReplaceAttempt
  <1> HIDE DEF t
  <1>3. Numbered(r, t)
    BY <1>2 DEF RowInv, Numbered
  <1>4. Exclusive(r, t)
    <2>1. Live(t[k]) /\ Live(rows[k])
      BY <1>1, <1>2 DEF RowInv, Exclusive, Live
    <2> QED
      BY <2>1, <1>1, <1>2 DEF RowInv, Exclusive
  <1>5. LeaseColumns(r) /\ LifecycleColumns(t)
    BY <1>2 DEF RowInv, LeaseColumns, LifecycleColumns
  <1>6. OutcomeOfLast(r, t) /\ ClaimableHistory(r, t)
    BY DEF OutcomeOfLast, ClaimableHistory, CompletionStates
  <1>7. CommittedLast(r, t)
    BY <1>1, <1>2 DEF RowInv, CommittedLast
  <1>8. NotRepeated(r, t) /\ Retriable(r, t)
    BY <1>1, <1>2 DEF RowInv, NotRepeated, Retriable
  <1> QED
    BY <1>2, <1>3, <1>4, <1>5, <1>6, <1>7, <1>8 DEF RowInv, t

\* Complete closes the open attempt and the row with the same outcome.
LEMMA CompleteRow ==
    ASSUME NEW row \in NodeRow, NEW rows \in Seq(AttemptRow), RowInv(row, rows),
           row.state = "RUNNING", NEW k \in DOMAIN rows, rows[k].fence = row.fence,
           NEW terminal \in CompletionStates, Completable(rows[k], terminal),
           EffectResolved(row, terminal)
    PROVE  LET t == [rows EXCEPT ![k].status = terminal] IN
           t \in Seq(AttemptRow) /\ RowInv(Unleased(row, terminal), t)
  <1> DEFINE r == Unleased(row, terminal)
             a == [rows[k] EXCEPT !.status = terminal]
             t == [rows EXCEPT ![k] = a]
  <1>1. k = Len(rows) /\ rows[k] \in AttemptRow
    BY LastAttempt DEF RowInv
  <1>2. terminal \in NodeStates /\ terminal \in AttemptStatuses /\ terminal # "ABANDONED"
        /\ terminal \notin {"RUNNING", "READY", "ABSENT", "PENDING"}
    BY DEF CompletionStates, NodeStates, AttemptStatuses
  <1>3. /\ r.state = terminal /\ r.owner = NoOwner /\ r.token = 0
        /\ r.claimedAt = 0 /\ r.expiresAt = 0
        /\ r.effect = row.effect /\ r.retrySafe = row.retrySafe
        /\ r.fence = row.fence /\ r.attemptNumber = row.attemptNumber
    BY <1>2, UnleasedRow
  <1>4. /\ a \in AttemptRow
        /\ a.status = terminal /\ a.number = rows[k].number
        /\ a.fence = rows[k].fence /\ a.started = rows[k].started
        /\ a.effectStarted = rows[k].effectStarted
        /\ a.effectCommitted = rows[k].effectCommitted
    BY <1>1, <1>2 DEF AttemptRow
  <1>5. /\ t \in Seq(AttemptRow)
        /\ Len(t) = Len(rows)
        /\ DOMAIN t = DOMAIN rows
        /\ t[k] = a
        /\ \A j \in DOMAIN rows : j # k => t[j] = rows[j]
    BY <1>4, ReplaceAttempt
  <1>6. Live(rows[k]) /\ (row.effectCommitted <=> rows[k].effectCommitted)
    BY <1>1 DEF RowInv, Exclusive
  <1>7. Len(rows) > 0
    BY <1>1
  <1> HIDE DEF r, a, t
  <1>8. Numbered(r, t)
    BY <1>3, <1>4, <1>5 DEF RowInv, Numbered
  <1>9. Exclusive(r, t)
    <2>1. ASSUME NEW j \in DOMAIN t
          PROVE  ~Live(t[j])
      <3>1. CASE j = k
        BY <3>1, <1>2, <1>4, <1>5 DEF Live
      <3>2. CASE j # k
        BY <3>2, <1>1, <1>5 DEF RowInv, Exclusive
      <3> QED
        BY <3>1, <3>2
    <2> QED
      BY <2>1, <1>2, <1>3 DEF Exclusive
  <1>10. LeaseColumns(r)
    BY <1>2, <1>3 DEF LeaseColumns
  <1>11. LifecycleColumns(t)
    <2>1. rows[k].status = "RUNNING" => rows[k].started
      BY DEF RowInv, LifecycleColumns
    <2>2. terminal \in {"SUCCEEDED", "FAILED"} => rows[k].started
      BY <2>1 DEF Completable
    <2> QED
      BY <2>2, <1>2, <1>4, <1>5 DEF RowInv, LifecycleColumns
  <1>12. OutcomeOfLast(r, t)
    BY <1>1, <1>3, <1>4, <1>5, <1>6, <1>7 DEF OutcomeOfLast, EffectResolved
  <1>13. CommittedLast(r, t)
    BY <1>1, <1>2, <1>3, <1>4, <1>5 DEF RowInv, CommittedLast
  <1>14. NotRepeated(r, t) /\ Retriable(r, t)
    BY <1>1, <1>2, <1>3, <1>5 DEF RowInv, NotRepeated, Retriable
  <1>15. ClaimableHistory(r, t)
    BY <1>2, <1>3 DEF ClaimableHistory
  <1> QED
    BY <1>5, <1>8, <1>9, <1>10, <1>11, <1>12, <1>13, <1>14, <1>15 DEF RowInv, r, t, a

\* Register: a fresh READY row has no history.
LEMMA RegisterRow ==
    ASSUME NEW row \in NodeRow, NEW rows \in Seq(AttemptRow), RowInv(row, rows),
           row.state = "ABSENT", NEW effect \in EffectClasses, NEW safe \in BOOLEAN
    PROVE  LET r == [row EXCEPT !.state = "READY", !.effect = effect,
                                !.retrySafe = safe] IN
           r \in NodeRow /\ RowInv(r, rows)
  <1> DEFINE r == [row EXCEPT !.state = "READY", !.effect = effect, !.retrySafe = safe]
  <1>1. r \in NodeRow
    BY Zenon DEF NodeRow, NodeStates
  <1>2. /\ r.state = "READY" /\ r.owner = row.owner /\ r.token = row.token
        /\ r.claimedAt = row.claimedAt /\ r.expiresAt = row.expiresAt
        /\ r.fence = row.fence /\ r.attemptNumber = row.attemptNumber
    BY DEF NodeRow
  <1>3. Len(rows) = 0 /\ DOMAIN rows = {}
    BY DEF RowInv, ClaimableHistory
  <1> HIDE DEF r
  <1>4. Numbered(r, rows) /\ Exclusive(r, rows) /\ LeaseColumns(r)
    BY <1>2, <1>3 DEF RowInv, Numbered, Exclusive, LeaseColumns
  <1>5. LifecycleColumns(rows) /\ OutcomeOfLast(r, rows) /\ CommittedLast(r, rows)
    BY <1>2, <1>3 DEF LifecycleColumns, OutcomeOfLast, CommittedLast, CompletionStates
  <1>6. NotRepeated(r, rows) /\ ClaimableHistory(r, rows) /\ Retriable(r, rows)
    BY <1>2, <1>3 DEF NotRepeated, ClaimableHistory, Retriable
  <1> QED
    BY <1>1, <1>4, <1>5, <1>6 DEF RowInv, r

-----------------------------------------------------------------------------
\* A step that writes the row and the attempts of one node keeps the invariant
\* when the new pair satisfies it.
LEMMA OneNode ==
    ASSUME IInv, NEW n \in Nodes, NEW r \in NodeRow, NEW t \in Seq(AttemptRow),
           RowInv(r, t), clock' \in Nat,
           node' = [node EXCEPT ![n] = r], attempts' = [attempts EXCEPT ![n] = t]
    PROVE  IInv'
  <1>1. node \in [Nodes -> NodeRow] /\ attempts \in [Nodes -> Seq(AttemptRow)]
    BY DEF IInv, TypeOK
  <1>2. TypeOK'
    BY <1>1 DEF TypeOK
  <1>3. ASSUME NEW m \in Nodes
        PROVE  RowInv(node[m], attempts[m])'
    <2>1. CASE m = n
      <3>1. node'[m] = r /\ attempts'[m] = t
        BY <2>1, <1>1
      <3> QED
        BY <3>1
    <2>2. CASE m # n
      <3>1. node'[m] = node[m] /\ attempts'[m] = attempts[m]
        BY <2>2, <1>1
      <3>2. RowInv(node[m], attempts[m])
        BY DEF IInv
      <3> QED
        BY <3>1, <3>2
    <2> QED
      BY <2>1, <2>2
  <1> QED
    BY <1>2, <1>3 DEF IInv

\* The initial table satisfies the invariant.
LEMMA InitIInv == Init => IInv
  <1> SUFFICES ASSUME Init PROVE IInv
    OBVIOUS
  <1> DEFINE r == [state |-> "ABSENT", effect |-> "PURE", retrySafe |-> FALSE,
                   attemptNumber |-> 0, fence |-> 0,
                   owner |-> NoOwner, token |-> 0, claimedAt |-> 0, expiresAt |-> 0,
                   effectStarted |-> FALSE, effectCommitted |-> FALSE]
  <1>1. r \in NodeRow
    BY DEF NodeRow, NodeStates, EffectClasses
  <1>2. TypeOK
    BY <1>1 DEF Init, TypeOK
  <1>3. RowInv(r, <<>>)
    BY DEF RowInv, Numbered, Exclusive, LeaseColumns, LifecycleColumns, OutcomeOfLast,
           CommittedLast, NotRepeated, ClaimableHistory, Retriable, CompletionStates
  <1>4. ASSUME NEW n \in Nodes
        PROVE  node[n] = r /\ attempts[n] = <<>>
    BY DEF Init
  <1> HIDE DEF r
  <1> QED
    BY <1>2, <1>3, <1>4 DEF IInv

\* Every step preserves the invariant, one case per operation.
LEMMA NextIInv == IInv /\ [Next]_vars => IInv'
  <1> SUFFICES ASSUME IInv, [Next]_vars PROVE IInv'
    OBVIOUS
  <1>t. TypeOK
    BY DEF IInv
  <1>a. ASSUME NEW n \in Nodes
        PROVE  /\ node[n] \in NodeRow /\ attempts[n] \in Seq(AttemptRow)
               /\ RowInv(node[n], attempts[n])
               /\ node = [node EXCEPT ![n] = node[n]]
               /\ attempts = [attempts EXCEPT ![n] = attempts[n]]
    BY DEF IInv, TypeOK
  <1>c. clock \in Nat /\ databaseNow \subseteq Nat
    BY DEF IInv, TypeOK, databaseNow
  <1>1. CASE UNCHANGED vars
    BY <1>1 DEF vars, IInv, TypeOK
  <1>2. CASE Tick
    BY <1>2, <1>c DEF Tick, IInv, TypeOK
  <1>3. ASSUME NEW n \in Nodes, NEW effect \in EffectClasses, NEW safe \in BOOLEAN,
               Register(n, effect, safe)
        PROVE  IInv'
    <2> DEFINE r == [node[n] EXCEPT !.state = "READY", !.effect = effect,
                                    !.retrySafe = safe]
    <2>1. r \in NodeRow /\ RowInv(r, attempts[n])
      BY <1>3, <1>a, RegisterRow, Zenon DEF Register
    <2>2. node' = [node EXCEPT ![n] = r] /\ attempts' = attempts /\ clock' = clock
      BY <1>3, <1>t, Zenon DEF Register, TypeOK
    <2> HIDE DEF r
    <2> QED
      BY <2>1, <2>2, <1>a, <1>c, OneNode, Zenon
  <1>4. ASSUME NEW n \in Nodes, NEW w \in Workers, NEW now \in databaseNow,
               ClaimReady(n, w, now)
        PROVE  IInv'
    <2>1. RowInv(ClaimedRow(node[n], w, now),
                 Append(attempts[n], PendingAttempt(node[n], w)))
      BY <1>4, <1>a, <1>c, ReadySettled, ClaimSettled DEF ClaimReady
    <2>2. ClaimedRow(node[n], w, now) \in NodeRow
      BY <1>a, <1>c, ClaimedRowFields, Zenon
    <2>3. Append(attempts[n], PendingAttempt(node[n], w)) \in Seq(AttemptRow)
      BY <1>a, PendingAttemptType, AppendAttempt
    <2> QED
      BY <2>1, <2>2, <2>3, <1>4, <1>c, OneNode, Zenon DEF ClaimReady
  <1>5. ASSUME NEW n \in Nodes, NEW w \in Workers, NEW now \in databaseNow,
               ClaimExpired(n, w, now)
        PROVE  IInv'
    <2>1. PICK k \in Abandonable(n, node[n].attemptNumber, node[n].fence) :
             attempts' = [attempts EXCEPT ![n] = Append(abandonAttemptTx(n, k),
                                                        PendingAttempt(node[n], w))]
      BY <1>5, Zenon DEF ClaimExpired
    <2>2. abandonAttemptTx(n, k) \in Seq(AttemptRow) /\ Settled(node[n], abandonAttemptTx(n, k))
      BY <2>1, <1>5, <1>a, AbandonSettled
         DEF ClaimExpired, Reclaimable, Abandonable, abandonAttemptTx
    <2>3. RowInv(ClaimedRow(node[n], w, now),
                 Append(abandonAttemptTx(n, k), PendingAttempt(node[n], w)))
      BY <2>2, <1>a, <1>c, ClaimSettled
    <2>4. ClaimedRow(node[n], w, now) \in NodeRow
      BY <1>a, <1>c, ClaimedRowFields, Zenon
    <2>5. Append(abandonAttemptTx(n, k), PendingAttempt(node[n], w)) \in Seq(AttemptRow)
      BY <2>2, <1>a, PendingAttemptType, AppendAttempt
    <2> QED
      BY <2>1, <2>3, <2>4, <2>5, <1>5, <1>c, OneNode, Zenon DEF ClaimExpired
  <1>6. ASSUME NEW n \in Nodes, NEW lease \in Issued(n), NEW now \in databaseNow,
               Renew(n, lease, now)
        PROVE  IInv'
    <2> DEFINE r == [node[n] EXCEPT !.expiresAt = now + LeaseDuration]
    <2>1. r \in NodeRow /\ RowInv(r, attempts[n])
      BY <1>6, <1>a, <1>c, RenewRow DEF Renew, LeaseFilter, HolderNow
    <2>2. node' = [node EXCEPT ![n] = r] /\ attempts' = attempts /\ clock' = clock
      BY <1>6, <1>t DEF Renew, TypeOK
    <2> HIDE DEF r
    <2> QED
      BY <2>1, <2>2, <1>a, <1>c, OneNode, Zenon
  <1>7. ASSUME NEW n \in Nodes, NEW lease \in Issued(n), NEW now \in databaseNow,
               StartAttempt(n, lease, now)
        PROVE  IInv'
    <2>1. PICK k \in AttemptOf(n, lease) :
             /\ attempts[n][k].status = "PENDING"
             /\ attempts' = [attempts EXCEPT ![n][k].status = "RUNNING",
                                             ![n][k].started = TRUE]
      BY <1>7, Zenon DEF StartAttempt
    <2>2. /\ k \in DOMAIN attempts[n] /\ attempts[n][k].fence = node[n].fence
          /\ node[n].state = "RUNNING" /\ node' = node /\ clock' = clock
      BY <2>1, <1>7 DEF StartAttempt, leaseOwnsRow, AttemptOf
    <2> DEFINE a == [attempts[n][k] EXCEPT !.status = "RUNNING", !.started = TRUE]
               t == [attempts[n] EXCEPT ![k] = a]
    <2>3. attempts[n][k] \in AttemptRow
      BY <2>2, <1>a
    <2>4. /\ a \in AttemptRow
          /\ a.number = attempts[n][k].number /\ a.fence = attempts[n][k].fence
          /\ a.owner = attempts[n][k].owner /\ a.status = "RUNNING" /\ a.started
          /\ a.effectStarted = attempts[n][k].effectStarted
          /\ a.effectCommitted = attempts[n][k].effectCommitted
      BY <2>3, Zenon DEF AttemptRow, AttemptStatuses
    <2>5. /\ attempts[n][k].effectCommitted => attempts[n][k].effectStarted
          /\ node[n].effectStarted <=> attempts[n][k].effectStarted
          /\ node[n].effectCommitted <=> attempts[n][k].effectCommitted
      BY <2>1, <2>2, <1>a DEF RowInv, Exclusive, Live, LifecycleColumns
    <2>6. attempts' = [attempts EXCEPT ![n] = t]
      BY <2>1, <2>2, <1>t, Zenon DEF TypeOK
    <2> HIDE DEF a
    <2>7. t \in Seq(AttemptRow) /\ RowInv(node[n], t)
      BY <2>2, <2>4, <2>5, <1>a, HolderUpdate
    <2> HIDE DEF t
    <2> QED
      BY <2>2, <2>6, <2>7, <1>a, <1>c, OneNode, Zenon
  <1>8. ASSUME NEW n \in Nodes, NEW lease \in Issued(n), NEW now \in databaseNow,
               MarkEffectStarted(n, lease, now)
        PROVE  IInv'
    <2>1. PICK k \in AttemptOf(n, lease) :
             /\ attempts[n][k].status = "RUNNING"
             /\ ~attempts[n][k].effectStarted
             /\ attempts' = [attempts EXCEPT ![n][k].effectStarted = TRUE]
      BY <1>8, Zenon DEF MarkEffectStarted
    <2>2. /\ k \in DOMAIN attempts[n] /\ attempts[n][k].fence = node[n].fence
          /\ node[n].state = "RUNNING" /\ clock' = clock
          /\ node' = [node EXCEPT ![n].effectStarted = TRUE]
      BY <2>1, <1>8 DEF MarkEffectStarted, LeaseFilter, AttemptOf
    <2> DEFINE a == [attempts[n][k] EXCEPT !.effectStarted = TRUE]
               t == [attempts[n] EXCEPT ![k] = a]
               r == [node[n] EXCEPT !.effectStarted = TRUE]
    <2>3. attempts[n][k] \in AttemptRow
      BY <2>2, <1>a
    <2>4. /\ a \in AttemptRow
          /\ a.number = attempts[n][k].number /\ a.fence = attempts[n][k].fence
          /\ a.owner = attempts[n][k].owner /\ a.status = attempts[n][k].status
          /\ a.started = attempts[n][k].started
          /\ a.effectStarted
          /\ a.effectCommitted = attempts[n][k].effectCommitted
      BY <2>3, Zenon DEF AttemptRow
    <2>5. /\ r \in NodeRow
          /\ r.state = node[n].state /\ r.owner = node[n].owner /\ r.token = node[n].token
          /\ r.claimedAt = node[n].claimedAt /\ r.expiresAt = node[n].expiresAt
          /\ r.effect = node[n].effect /\ r.retrySafe = node[n].retrySafe
          /\ r.fence = node[n].fence /\ r.attemptNumber = node[n].attemptNumber
          /\ r.effectStarted /\ r.effectCommitted = node[n].effectCommitted
      BY <1>a, Zenon DEF NodeRow
    <2>6. /\ attempts[n][k].started
          /\ node[n].effectCommitted <=> attempts[n][k].effectCommitted
      BY <2>1, <2>2, <1>a DEF RowInv, Exclusive, Live, LifecycleColumns
    <2>7. attempts' = [attempts EXCEPT ![n] = t] /\ node' = [node EXCEPT ![n] = r]
      BY <2>1, <2>2, <1>t DEF TypeOK
    <2> HIDE DEF a, r
    <2>8. t \in Seq(AttemptRow) /\ RowInv(r, t)
      BY <2>1, <2>2, <2>4, <2>5, <2>6, <1>a, HolderUpdate, Zenon
    <2> HIDE DEF t
    <2> QED
      BY <2>2, <2>5, <2>7, <2>8, <1>a, <1>c, OneNode, Zenon
  <1>9. ASSUME NEW n \in Nodes, NEW lease \in Issued(n), NEW now \in databaseNow,
               MarkEffectCommitted(n, lease, now)
        PROVE  IInv'
    <2>1. PICK k \in AttemptOf(n, lease) :
             /\ attempts[n][k].status = "RUNNING"
             /\ attempts[n][k].effectStarted
             /\ attempts' = [attempts EXCEPT ![n][k].effectCommitted = TRUE]
      BY <1>9, Zenon DEF MarkEffectCommitted
    <2>2. /\ k \in DOMAIN attempts[n] /\ attempts[n][k].fence = node[n].fence
          /\ node[n].state = "RUNNING" /\ node[n].effectStarted /\ clock' = clock
          /\ node' = [node EXCEPT ![n].effectCommitted = TRUE]
      BY <2>1, <1>9 DEF MarkEffectCommitted, LeaseFilter, AttemptOf
    <2> DEFINE a == [attempts[n][k] EXCEPT !.effectCommitted = TRUE]
               t == [attempts[n] EXCEPT ![k] = a]
               r == [node[n] EXCEPT !.effectCommitted = TRUE]
    <2>3. attempts[n][k] \in AttemptRow
      BY <2>2, <1>a
    <2>4. /\ a \in AttemptRow
          /\ a.number = attempts[n][k].number /\ a.fence = attempts[n][k].fence
          /\ a.owner = attempts[n][k].owner /\ a.status = attempts[n][k].status
          /\ a.started = attempts[n][k].started
          /\ a.effectStarted = attempts[n][k].effectStarted
          /\ a.effectCommitted
      BY <2>3, Zenon DEF AttemptRow
    <2>5. /\ r \in NodeRow
          /\ r.state = node[n].state /\ r.owner = node[n].owner /\ r.token = node[n].token
          /\ r.claimedAt = node[n].claimedAt /\ r.expiresAt = node[n].expiresAt
          /\ r.effect = node[n].effect /\ r.retrySafe = node[n].retrySafe
          /\ r.fence = node[n].fence /\ r.attemptNumber = node[n].attemptNumber
          /\ r.effectStarted = node[n].effectStarted /\ r.effectCommitted
      BY <1>a, Zenon DEF NodeRow
    <2>6. attempts[n][k].started
      BY <2>1, <2>2, <1>a DEF RowInv, LifecycleColumns
    <2>7. attempts' = [attempts EXCEPT ![n] = t] /\ node' = [node EXCEPT ![n] = r]
      BY <2>1, <2>2, <1>t DEF TypeOK
    <2> HIDE DEF a, r
    <2>8. t \in Seq(AttemptRow) /\ RowInv(r, t)
      BY <2>1, <2>2, <2>4, <2>5, <2>6, <1>a, HolderUpdate, Zenon
    <2> HIDE DEF t
    <2> QED
      BY <2>2, <2>5, <2>7, <2>8, <1>a, <1>c, OneNode, Zenon
  <1>10. ASSUME NEW n \in Nodes, NEW lease \in Issued(n), NEW now \in databaseNow,
                ReleaseBeforeEffect(n, lease, now)
         PROVE  IInv'
    <2>1. PICK k \in Abandonable(n, lease.attemptNumber, lease.fence) :
             attempts' = [attempts EXCEPT ![n] = abandonAttemptTx(n, k)]
      BY <1>10, Zenon DEF ReleaseBeforeEffect
    <2>2. /\ k \in DOMAIN attempts[n] /\ attempts[n][k].fence = node[n].fence
          /\ node[n].state = "RUNNING" /\ ~node[n].effectStarted /\ clock' = clock
          /\ Live(attempts[n][k])
          /\ node' = [node EXCEPT ![n] = Unleased(node[n], "READY")]
      BY <2>1, <1>10 DEF ReleaseBeforeEffect, LeaseFilter, Abandonable, Live
    <2>3. ~node[n].effectCommitted
      BY <2>2, <1>a DEF RowInv, Exclusive, LifecycleColumns
    <2>4. abandonAttemptTx(n, k) \in Seq(AttemptRow) /\ Settled(node[n], abandonAttemptTx(n, k))
      BY <2>2, <2>3, <1>a, AbandonSettled, Zenon DEF abandonAttemptTx
    <2>5. RowInv(Unleased(node[n], "READY"), abandonAttemptTx(n, k))
      BY <2>4, <1>a, ReadyAgain
    <2>6. Unleased(node[n], "READY") \in NodeRow
      BY <1>a, UnleasedRow DEF NodeStates
    <2> QED
      BY <2>1, <2>2, <2>4, <2>5, <2>6, <1>c, OneNode, Zenon
  <1>11. ASSUME NEW n \in Nodes, NEW lease \in Issued(n), NEW now \in databaseNow,
                NEW terminal \in CompletionStates, Complete(n, lease, terminal, now)
         PROVE  IInv'
    <2>1. PICK k \in AttemptOf(n, lease) :
             /\ Completable(attempts[n][k], terminal)
             /\ attempts' = [attempts EXCEPT ![n][k].status = terminal]
      BY <1>11, Zenon DEF Complete
    <2>2. /\ k \in DOMAIN attempts[n] /\ attempts[n][k].fence = node[n].fence
          /\ node[n].state = "RUNNING" /\ clock' = clock
          /\ EffectResolved(node[n], terminal)
          /\ node' = [node EXCEPT ![n] = Unleased(node[n], terminal)]
      BY <2>1, <1>11 DEF Complete, leaseOwnsRow, AttemptOf
    <2> DEFINE t == [attempts[n] EXCEPT ![k].status = terminal]
    <2>3. t \in Seq(AttemptRow) /\ RowInv(Unleased(node[n], terminal), t)
      BY <2>1, <2>2, <1>a, CompleteRow, Zenon
    <2>4. attempts' = [attempts EXCEPT ![n] = t]
      BY <2>1, <2>2, <1>t DEF TypeOK
    <2>5. Unleased(node[n], terminal) \in NodeRow
      BY <1>a, UnleasedRow DEF NodeStates, CompletionStates
    <2> HIDE DEF t
    <2> QED
      BY <2>2, <2>3, <2>4, <2>5, <1>c, OneNode, Zenon
  <1>12. ASSUME NEW n \in Nodes, RequeueFailed(n)
         PROVE  IInv'
    <2>1. Settled(node[n], attempts[n])
      BY <1>12, <1>a, FailedSettled DEF RequeueFailed, Requeueable
    <2>2. RowInv(Unleased(node[n], "READY"), attempts[n])
      BY <2>1, <1>a, ReadyAgain
    <2>3. Unleased(node[n], "READY") \in NodeRow
      BY <1>a, UnleasedRow DEF NodeStates
    <2> QED
      BY <2>2, <2>3, <1>12, <1>a, <1>c, OneNode, Zenon DEF RequeueFailed
  <1> QED
    BY <1>1, <1>2, <1>3, <1>4, <1>5, <1>6, <1>7, <1>8, <1>9, <1>10, <1>11, <1>12
       DEF Next, LeaseCall

-----------------------------------------------------------------------------
\* The inductive invariant holds in every reachable state.
THEOREM Invariance == Spec => []IInv
  BY InitIInv, NextIInv, PTL DEF Spec

\* Rows and attempts always have the columns and values of migrations 017 and 018.
THEOREM TypeCorrect == Spec => []TypeOK
  <1>1. IInv => TypeOK
    BY DEF IInv
  <1> QED
    BY <1>1, Invariance, PTL

\* At most the newest claim is open, with the row and the attempt agreeing on
\* owner, token and effect.
THEOREM ExclusiveAuthority == Spec => []SingleLiveAttempt
  <1>1. IInv => SingleLiveAttempt
    BY Zenon DEF IInv, RowInv, SingleLiveAttempt
  <1> QED
    BY <1>1, Invariance, PTL

\* No transaction is ever rejected by the constraints on attempt numbers, leases,
\* attempt lifecycle and effects (migrations 017 and 018).
THEOREM SchemaContracts == Spec => []RecordContract
  <1>1. IInv => RecordContract
    BY DEF IInv, RowInv, RecordContract, AttemptLineage, LeaseStateContract,
           AttemptLifecycleContract
  <1> QED
    BY <1>1, Invariance, PTL

\* A terminal row has the outcome of its newest attempt: Complete closes both in
\* one transaction, and nothing opens them again.
THEOREM TerminalRowsAgree == Spec => []TerminalMatchesAttempt
  <1>1. IInv => TerminalMatchesAttempt
    BY DEF IInv, RowInv, TerminalMatchesAttempt
  <1> QED
    BY <1>1, Invariance, PTL

\* A committed mutation is never attempted again, a node that is not retry-safe
\* only after releases before its effect, and success or cancellation is final.
THEOREM EffectsNotRepeated == Spec => [](OneEffect /\ ReadyIsClaimable /\ OutcomeIsFinal)
  <1>1. IInv => OneEffect /\ ReadyIsClaimable /\ OutcomeIsFinal
    BY DEF IInv, RowInv, OneEffect, CommittedEffectIsLast, UnsafeNodeNotRepeated,
           ReadyIsClaimable, OutcomeIsFinal
  <1> QED
    BY <1>1, Invariance, PTL

-----------------------------------------------------------------------------
\* How a step can change the attempts of a node.
HistoryStep(row, rows, t) ==
    \/ /\ \A k \in DOMAIN rows : rows[k].status \in {"ABANDONED", "FAILED"}
       /\ \E w \in Workers : t = Append(rows, PendingAttempt(row, w))
    \/ /\ Len(rows) \in DOMAIN rows
       /\ Live(rows[Len(rows)])
       /\ \/ \E a \in AttemptRow :
                /\ a.owner = rows[Len(rows)].owner
                /\ t = [rows EXCEPT ![Len(rows)] = a]
          \/ \E w \in Workers :
                t = Append([rows EXCEPT ![Len(rows)].status = "ABANDONED"],
                           PendingAttempt(row, w))

\* Every step leaves all attempts alone or takes one such step on one node.
LEMMA StepShape ==
    ASSUME IInv, [Next]_vars
    PROVE  \/ attempts' = attempts
           \/ \E n \in Nodes : \E t \in Seq(AttemptRow) :
                 /\ attempts' = [attempts EXCEPT ![n] = t]
                 /\ HistoryStep(node[n], attempts[n], t)
  <1> DEFINE Shape == \/ attempts' = attempts
                      \/ \E n \in Nodes : \E t \in Seq(AttemptRow) :
                            /\ attempts' = [attempts EXCEPT ![n] = t]
                            /\ HistoryStep(node[n], attempts[n], t)
  <1>t. attempts \in [Nodes -> Seq(AttemptRow)]
    BY DEF IInv, TypeOK
  <1>a. ASSUME NEW n \in Nodes
        PROVE  /\ node[n] \in NodeRow /\ attempts[n] \in Seq(AttemptRow)
               /\ RowInv(node[n], attempts[n])
    BY DEF IInv, TypeOK
  <1>b. ASSUME NEW n \in Nodes, NEW k \in DOMAIN attempts[n], NEW a \in AttemptRow,
               node[n].state = "RUNNING", attempts[n][k].fence = node[n].fence,
               a.owner = attempts[n][k].owner,
               attempts' = [attempts EXCEPT ![n] = [attempts[n] EXCEPT ![k] = a]]
        PROVE  Shape
    <2>1. k = Len(attempts[n]) /\ Live(attempts[n][k])
      BY <1>b, <1>a, LastAttempt DEF RowInv, Exclusive
    <2>2. [attempts[n] EXCEPT ![k] = a] \in Seq(AttemptRow)
      BY <1>a, ReplaceAttempt
    <2>3. HistoryStep(node[n], attempts[n], [attempts[n] EXCEPT ![k] = a])
      BY <2>1, <1>b DEF HistoryStep
    <2> QED
      BY <2>2, <2>3, <1>b, Zenon
  <1> HIDE DEF Shape
  <1>1. ASSUME UNCHANGED vars \/ Tick PROVE Shape
    BY <1>1 DEF vars, Tick, Shape
  <1>2. ASSUME NEW n \in Nodes, NEW effect \in EffectClasses, NEW safe \in BOOLEAN,
               Register(n, effect, safe)
        PROVE  Shape
    BY <1>2 DEF Register, Shape
  <1>3. ASSUME NEW n \in Nodes, NEW w \in Workers, NEW now \in databaseNow,
               ClaimReady(n, w, now)
        PROVE  Shape
    <2>1. HistoryStep(node[n], attempts[n], Append(attempts[n], PendingAttempt(node[n], w)))
      BY <1>3, <1>a DEF ClaimReady, HistoryStep, RowInv, Retriable
    <2>2. Append(attempts[n], PendingAttempt(node[n], w)) \in Seq(AttemptRow)
      BY <1>a, PendingAttemptType, AppendAttempt
    <2> QED
      BY <2>1, <2>2, <1>3, Zenon DEF ClaimReady, Shape
  <1>4. ASSUME NEW n \in Nodes, NEW w \in Workers, NEW now \in databaseNow,
               ClaimExpired(n, w, now)
        PROVE  Shape
    <2>1. PICK k \in Abandonable(n, node[n].attemptNumber, node[n].fence) :
             attempts' = [attempts EXCEPT ![n] = Append(abandonAttemptTx(n, k),
                                                        PendingAttempt(node[n], w))]
      BY <1>4, Zenon DEF ClaimExpired
    <2>2. k \in DOMAIN attempts[n] /\ k = Len(attempts[n]) /\ Live(attempts[n][k])
      BY <1>a, LastAttempt DEF Abandonable, RowInv, Live
    <2>3. HistoryStep(node[n], attempts[n],
                      Append(abandonAttemptTx(n, k), PendingAttempt(node[n], w)))
      BY <2>2 DEF HistoryStep, abandonAttemptTx
    <2>4. abandonAttemptTx(n, k) \in Seq(AttemptRow)
      BY <2>1, <1>4, <1>a, AbandonSettled, Zenon
         DEF ClaimExpired, Reclaimable, Abandonable, abandonAttemptTx
    <2>5. Append(abandonAttemptTx(n, k), PendingAttempt(node[n], w)) \in Seq(AttemptRow)
      BY <2>4, <1>a, PendingAttemptType, AppendAttempt
    <2> QED
      BY <2>1, <2>3, <2>5, Zenon DEF Shape
  <1>5. ASSUME NEW n \in Nodes, NEW lease \in Issued(n), NEW now \in databaseNow,
               Renew(n, lease, now)
        PROVE  Shape
    BY <1>5 DEF Renew, Shape
  <1>6. ASSUME NEW n \in Nodes, NEW lease \in Issued(n), NEW now \in databaseNow,
               StartAttempt(n, lease, now)
        PROVE  Shape
    <2>1. PICK k \in AttemptOf(n, lease) :
             attempts' = [attempts EXCEPT ![n][k].status = "RUNNING",
                                          ![n][k].started = TRUE]
      BY <1>6, Zenon DEF StartAttempt
    <2>2. /\ k \in DOMAIN attempts[n] /\ attempts[n][k].fence = node[n].fence
          /\ node[n].state = "RUNNING"
      BY <2>1, <1>6 DEF StartAttempt, leaseOwnsRow, AttemptOf
    <2> DEFINE a == [attempts[n][k] EXCEPT !.status = "RUNNING", !.started = TRUE]
    <2>3. attempts[n][k] \in AttemptRow
      BY <2>2, <1>a
    <2>4. a \in AttemptRow /\ a.owner = attempts[n][k].owner
      BY <2>3, Zenon DEF AttemptRow, AttemptStatuses
    <2>5. attempts' = [attempts EXCEPT ![n] = [attempts[n] EXCEPT ![k] = a]]
      BY <2>1, <2>2, <1>t, Zenon
    <2> HIDE DEF a
    <2> QED
      BY <2>2, <2>4, <2>5, <1>b, Zenon
  <1>7. ASSUME NEW n \in Nodes, NEW lease \in Issued(n), NEW now \in databaseNow,
               MarkEffectStarted(n, lease, now)
        PROVE  Shape
    <2>1. PICK k \in AttemptOf(n, lease) :
             attempts' = [attempts EXCEPT ![n][k].effectStarted = TRUE]
      BY <1>7, Zenon DEF MarkEffectStarted
    <2>2. /\ k \in DOMAIN attempts[n] /\ attempts[n][k].fence = node[n].fence
          /\ node[n].state = "RUNNING"
      BY <2>1, <1>7 DEF MarkEffectStarted, LeaseFilter, AttemptOf
    <2> DEFINE a == [attempts[n][k] EXCEPT !.effectStarted = TRUE]
    <2>3. attempts[n][k] \in AttemptRow
      BY <2>2, <1>a
    <2>4. a \in AttemptRow /\ a.owner = attempts[n][k].owner
      BY <2>3, Zenon DEF AttemptRow
    <2>5. attempts' = [attempts EXCEPT ![n] = [attempts[n] EXCEPT ![k] = a]]
      BY <2>1, <2>2, <1>t
    <2> HIDE DEF a
    <2> QED
      BY <2>2, <2>4, <2>5, <1>b, Zenon
  <1>8. ASSUME NEW n \in Nodes, NEW lease \in Issued(n), NEW now \in databaseNow,
               MarkEffectCommitted(n, lease, now)
        PROVE  Shape
    <2>1. PICK k \in AttemptOf(n, lease) :
             attempts' = [attempts EXCEPT ![n][k].effectCommitted = TRUE]
      BY <1>8, Zenon DEF MarkEffectCommitted
    <2>2. /\ k \in DOMAIN attempts[n] /\ attempts[n][k].fence = node[n].fence
          /\ node[n].state = "RUNNING"
      BY <2>1, <1>8 DEF MarkEffectCommitted, LeaseFilter, AttemptOf
    <2> DEFINE a == [attempts[n][k] EXCEPT !.effectCommitted = TRUE]
    <2>3. attempts[n][k] \in AttemptRow
      BY <2>2, <1>a
    <2>4. a \in AttemptRow /\ a.owner = attempts[n][k].owner
      BY <2>3, Zenon DEF AttemptRow
    <2>5. attempts' = [attempts EXCEPT ![n] = [attempts[n] EXCEPT ![k] = a]]
      BY <2>1, <2>2, <1>t
    <2> HIDE DEF a
    <2> QED
      BY <2>2, <2>4, <2>5, <1>b, Zenon
  <1>9. ASSUME NEW n \in Nodes, NEW lease \in Issued(n), NEW now \in databaseNow,
               ReleaseBeforeEffect(n, lease, now)
        PROVE  Shape
    <2>1. PICK k \in Abandonable(n, lease.attemptNumber, lease.fence) :
             attempts' = [attempts EXCEPT ![n] = abandonAttemptTx(n, k)]
      BY <1>9, Zenon DEF ReleaseBeforeEffect
    <2>2. /\ k \in DOMAIN attempts[n] /\ attempts[n][k].fence = node[n].fence
          /\ node[n].state = "RUNNING"
      BY <2>1, <1>9 DEF ReleaseBeforeEffect, LeaseFilter, Abandonable
    <2> DEFINE a == [attempts[n][k] EXCEPT !.status = "ABANDONED"]
    <2>3. attempts[n][k] \in AttemptRow
      BY <2>2, <1>a
    <2>4. a \in AttemptRow /\ a.owner = attempts[n][k].owner
      BY <2>3 DEF AttemptRow, AttemptStatuses
    <2>5. attempts' = [attempts EXCEPT ![n] = [attempts[n] EXCEPT ![k] = a]]
      BY <2>1 DEF abandonAttemptTx
    <2> HIDE DEF a
    <2> QED
      BY <2>2, <2>4, <2>5, <1>b, Zenon
  <1>10. ASSUME NEW n \in Nodes, NEW lease \in Issued(n), NEW now \in databaseNow,
                NEW terminal \in CompletionStates, Complete(n, lease, terminal, now)
         PROVE  Shape
    <2>1. PICK k \in AttemptOf(n, lease) :
             attempts' = [attempts EXCEPT ![n][k].status = terminal]
      BY <1>10, Zenon DEF Complete
    <2>2. /\ k \in DOMAIN attempts[n] /\ attempts[n][k].fence = node[n].fence
          /\ node[n].state = "RUNNING"
      BY <2>1, <1>10 DEF Complete, leaseOwnsRow, AttemptOf
    <2> DEFINE a == [attempts[n][k] EXCEPT !.status = terminal]
    <2>3. attempts[n][k] \in AttemptRow
      BY <2>2, <1>a
    <2>4. a \in AttemptRow /\ a.owner = attempts[n][k].owner
      BY <2>3 DEF AttemptRow, AttemptStatuses
    <2>5. attempts' = [attempts EXCEPT ![n] = [attempts[n] EXCEPT ![k] = a]]
      BY <2>1, <2>2, <1>t
    <2> HIDE DEF a
    <2> QED
      BY <2>2, <2>4, <2>5, <1>b, Zenon
  <1>11. ASSUME NEW n \in Nodes, RequeueFailed(n)
         PROVE  Shape
    BY <1>11 DEF RequeueFailed, Shape
  <1>12. Shape
    BY <1>1, <1>2, <1>3, <1>4, <1>5, <1>6, <1>7, <1>8, <1>9, <1>10, <1>11
       DEF Next, LeaseCall
  <1> QED
    BY <1>12 DEF Shape

\* The history of closed and superseded attempts is immutable: no worker with a
\* stale lease changes it.
THEOREM StaleWorkersAreInert == Spec => StaleWorkersInert
  <1>1. ASSUME NEW row \in NodeRow, NEW rows \in Seq(AttemptRow),
               NEW t \in Seq(AttemptRow), HistoryStep(row, rows, t)
        PROVE  FrozenHistory(rows, t)
    <2>1. ASSUME NEW w \in Workers, NEW s \in Seq(AttemptRow),
                 t = Append(s, PendingAttempt(row, w))
          PROVE  Len(t) = Len(s) + 1 /\ \A k \in DOMAIN s : t[k] = s[k]
      BY <2>1, PendingAttemptType, AppendAttempt
    <2>2. CASE \E w \in Workers : t = Append(rows, PendingAttempt(row, w))
      BY <2>1, <2>2 DEF FrozenHistory
    <2>3. ASSUME NEW a \in AttemptRow, Len(rows) \in DOMAIN rows,
                 t = [rows EXCEPT ![Len(rows)] = a], Live(rows[Len(rows)])
          PROVE  FrozenHistory(rows, t)
      BY <2>3, ReplaceAttempt DEF FrozenHistory
    <2>4. ASSUME NEW w \in Workers, Len(rows) \in DOMAIN rows, Live(rows[Len(rows)]),
                 t = Append([rows EXCEPT ![Len(rows)].status = "ABANDONED"],
                            PendingAttempt(row, w))
          PROVE  FrozenHistory(rows, t)
      <3> DEFINE a == [rows[Len(rows)] EXCEPT !.status = "ABANDONED"]
                 s == [rows EXCEPT ![Len(rows)] = a]
      <3>1. rows[Len(rows)] \in AttemptRow
        BY <2>4
      <3>2. a \in AttemptRow
        BY <3>1, Zenon DEF AttemptRow, AttemptStatuses
      <3>3. /\ s \in Seq(AttemptRow) /\ Len(s) = Len(rows) /\ DOMAIN s = DOMAIN rows
            /\ \A j \in DOMAIN rows : j # Len(rows) => s[j] = rows[j]
        BY <3>2, <2>4, ReplaceAttempt
      <3>4. t = Append(s, PendingAttempt(row, w))
        BY <2>4
      <3> HIDE DEF s
      <3>5. Len(t) = Len(s) + 1 /\ \A k \in DOMAIN s : t[k] = s[k]
        BY <3>3, <3>4, <2>1
      <3> QED
        BY <3>3, <3>5, <2>4 DEF FrozenHistory
    <2> QED
      BY <1>1, <2>2, <2>3, <2>4 DEF HistoryStep
  <1>2. ASSUME IInv, [Next]_vars
        PROVE  \A n \in Nodes : FrozenHistory(attempts[n], attempts'[n])
    <2> SUFFICES ASSUME NEW n \in Nodes
                 PROVE  FrozenHistory(attempts[n], attempts'[n])
      OBVIOUS
    <2>1. node[n] \in NodeRow /\ attempts \in [Nodes -> Seq(AttemptRow)]
      BY <1>2 DEF IInv, TypeOK
    <2>2. CASE attempts'[n] = attempts[n]
      BY <2>1, <2>2 DEF FrozenHistory
    <2>3. CASE attempts'[n] # attempts[n]
      <3>1. PICK m \in Nodes : \E t \in Seq(AttemptRow) :
               /\ attempts' = [attempts EXCEPT ![m] = t]
               /\ HistoryStep(node[m], attempts[m], t)
        BY <1>2, <2>3, StepShape
      <3>2. m = n
        BY <3>1, <2>1, <2>3
      <3> QED
        BY <3>1, <3>2, <2>1, <1>1
    <2> QED
      BY <2>2, <2>3
  <1> QED
    BY <1>2, Invariance, PTL DEF Spec, StaleWorkersInert

\* A node is taken from a holder only after that holder's lease expired on the
\* database clock.
THEOREM TakeoverOnlyAfterExpiry == Spec => NoEarlyTakeover
  <1>1. ASSUME IInv, [Next]_vars
        PROVE  \A n \in Nodes : TakeoverAfterExpiry(node[n], node'[n], clock)
    <2> SUFFICES ASSUME NEW m \in Nodes
                 PROVE  TakeoverAfterExpiry(node[m], node'[m], clock)
      OBVIOUS
    <2>t. node \in [Nodes -> NodeRow] /\ clock \in Nat /\ RowInv(node[m], attempts[m])
      BY <1>1 DEF IInv, TypeOK
    <2>a. ASSUME node'[m].fence = node[m].fence
          PROVE  TakeoverAfterExpiry(node[m], node'[m], clock)
      BY <2>a DEF TakeoverAfterExpiry
    <2>b. ASSUME NEW n \in Nodes, NEW r \in NodeRow, r.fence = node[n].fence,
                 node' = [node EXCEPT ![n] = r]
          PROVE  node'[m].fence = node[m].fence
      BY <2>b, <2>t
    <2>1. CASE node' = node
      BY <2>1, <2>a
    <2>2. ASSUME NEW n \in Nodes, NEW effect \in EffectClasses, NEW safe \in BOOLEAN,
                 Register(n, effect, safe)
          PROVE  node'[m].fence = node[m].fence
      BY <2>2, <2>t DEF Register, NodeRow
    <2>3. ASSUME NEW n \in Nodes, NEW w \in Workers, NEW now \in databaseNow,
                 ClaimReady(n, w, now)
          PROVE  TakeoverAfterExpiry(node[m], node'[m], clock)
      <3>1. CASE m = n
        BY <2>3, <3>1 DEF ClaimReady, TakeoverAfterExpiry
      <3>2. CASE m # n
        BY <2>3, <3>2, <2>t, <2>a DEF ClaimReady
      <3> QED
        BY <3>1, <3>2
    <2>4. ASSUME NEW n \in Nodes, NEW w \in Workers, NEW now \in databaseNow,
                 ClaimExpired(n, w, now)
          PROVE  TakeoverAfterExpiry(node[m], node'[m], clock)
      <3>1. CASE m = n
        <4>1. now \in Nat /\ now <= clock
          BY DEF databaseNow
        <4>2. node[m] \in NodeRow /\ node[m].expiresAt \in Nat
          BY <2>t DEF NodeRow
        <4>3. node'[m] = ClaimedRow(node[m], w, now)
          BY <2>4, <3>1, <2>t DEF ClaimExpired
        <4>4. node'[m].fence = node[m].fence + 1
          BY <4>2, <4>3 DEF ClaimedRow, NodeRow
        <4>5. ~(now < node[m].expiresAt)
          BY <2>4, <3>1, <2>t DEF ClaimExpired, Reclaimable, RowInv, LeaseColumns
        <4> QED
          BY <4>1, <4>2, <4>4, <4>5, <2>t DEF TakeoverAfterExpiry
      <3>2. CASE m # n
        BY <2>4, <3>2, <2>t, <2>a DEF ClaimExpired
      <3> QED
        BY <3>1, <3>2
    <2>5. ASSUME NEW n \in Nodes, NEW lease \in Issued(n), NEW now \in databaseNow,
                 LeaseCall(n, lease, now)
          PROVE  node'[m].fence = node[m].fence
      <3>1. CASE Renew(n, lease, now)
        BY <3>1, <2>t DEF Renew, NodeRow
      <3>2. CASE StartAttempt(n, lease, now)
        BY <3>2 DEF StartAttempt
      <3>3. CASE MarkEffectStarted(n, lease, now)
        BY <3>3, <2>t DEF MarkEffectStarted, NodeRow
      <3>4. CASE MarkEffectCommitted(n, lease, now)
        BY <3>4, <2>t DEF MarkEffectCommitted, NodeRow
      <3>5. CASE ReleaseBeforeEffect(n, lease, now)
        BY <3>5, <2>t, <2>b, UnleasedRow DEF ReleaseBeforeEffect, NodeStates
      <3>6. CASE \E terminal \in CompletionStates : Complete(n, lease, terminal, now)
        BY <3>6, <2>t, <2>b, UnleasedRow DEF Complete, NodeStates, CompletionStates
      <3> QED
        BY <2>5, <3>1, <3>2, <3>3, <3>4, <3>5, <3>6 DEF LeaseCall
    <2>6. ASSUME NEW n \in Nodes, RequeueFailed(n)
          PROVE  node'[m].fence = node[m].fence
      BY <2>6, <2>t, <2>b, UnleasedRow DEF RequeueFailed, NodeStates
    <2> QED
      BY <1>1, <2>1, <2>2, <2>3, <2>4, <2>5, <2>6, <2>a DEF Next, Tick, vars
  <1> QED
    BY <1>1, Invariance, PTL DEF Spec, NoEarlyTakeover

-----------------------------------------------------------------------------
\* The refinement of ExecutionAuthority.

\* The grants read off a history are a sequence of the same length.
LEMMA GrantsOfSeq ==
    ASSUME NEW rows \in Seq(AttemptRow)
    PROVE  /\ Len(GrantsOf(rows)) = Len(rows)
           /\ DOMAIN GrantsOf(rows) = 1..Len(rows)
           /\ \A k \in 1..Len(rows) : GrantsOf(rows)[k] = GrantOf(rows[k])
  BY DEF GrantsOf

\* Reading off grants commutes with adding an attempt and with replacing one.
LEMMA GrantsOfAppend ==
    ASSUME NEW rows \in Seq(AttemptRow), NEW a \in AttemptRow
    PROVE  GrantsOf(Append(rows, a)) = Append(GrantsOf(rows), GrantOf(a))
  BY DEF GrantsOf

LEMMA GrantsOfReplace ==
    ASSUME NEW rows \in Seq(AttemptRow), NEW k \in DOMAIN rows, NEW a \in AttemptRow
    PROVE  GrantsOf([rows EXCEPT ![k] = a]) = [GrantsOf(rows) EXCEPT ![k] = GrantOf(a)]
  BY Zenon DEF GrantsOf

\* Every transaction of the repository is a step of the abstract authority or
\* changes no grant.
THEOREM RefinesAuthority == Spec => ImplementsAuthority
  <1> DEFINE G == [n \in Nodes |-> GrantsOf(attempts[n])]
  <1>1. Init => Authority!Init
    <2>1. GrantsOf(<<>>) = <<>>
      BY DEF GrantsOf
    <2> QED
      BY <2>1 DEF Init, Authority!Init
  <1>2. ASSUME IInv, [Next]_vars
        PROVE  [Authority!Next]_G
    <2>t. attempts \in [Nodes -> Seq(AttemptRow)] /\ node \in [Nodes -> NodeRow]
      BY <1>2 DEF IInv, TypeOK
    <2>1. CASE attempts' = attempts
      BY <2>1
    <2>2. ASSUME NEW n \in Nodes, NEW t \in Seq(AttemptRow),
                 attempts' = [attempts EXCEPT ![n] = t],
                 HistoryStep(node[n], attempts[n], t)
          PROVE  [Authority!Next]_G
      <3> DEFINE rows == attempts[n]
                 g == GrantsOf(rows)
      <3>t. rows \in Seq(AttemptRow) /\ node[n] \in NodeRow /\ Len(rows) \in Nat
        BY <2>t
      <3>1. G' = [G EXCEPT ![n] = GrantsOf(t)] /\ G[n] = g
        BY <2>2, <2>t, Zenon
      <3>2. /\ Len(g) = Len(rows) /\ DOMAIN g = 1..Len(rows)
            /\ \A k \in 1..Len(rows) : g[k] = GrantOf(rows[k])
        BY <3>t, GrantsOfSeq
      <3>3. \A w \in Workers :
               /\ PendingAttempt(node[n], w) \in AttemptRow
               /\ GrantOf(PendingAttempt(node[n], w)) = Authority!OpenGrant(w)
        BY <3>t, PendingAttemptType DEF PendingAttempt, GrantOf, Live, Authority!OpenGrant
      <3>4. ASSUME Len(rows) \in DOMAIN rows, Live(rows[Len(rows)])
            PROVE  /\ Len(G[n]) > 0 /\ Authority!LastOutcome(n) = "OPEN"
                   /\ rows[Len(rows)] \in AttemptRow
                   /\ g[Len(rows)] = GrantOf(rows[Len(rows)])
        <4>1. Len(rows) \in 1..Len(rows) /\ rows[Len(rows)] \in AttemptRow
          BY <3>4, <3>t
        <4>2. g[Len(rows)] = GrantOf(rows[Len(rows)])
          BY <4>1, <3>2
        <4>3. g[Len(rows)].outcome = "OPEN"
          BY <4>2, <3>4 DEF GrantOf
        <4> QED
          BY <4>1, <4>2, <4>3, <3>1, <3>2 DEF Authority!LastOutcome
      <3>5. ASSUME NEW w \in Workers, t = Append(rows, PendingAttempt(node[n], w)),
                   \A k \in DOMAIN rows : rows[k].status \in {"ABANDONED", "FAILED"}
            PROVE  Authority!Next
        <4>1. GrantsOf(t) = Append(g, Authority!OpenGrant(w))
          BY <3>5, <3>3, <3>t, GrantsOfAppend
        <4>2. ASSUME Len(g) > 0
              PROVE  g[Len(g)].outcome \in {"ABANDONED", "FAILED"}
          <5>1. Len(rows) \in 1..Len(rows) /\ Len(rows) \in DOMAIN rows
            BY <4>2, <3>t, <3>2
          <5>2. rows[Len(rows)].status \in {"ABANDONED", "FAILED"}
            BY <5>1, <3>5
          <5>3. GrantOf(rows[Len(rows)]).outcome = rows[Len(rows)].status
            BY <5>2 DEF GrantOf, Live
          <5> QED
            BY <5>1, <5>2, <5>3, <3>2
        <4>3. Authority!Grant(n, w)
          BY <4>1, <4>2, <3>1 DEF Authority!Grant, Authority!LastOutcome
        <4> QED
          BY <4>3 DEF Authority!Next
      <3>6. ASSUME NEW a \in AttemptRow, Len(rows) \in DOMAIN rows,
                   Live(rows[Len(rows)]), a.owner = rows[Len(rows)].owner,
                   t = [rows EXCEPT ![Len(rows)] = a]
            PROVE  [Authority!Next]_G
        <4>1. GrantsOf(t) = [g EXCEPT ![Len(rows)] = GrantOf(a)]
          BY <3>6, <3>t, GrantsOfReplace
        <4>2. CASE Live(a)
          <5>1. GrantOf(a) = g[Len(rows)]
            BY <4>2, <3>4, <3>6 DEF GrantOf
          <5>2. GrantsOf(t) = g
            BY <4>1, <5>1 DEF GrantsOf
          <5> QED
            BY <5>2, <3>1, Zenon
        <4>3. CASE ~Live(a)
          <5>1. a.status \in Authority!Outcomes
            BY <4>3 DEF Live, AttemptRow, AttemptStatuses, CompletionStates,
                        Authority!Outcomes
          <5>2. GrantOf(a) = [g[Len(rows)] EXCEPT !.outcome = a.status]
            <6>1. g[Len(rows)] = [owner |-> a.owner, outcome |-> "OPEN"]
              BY <3>4, <3>6 DEF GrantOf
            <6>2. GrantOf(a) = [owner |-> a.owner, outcome |-> a.status]
              BY <4>3 DEF GrantOf
            <6> HIDE DEF g
            <6> QED
              BY <6>1, <6>2
          <5>3. GrantsOf(t) = [g EXCEPT ![Len(g)].outcome = a.status]
            BY <4>1, <5>2, <3>2
          <5>4. Authority!Close(n, a.status)
            BY <5>3, <3>1, <3>4, <3>6 DEF Authority!Close
          <5> QED
            BY <5>1, <5>4 DEF Authority!Next
        <4> QED
          BY <4>2, <4>3
      <3>7. ASSUME NEW w \in Workers, Len(rows) \in DOMAIN rows, Live(rows[Len(rows)]),
                   t = Append([rows EXCEPT ![Len(rows)].status = "ABANDONED"],
                              PendingAttempt(node[n], w))
            PROVE  Authority!Next
        <4> DEFINE a == [rows[Len(rows)] EXCEPT !.status = "ABANDONED"]
                   s == [rows EXCEPT ![Len(rows)] = a]
        <4>1. a \in AttemptRow /\ a.owner = rows[Len(rows)].owner /\ a.status = "ABANDONED"
          BY <3>4, <3>7 DEF AttemptRow, AttemptStatuses
        <4>2. t = Append(s, PendingAttempt(node[n], w))
          BY <3>7
        <4>3. g[Len(rows)] = [owner |-> a.owner, outcome |-> "OPEN"]
          BY <4>1, <3>4, <3>7 DEF GrantOf
        <4>4. GrantOf(a) = [owner |-> a.owner, outcome |-> "ABANDONED"]
          BY <4>1 DEF GrantOf, Live
        <4> HIDE DEF a, g
        <4>5. s \in Seq(AttemptRow) /\ GrantsOf(s) = [g EXCEPT ![Len(rows)] = GrantOf(a)]
          <5>1. s \in Seq(AttemptRow)
            BY <4>1, <3>7, <3>t, ReplaceAttempt
          <5>2. GrantsOf(s) = [g EXCEPT ![Len(rows)] = GrantOf(a)]
            BY <4>1, <3>7, <3>t, GrantsOfReplace DEF g
          <5> QED
            BY <5>1, <5>2
        <4>6. GrantOf(a) = [g[Len(rows)] EXCEPT !.outcome = "ABANDONED"]
          BY <4>3, <4>4
        <4>7. GrantsOf(s) = [g EXCEPT ![Len(g)].outcome = "ABANDONED"]
          BY <4>5, <4>6, <3>2
        <4> HIDE DEF s
        <4>8. GrantsOf(t) = Append([g EXCEPT ![Len(g)].outcome = "ABANDONED"],
                                   Authority!OpenGrant(w))
          BY <4>2, <4>5, <4>7, <3>3, GrantsOfAppend, Zenon
        <4>9. Authority!Supersede(n, w)
          BY <4>8, <3>1, <3>4, <3>7 DEF Authority!Supersede, g
        <4> QED
          BY <4>9 DEF Authority!Next
      <3> QED
        BY <2>2, <3>5, <3>6, <3>7 DEF HistoryStep
    <2> QED
      BY <1>2, <2>1, <2>2, StepShape
  <1> QED
    BY <1>1, <1>2, Invariance, PTL DEF Spec, ImplementsAuthority, Authority!Spec
=============================================================================
