------------------------- MODULE ExecutionWorkerSteps -------------------------
(***************************************************************************)
(* The invariant of the Execute activity, for any nodes, runs, workers,      *)
(* effect specifications, limits and bounds, and that it is kept by every    *)
(* step of a run that leaves the ledger alone.  The lease rows keep the      *)
(* invariant proved in NodeLeaseProofs, because every lease call of a run is *)
(* a step of NodeLease; what is added here is a predicate RunOK of one run,  *)
(* which ties its program counter to the attempt and the reservation it      *)
(* holds.  ExecutionWorkerProofs has the rest of the steps and the theorems. *)
(***************************************************************************)
EXTENDS ExecutionWorker, TLAPS

LP == INSTANCE NodeLeaseProofs

-----------------------------------------------------------------------------
\* The calls of a run by what the run has done before them: it holds no lease,
\* it holds one, its attempt was started, its target was called.
Unclaimed == {"idle", "runtime", "register", "retry", "requeue", "requeued", "claim"}

Started == {"markStarted", "settleUncalled", "invoke", "settle", "markCommitted",
            "complete", "fail", "verify"}

Holding == {"reserve", "start", "unreserve", "release"} \cup Started

Answered == {"settle", "markCommitted", "complete", "verify"}

\* Where a run that has called its target can be.
AfterCall == Answered \cup {"fail", "failed", "succeeded", "crashed"}

Pcs == Unclaimed \cup Holding \cup Ended

Results == [error : Errors, disposition : Dispositions]

ReservationIds == Nodes \X (1..MaxAttempts)

ReservationRows ==
    [status : {"NONE", "OPEN", "SETTLED", "RELEASED"},
     estimate : [Dimensions -> Nat], actual : [Dimensions -> Nat]]

Attempt(r) == attempts[at[r]][held[r]]

CallOf(r) == [node |-> at[r], attempt |-> held[r], run |-> r,
              error |-> result[r].error, disposition |-> result[r].disposition]

HasCalled(r) == CallOf(r) \in calls

RunTypeOK ==
    /\ plan \in [Nodes -> EffectSpecs]
    /\ pc \in [Runs -> Pcs]
    /\ at \in [Runs -> Nodes]
    /\ held \in [Runs -> Nat]
    /\ result \in [Runs -> Results]
    /\ calls \subseteq {CallOf(r) : r \in Runs}
    /\ reserved \in [Dimensions -> Int]
    /\ consumed \in [Dimensions -> Int]
    /\ reservations \in [ReservationIds -> ReservationRows]

-----------------------------------------------------------------------------
\* The answer that lets a run complete its node as SUCCEEDED.
Succeeding(r) ==
    /\ result[r].error = "none"
    /\ Mutation(at[r]) => result[r].disposition = "COMMITTED"

\* The lease a run holds names an attempt of its node.
HoldsOK(r) ==
    /\ pc[r] \in Unclaimed => held[r] = 0
    /\ pc[r] \in Holding => held[r] # 0
    /\ held[r] # 0 => held[r] \in DOMAIN attempts[at[r]] /\ held[r] <= MaxAttempts

\* What is recorded of the attempt by the time its target is, or was, called.
RecordedOK(r) ==
    /\ (pc[r] \in Started \/ HasCalled(r)) =>
          /\ Attempt(r).started
          /\ ~plan[at[r]].retrySafe => Attempt(r).status # "ABANDONED"
    /\ (pc[r] = "invoke" \/ HasCalled(r)) =>
          (Mutation(at[r]) => Attempt(r).effectStarted)

\* A run calls its target once, and acts on the answer it got.
CallOK(r) ==
    /\ pc[r] \in Answered => HasCalled(r)
    /\ HasCalled(r) => pc[r] \in AfterCall /\ held[r] # 0
    /\ pc[r] = "markCommitted" => Mutation(at[r]) /\ result[r].disposition = "COMMITTED"
    /\ pc[r] = "complete" => Succeeding(r)

\* The reservation is open until the run closes it, and given back only uncalled.
ReservationOK(r) ==
    /\ pc[r] \in Reserving => reservations[ReservationOf(r)].status = "OPEN"
    /\ HasCalled(r) => reservations[ReservationOf(r)].status \in {"OPEN", "SETTLED"}

RunOK(r) ==
    /\ HoldsOK(r) /\ RecordedOK(r) /\ CallOK(r) /\ ReservationOK(r)
    /\ pc[r] = "succeeded" => node[at[r]].state = "SUCCEEDED"

RunsInv == \A r \in Runs : RunOK(r)

\* No two runs were answered the same lease.
OneHolder ==
    \A r \in Runs : \A q \in Runs :
        (held[r] # 0 /\ held[q] = held[r] /\ at[q] = at[r]) => q = r

NodeOK(n) ==
    /\ node[n].state # "ABSENT" =>
          node[n].effect = plan[n].effect /\ node[n].retrySafe = plan[n].retrySafe
    /\ node[n].state = "SUCCEEDED" =>
          \E r \in Runs : /\ at[r] = n /\ HasCalled(r) /\ Succeeding(r)
                          /\ held[r] = Len(attempts[n])

NodesInv == \A n \in Nodes : NodeOK(n)

-----------------------------------------------------------------------------
\* The reservations that count against the limit.
Counted == {id \in ReservationIds : reservations[id].status \in {"OPEN", "SETTLED"}}

LedgerInv ==
    /\ IsFiniteSet(Counted)
    /\ reserved["NodeAttempts"] + consumed["NodeAttempts"] = Cardinality(Counted)
    /\ Limit["NodeAttempts"] > 0 =>
          reserved["NodeAttempts"] + consumed["NodeAttempts"] <= Limit["NodeAttempts"]
    /\ \A id \in ReservationIds :
          reservations[id].status = "OPEN" =>
              /\ reservations[id].estimate = Estimate
              /\ \E r \in Runs : /\ ReservationOf(r) = id
                                 /\ pc[r] \in Reserving \cup {"crashed"}

Inv == LP!IInv /\ RunTypeOK /\ RunsInv /\ OneHolder /\ NodesInv /\ LedgerInv

-----------------------------------------------------------------------------
\* The lease rows.  Every lease call of a run is a step of NodeLease.

LEMMA LeaseAssumptions == LP!LeaseConstants
  BY WorkerConstants DEF LP!LeaseConstants

LEMMA LeaseInit == Lease!Init => LP!IInv
  <1>1. Lease!Init => LP!Init
    BY DEF Lease!Init, LP!Init
  <1> QED
    BY <1>1, LP!InitIInv, LeaseAssumptions

LEMMA LeaseStep == ASSUME LP!IInv, LP!Next PROVE LP!IInv'
  BY LP!NextIInv, LeaseAssumptions

LEMMA LeaseStutter == ASSUME LP!IInv, UNCHANGED leaseVars PROVE LP!IInv'
  <1>1. UNCHANGED LP!vars
    BY DEF leaseVars, LP!vars
  <1> QED
    BY <1>1, LP!NextIInv, LeaseAssumptions

\* What the invariant of the lease rows says of one node.
LEMMA LeaseRows ==
    ASSUME LP!IInv, NEW n \in Nodes
    PROVE  /\ node \in [Nodes -> LP!NodeRow] /\ node[n] \in LP!NodeRow
           /\ attempts \in [Nodes -> Seq(LP!AttemptRow)]
           /\ attempts[n] \in Seq(LP!AttemptRow)
           /\ node[n].fence = Len(attempts[n])
           /\ \A k \in DOMAIN attempts[n] :
                 /\ attempts[n][k] \in LP!AttemptRow
                 /\ attempts[n][k].number = k /\ attempts[n][k].fence = k
           /\ \A k \in DOMAIN attempts[n] :
                 (~node[n].retrySafe /\ k < Len(attempts[n])) =>
                     attempts[n][k].status = "ABANDONED"
           /\ node[n].state = "SUCCEEDED" => Len(attempts[n]) > 0
  <1>1. /\ node \in [Nodes -> LP!NodeRow] /\ attempts \in [Nodes -> Seq(LP!AttemptRow)]
        /\ LP!RowInv(node[n], attempts[n])
    BY DEF LP!IInv, LP!TypeOK
  <1>2. /\ LP!Numbered(node[n], attempts[n]) /\ LP!NotRepeated(node[n], attempts[n])
        /\ LP!OutcomeOfLast(node[n], attempts[n])
    BY <1>1, Zenon DEF LP!RowInv
  <1> QED
    BY <1>1, <1>2 DEF LP!Numbered, LP!NotRepeated, LP!OutcomeOfLast, LP!CompletionStates

-----------------------------------------------------------------------------
\* What no lease call of a run undoes, on the rows of one node.
RowsKept(n) ==
    /\ DOMAIN attempts[n] \subseteq DOMAIN attempts'[n]
    /\ \A k \in DOMAIN attempts[n] :
          /\ attempts[n][k].started => attempts'[n][k].started
          /\ attempts[n][k].effectStarted => attempts'[n][k].effectStarted
    /\ node[n].state = "SUCCEEDED" =>
          node'[n].state = "SUCCEEDED" /\ Len(attempts'[n]) = Len(attempts[n])
    /\ node'[n].state # "ABSENT" =>
          node'[n].effect = plan[n].effect /\ node'[n].retrySafe = plan[n].retrySafe

\* Attempt k of n is not abandoned, unless the node is retry-safe.
Spared(n, k) ==
    (~plan[n].retrySafe /\ attempts[n][k].status # "ABANDONED") =>
        attempts'[n][k].status # "ABANDONED"

AllSpared(n) == \A k \in DOMAIN attempts[n] : Spared(n, k)

NotSucceeded(n) == node'[n].state = "SUCCEEDED" => node[n].state = "SUCCEEDED"

\* A call that changes neither the runs' view of the attempts nor the success.
Moves == \A n \in Nodes : RowsKept(n) /\ AllSpared(n) /\ NotSucceeded(n)

LEMMA StillMoves ==
    ASSUME LP!IInv, NodesInv, node' = node, attempts' = attempts
    PROVE  Moves
  BY DEF Moves, RowsKept, AllSpared, Spared, NotSucceeded, NodesInv, NodeOK

\* What a call that writes attempt k and the row of n leaves alone.
WritesOnly(n, k) ==
    /\ DOMAIN attempts'[n] = DOMAIN attempts[n]
    /\ \A m \in Nodes : RowsKept(m)
    /\ \A m \in Nodes : \A j \in DOMAIN attempts[m] : <<m, j>> # <<n, k>> => Spared(m, j)
    /\ \A m \in Nodes : m # n => NotSucceeded(m)

\* A call that writes attempt k and the row of a RUNNING node.
LEMMA OneAttempt ==
    ASSUME LP!IInv, NodesInv, NEW n \in Nodes, NEW k \in DOMAIN attempts[n],
           NEW a \in LP!AttemptRow, NEW row \in LP!NodeRow,
           node[n].state = "RUNNING",
           row.effect = node[n].effect, row.retrySafe = node[n].retrySafe,
           attempts[n][k].started => a.started,
           attempts[n][k].effectStarted => a.effectStarted,
           node' = [node EXCEPT ![n] = row],
           attempts' = [attempts EXCEPT ![n] = [attempts[n] EXCEPT ![k] = a]]
    PROVE  node'[n] = row /\ attempts'[n][k] = a /\ WritesOnly(n, k)
  <1>1. /\ node \in [Nodes -> LP!NodeRow] /\ attempts \in [Nodes -> Seq(LP!AttemptRow)]
        /\ attempts[n] \in Seq(LP!AttemptRow)
    BY LeaseRows
  <1>2. node'[n] = row /\ attempts'[n] = [attempts[n] EXCEPT ![k] = a]
    BY <1>1
  <1>3. /\ attempts'[n][k] = a /\ DOMAIN attempts'[n] = DOMAIN attempts[n]
        /\ \A j \in DOMAIN attempts[n] : j # k => attempts'[n][j] = attempts[n][j]
    BY <1>1, <1>2
  <1>4. \A m \in Nodes : m # n => node'[m] = node[m] /\ attempts'[m] = attempts[m]
    BY <1>1
  <1>5. RowsKept(n)
    BY <1>1, <1>2, <1>3 DEF RowsKept, NodesInv, NodeOK
  <1>6. \A m \in Nodes : m # n => RowsKept(m) /\ NotSucceeded(m)
    BY <1>4 DEF RowsKept, NodesInv, NodeOK, NotSucceeded
  <1>7. ASSUME NEW m \in Nodes, NEW j \in DOMAIN attempts[m], <<m, j>> # <<n, k>>
        PROVE  Spared(m, j)
    <2>1. attempts'[m][j] = attempts[m][j]
      BY <1>3, <1>4, <1>7
    <2> QED
      BY <2>1 DEF Spared
  <1> QED
    BY <1>2, <1>3, <1>5, <1>6, <1>7 DEF WritesOnly

\* A call that writes only the row of n, which was not SUCCEEDED and is not now.
LEMMA OneRow ==
    ASSUME LP!IInv, NodesInv, NEW n \in Nodes, NEW row,
           node[n].state # "SUCCEEDED", row.state # "SUCCEEDED",
           row.effect = plan[n].effect, row.retrySafe = plan[n].retrySafe,
           node' = [node EXCEPT ![n] = row], attempts' = attempts
    PROVE  Moves
  <1>1. node'[n] = row /\ \A m \in Nodes : m # n => node'[m] = node[m]
    BY LeaseRows
  <1> QED
    BY <1>1 DEF Moves, RowsKept, AllSpared, Spared, NotSucceeded, NodesInv, NodeOK

\* A claim adds an attempt; it may abandon one only of a retry-safe node.
LEMMA OneClaim ==
    ASSUME LP!IInv, NodesInv, NEW n \in Nodes, NEW row, NEW rows \in Seq(LP!AttemptRow),
           NEW a \in LP!AttemptRow,
           node[n].state \in {"READY", "RUNNING"}, row.state = "RUNNING",
           row.effect = node[n].effect, row.retrySafe = node[n].retrySafe,
           Len(rows) = Len(attempts[n]),
           \A k \in DOMAIN attempts[n] :
              /\ attempts[n][k].started => rows[k].started
              /\ attempts[n][k].effectStarted => rows[k].effectStarted
              /\ ~node[n].retrySafe => rows[k] = attempts[n][k],
           node' = [node EXCEPT ![n] = row],
           attempts' = [attempts EXCEPT ![n] = Append(rows, a)]
    PROVE  Moves /\ Len(attempts'[n]) = Len(attempts[n]) + 1
  <1>1. /\ node \in [Nodes -> LP!NodeRow] /\ attempts \in [Nodes -> Seq(LP!AttemptRow)]
        /\ attempts[n] \in Seq(LP!AttemptRow)
    BY LeaseRows
  <1>2. node'[n] = row /\ attempts'[n] = Append(rows, a)
    BY <1>1
  <1>3. /\ Len(attempts'[n]) = Len(attempts[n]) + 1
        /\ DOMAIN attempts[n] \subseteq DOMAIN attempts'[n]
        /\ \A k \in DOMAIN attempts[n] : attempts'[n][k] = rows[k]
    BY <1>1, <1>2
  <1>4. \A m \in Nodes : m # n => node'[m] = node[m] /\ attempts'[m] = attempts[m]
    BY <1>1
  <1>5. node[n].effect = plan[n].effect /\ node[n].retrySafe = plan[n].retrySafe
    BY DEF NodesInv, NodeOK
  <1>6. RowsKept(n) /\ AllSpared(n) /\ NotSucceeded(n)
    BY <1>2, <1>3, <1>5 DEF RowsKept, AllSpared, Spared, NotSucceeded
  <1>7. \A m \in Nodes : m # n => RowsKept(m) /\ AllSpared(m) /\ NotSucceeded(m)
    BY <1>4 DEF RowsKept, AllSpared, Spared, NodesInv, NodeOK, NotSucceeded
  <1> QED
    BY <1>3, <1>6, <1>7 DEF Moves

-----------------------------------------------------------------------------
\* What each lease call of a run does to the rows.

LEMMA RegisterMoves ==
    ASSUME LP!IInv, RunTypeOK, NodesInv, NEW n \in Nodes,
           Lease!Register(n, plan[n].effect, plan[n].retrySafe)
    PROVE  LP!IInv' /\ Moves
  <1>1. plan[n].effect \in Lease!EffectClasses /\ plan[n].retrySafe \in BOOLEAN
    BY DEF RunTypeOK, EffectSpecs
  <1>2. LP!Next
    BY <1>1, Zenon DEF Lease!EffectClasses, LP!EffectClasses, Lease!Register, LP!Register,
                Lease!RetryContract, LP!RetryContract, LP!Next
  <1> DEFINE row == [node[n] EXCEPT !.state = "READY", !.effect = plan[n].effect,
                                    !.retrySafe = plan[n].retrySafe]
  <1>3. node[n] \in LP!NodeRow /\ node \in [Nodes -> LP!NodeRow]
    BY LeaseRows
  <1>4. /\ node[n].state # "SUCCEEDED" /\ row.state = "READY"
        /\ row.effect = plan[n].effect /\ row.retrySafe = plan[n].retrySafe
    BY <1>3 DEF Lease!Register, LP!NodeRow
  <1>5. node' = [node EXCEPT ![n] = row] /\ attempts' = attempts
    BY <1>3, Zenon DEF Lease!Register
  <1> HIDE DEF row
  <1>6. Moves
    BY <1>4, <1>5, OneRow, Zenon
  <1> QED
    BY <1>2, <1>6, LeaseStep

LEMMA RequeueMoves ==
    ASSUME LP!IInv, NodesInv, NEW n \in Nodes, Lease!RequeueFailed(n)
    PROVE  LP!IInv' /\ Moves
  <1>1. LP!Next
    BY Zenon DEF Lease!RequeueFailed, LP!RequeueFailed, Lease!Requeueable, LP!Requeueable,
           Lease!isMutation, LP!isMutation, Lease!Unleased, LP!Unleased, LP!Next
  <1> DEFINE row == Lease!Unleased(node[n], "READY")
  <1>2. node[n] \in LP!NodeRow
    BY LeaseRows
  <1>3. /\ row.state = "READY" /\ row.effect = node[n].effect
        /\ row.retrySafe = node[n].retrySafe
    BY <1>2 DEF Lease!Unleased, LP!NodeRow
  <1>4. node[n].state = "FAILED" /\ node' = [node EXCEPT ![n] = row] /\ attempts' = attempts
    BY DEF Lease!RequeueFailed, Lease!Requeueable
  <1>5. node[n].effect = plan[n].effect /\ node[n].retrySafe = plan[n].retrySafe
    BY <1>4 DEF NodesInv, NodeOK
  <1> HIDE DEF row
  <1>6. Moves
    BY <1>3, <1>4, <1>5, OneRow, Zenon
  <1> QED
    BY <1>1, <1>6, LeaseStep

LEMMA ClaimMoves ==
    ASSUME LP!IInv, NodesInv, NEW n \in Nodes, NEW w \in Workers,
           NEW now \in Lease!databaseNow,
           Lease!ClaimReady(n, w, now) \/ Lease!ClaimExpired(n, w, now)
    PROVE  /\ LP!IInv' /\ Moves
           /\ Len(attempts'[n]) = Len(attempts[n]) + 1 /\ Len(attempts[n]) < MaxAttempts
  <1>1. LP!Next
    <2>1. now \in LP!databaseNow
      BY DEF Lease!databaseNow, LP!databaseNow
    <2>2. LP!ClaimReady(n, w, now) \/ LP!ClaimExpired(n, w, now)
      BY <2>1, Zenon DEF Lease!ClaimReady, LP!ClaimReady, Lease!ClaimExpired, LP!ClaimExpired,
           Lease!ClaimedRow, LP!ClaimedRow, Lease!PendingAttempt, LP!PendingAttempt,
           Lease!Reclaimable, LP!Reclaimable, Lease!Abandonable, LP!Abandonable,
           Lease!Live, LP!Live, Lease!abandonAttemptTx, LP!abandonAttemptTx
    <2> QED
      BY <2>1, <2>2 DEF LP!Next
  <1> DEFINE row == Lease!ClaimedRow(node[n], w, now)
             a == Lease!PendingAttempt(node[n], w)
  <1>2. node[n] \in LP!NodeRow /\ attempts[n] \in Seq(LP!AttemptRow)
    BY LeaseRows
  <1>3. /\ row.state = "RUNNING" /\ row.effect = node[n].effect
        /\ row.retrySafe = node[n].retrySafe
    BY <1>2 DEF Lease!ClaimedRow, LP!NodeRow
  <1>4. a \in LP!AttemptRow
    BY <1>2 DEF Lease!PendingAttempt, LP!NodeRow, LP!AttemptRow, LP!AttemptStatuses
  <1>5. node' = [node EXCEPT ![n] = row] /\ Len(attempts[n]) < MaxAttempts
    BY DEF Lease!ClaimReady, Lease!ClaimExpired
  <1> HIDE DEF row
  <1>6. CASE Lease!ClaimReady(n, w, now)
    <2>1. node[n].state = "READY" /\ attempts' = [attempts EXCEPT ![n] = Append(attempts[n], a)]
      BY <1>6 DEF Lease!ClaimReady
    <2> HIDE DEF a
    <2>2. Moves /\ Len(attempts'[n]) = Len(attempts[n]) + 1
      BY <2>1, <1>2, <1>3, <1>4, <1>5, OneClaim, Zenon
    <2> QED
      BY <2>2, <1>1, <1>5, LeaseStep
  <1>7. CASE Lease!ClaimExpired(n, w, now)
    <2>1. PICK k \in Lease!Abandonable(n, node[n].attemptNumber, node[n].fence) :
             attempts' = [attempts EXCEPT ![n] = Append(Lease!abandonAttemptTx(n, k), a)]
      BY <1>7, Zenon DEF Lease!ClaimExpired
    <2>2. node[n].state = "RUNNING" /\ node[n].retrySafe
      BY <1>7 DEF Lease!ClaimExpired, Lease!Reclaimable
    <2> DEFINE rows == Lease!abandonAttemptTx(n, k)
               b == [attempts[n][k] EXCEPT !.status = "ABANDONED"]
    <2> HIDE DEF a
    <2>3. k \in DOMAIN attempts[n] /\ attempts[n][k] \in LP!AttemptRow
      BY <1>2 DEF Lease!Abandonable
    <2>4. /\ b \in LP!AttemptRow /\ b.started = attempts[n][k].started
          /\ b.effectStarted = attempts[n][k].effectStarted
      BY <2>3 DEF LP!AttemptRow, LP!AttemptStatuses
    <2>5. rows = [attempts[n] EXCEPT ![k] = b]
      BY <1>2 DEF Lease!abandonAttemptTx
    <2> HIDE DEF b
    <2>6. /\ rows \in Seq(LP!AttemptRow) /\ Len(rows) = Len(attempts[n])
          /\ rows[k] = b
          /\ \A j \in DOMAIN attempts[n] : j # k => rows[j] = attempts[n][j]
      BY <2>3, <2>4, <2>5, <1>2
    <2>7. attempts' = [attempts EXCEPT ![n] = Append(rows, a)]
      BY <2>1
    <2> HIDE DEF rows
    <2>8. \A j \in DOMAIN attempts[n] :
             /\ attempts[n][j].started => rows[j].started
             /\ attempts[n][j].effectStarted => rows[j].effectStarted
             /\ ~node[n].retrySafe => rows[j] = attempts[n][j]
      BY <2>2, <2>4, <2>6
    <2>9. Moves /\ Len(attempts'[n]) = Len(attempts[n]) + 1
      BY <2>2, <2>6, <2>7, <2>8, <1>3, <1>4, <1>5, OneClaim, Zenon
    <2> QED
      BY <2>9, <1>1, <1>5, LeaseStep
  <1> QED
    BY <1>6, <1>7

\* A call with the lease of attempt k is a step of NodeLease.
LEMMA HeldCall ==
    ASSUME LP!IInv, NEW n \in Nodes, NEW k \in DOMAIN attempts[n],
           NEW now \in Lease!databaseNow,
           LP!LeaseCall(n, Lease!LeaseOf(n, k), now)
    PROVE  LP!IInv'
  <1>1. now \in LP!databaseNow /\ Lease!LeaseOf(n, k) \in LP!Issued(n)
    BY DEF Lease!databaseNow, LP!databaseNow, Lease!LeaseOf, LP!LeaseOf, LP!Issued
  <1>2. LP!Next
    BY <1>1, Zenon DEF LP!Next
  <1> QED
    BY <1>2, LeaseStep

\* The attempt a held lease names is the one it was issued for.
LEMMA HeldAttempt ==
    ASSUME LP!IInv, NEW n \in Nodes, NEW k \in DOMAIN attempts[n]
    PROVE  /\ Lease!AttemptOf(n, Lease!LeaseOf(n, k)) = {k}
           /\ Lease!Abandonable(n, Lease!LeaseOf(n, k).attemptNumber,
                                Lease!LeaseOf(n, k).fence) \subseteq {k}
           /\ Lease!LeaseOf(n, k).fence = k
  <1>1. \A j \in DOMAIN attempts[n] : attempts[n][j].number = j /\ attempts[n][j].fence = j
    BY LeaseRows
  <1> QED
    BY <1>1 DEF Lease!AttemptOf, Lease!Abandonable, Lease!LeaseOf

LEMMA StartMoves ==
    ASSUME LP!IInv, NodesInv, NEW n \in Nodes, NEW k \in DOMAIN attempts[n],
           NEW now \in Lease!databaseNow,
           Lease!StartAttempt(n, Lease!LeaseOf(n, k), now)
    PROVE  /\ LP!IInv' /\ Moves
           /\ attempts'[n][k].started /\ attempts'[n][k].status = "RUNNING"
  <1> DEFINE lease == Lease!LeaseOf(n, k)
             a == [attempts[n][k] EXCEPT !.status = "RUNNING", !.started = TRUE]
  <1>1. LP!LeaseCall(n, lease, now)
    <2> HIDE DEF lease
    <2> QED
      BY Zenon DEF LP!LeaseCall, Lease!StartAttempt, LP!StartAttempt, Lease!HolderNow, LP!HolderNow,
           Lease!databaseNow, LP!databaseNow, Lease!leaseOwnsRow, LP!leaseOwnsRow,
           Lease!AttemptOf, LP!AttemptOf, lease
  <1>2. /\ attempts[n][k] \in LP!AttemptRow /\ node \in [Nodes -> LP!NodeRow]
        /\ node[n] \in LP!NodeRow /\ attempts \in [Nodes -> Seq(LP!AttemptRow)]
    BY LeaseRows
  <1>3. /\ a \in LP!AttemptRow /\ a.status = "RUNNING" /\ a.started
        /\ attempts[n][k].started => a.started
        /\ attempts[n][k].effectStarted => a.effectStarted
    BY <1>2, Zenon DEF LP!AttemptRow, LP!AttemptStatuses
  <1>4. /\ node[n].state = "RUNNING" /\ node' = [node EXCEPT ![n] = node[n]]
        /\ attempts' = [attempts EXCEPT ![n] = [attempts[n] EXCEPT ![k] = a]]
    <2>0. PICK j \in Lease!AttemptOf(n, Lease!LeaseOf(n, k)) :
             attempts' = [attempts EXCEPT ![n][j].status = "RUNNING",
                                              ![n][j].started = TRUE]
      BY Zenon DEF Lease!StartAttempt
    <2>1. j = k
      BY HeldAttempt
    <2>2. node[n].state = "RUNNING" /\ node' = [node EXCEPT ![n] = node[n]]
      BY <1>2 DEF Lease!StartAttempt, Lease!leaseOwnsRow
    <2>3. attempts' = [attempts EXCEPT ![n] = [attempts[n] EXCEPT ![k] = a]]
      BY <2>0, <2>1, <1>2, Zenon
    <2> QED
      BY <2>2, <2>3
  <1> HIDE DEF a, lease
  <1>5. node'[n] = node[n] /\ attempts'[n][k] = a /\ WritesOnly(n, k)
    BY <1>2, <1>3, <1>4, OneAttempt, Zenon
  <1>6. Spared(n, k) /\ NotSucceeded(n)
    BY <1>3, <1>4, <1>5 DEF Spared, NotSucceeded
  <1>7. Moves
    BY <1>5, <1>6 DEF Moves, AllSpared, WritesOnly
  <1> QED
    BY <1>1, <1>3, <1>5, <1>7, HeldCall DEF lease

LEMMA MarkStartedMoves ==
    ASSUME LP!IInv, NodesInv, NEW n \in Nodes, NEW k \in DOMAIN attempts[n],
           NEW now \in Lease!databaseNow,
           Lease!MarkEffectStarted(n, Lease!LeaseOf(n, k), now)
    PROVE  /\ LP!IInv' /\ Moves
           /\ attempts'[n][k].effectStarted
  <1> DEFINE lease == Lease!LeaseOf(n, k)
             a == [attempts[n][k] EXCEPT !.effectStarted = TRUE]
             row == [node[n] EXCEPT !.effectStarted = TRUE]
  <1>1. LP!LeaseCall(n, lease, now)
    <2> HIDE DEF lease
    <2> QED
      BY Zenon DEF LP!LeaseCall, Lease!MarkEffectStarted, LP!MarkEffectStarted, Lease!HolderNow,
           LP!HolderNow, Lease!databaseNow, LP!databaseNow, Lease!LeaseFilter, LP!LeaseFilter,
           Lease!AttemptOf, LP!AttemptOf, lease
  <1>2. /\ attempts[n][k] \in LP!AttemptRow /\ node \in [Nodes -> LP!NodeRow]
        /\ node[n] \in LP!NodeRow /\ attempts \in [Nodes -> Seq(LP!AttemptRow)]
    BY LeaseRows
  <1>3. /\ a \in LP!AttemptRow /\ row \in LP!NodeRow /\ a.effectStarted
        /\ attempts[n][k].started => a.started
        /\ attempts[n][k].effectStarted => a.effectStarted
        /\ a.status = attempts[n][k].status
        /\ row.state = node[n].state /\ row.effect = node[n].effect
        /\ row.retrySafe = node[n].retrySafe
    BY <1>2, Zenon DEF LP!AttemptRow, LP!NodeRow
  <1>4. /\ node[n].state = "RUNNING" /\ node' = [node EXCEPT ![n] = row]
        /\ attempts' = [attempts EXCEPT ![n] = [attempts[n] EXCEPT ![k] = a]]
    <2>0. PICK j \in Lease!AttemptOf(n, Lease!LeaseOf(n, k)) :
             attempts' = [attempts EXCEPT ![n][j].effectStarted = TRUE]
      BY Zenon DEF Lease!MarkEffectStarted
    <2>1. j = k
      BY HeldAttempt
    <2>2. node[n].state = "RUNNING" /\ node' = [node EXCEPT ![n] = row]
      BY <1>2 DEF Lease!MarkEffectStarted, Lease!LeaseFilter
    <2>3. attempts' = [attempts EXCEPT ![n] = [attempts[n] EXCEPT ![k] = a]]
      BY <2>0, <2>1, <1>2, Zenon
    <2> QED
      BY <2>2, <2>3
  <1> HIDE DEF a, row, lease
  <1>5. node'[n] = row /\ attempts'[n][k] = a /\ WritesOnly(n, k)
    BY <1>2, <1>3, <1>4, OneAttempt, Zenon
  <1>6. Spared(n, k) /\ NotSucceeded(n)
    BY <1>3, <1>4, <1>5 DEF Spared, NotSucceeded
  <1>7. Moves
    BY <1>5, <1>6 DEF Moves, AllSpared, WritesOnly
  <1> QED
    BY <1>1, <1>3, <1>5, <1>7, HeldCall DEF lease

LEMMA MarkCommittedMoves ==
    ASSUME LP!IInv, NodesInv, NEW n \in Nodes, NEW k \in DOMAIN attempts[n],
           NEW now \in Lease!databaseNow,
           Lease!MarkEffectCommitted(n, Lease!LeaseOf(n, k), now)
    PROVE  LP!IInv' /\ Moves
  <1> DEFINE lease == Lease!LeaseOf(n, k)
             a == [attempts[n][k] EXCEPT !.effectCommitted = TRUE]
             row == [node[n] EXCEPT !.effectCommitted = TRUE]
  <1>1. LP!LeaseCall(n, lease, now)
    <2> HIDE DEF lease
    <2> QED
      BY Zenon DEF LP!LeaseCall, Lease!MarkEffectCommitted, LP!MarkEffectCommitted, Lease!HolderNow,
           LP!HolderNow, Lease!databaseNow, LP!databaseNow, Lease!LeaseFilter, LP!LeaseFilter,
           Lease!AttemptOf, LP!AttemptOf, lease
  <1>2. /\ attempts[n][k] \in LP!AttemptRow /\ node \in [Nodes -> LP!NodeRow]
        /\ node[n] \in LP!NodeRow /\ attempts \in [Nodes -> Seq(LP!AttemptRow)]
    BY LeaseRows
  <1>3. /\ a \in LP!AttemptRow /\ row \in LP!NodeRow
        /\ attempts[n][k].started => a.started
        /\ attempts[n][k].effectStarted => a.effectStarted
        /\ a.status = attempts[n][k].status
        /\ row.state = node[n].state /\ row.effect = node[n].effect
        /\ row.retrySafe = node[n].retrySafe
    BY <1>2, Zenon DEF LP!AttemptRow, LP!NodeRow
  <1>4. /\ node[n].state = "RUNNING" /\ node' = [node EXCEPT ![n] = row]
        /\ attempts' = [attempts EXCEPT ![n] = [attempts[n] EXCEPT ![k] = a]]
    <2>0. PICK j \in Lease!AttemptOf(n, Lease!LeaseOf(n, k)) :
             attempts' = [attempts EXCEPT ![n][j].effectCommitted = TRUE]
      BY Zenon DEF Lease!MarkEffectCommitted
    <2>1. j = k
      BY HeldAttempt
    <2>2. node[n].state = "RUNNING" /\ node' = [node EXCEPT ![n] = row]
      BY <1>2 DEF Lease!MarkEffectCommitted, Lease!LeaseFilter
    <2>3. attempts' = [attempts EXCEPT ![n] = [attempts[n] EXCEPT ![k] = a]]
      BY <2>0, <2>1, <1>2, Zenon
    <2> QED
      BY <2>2, <2>3
  <1> HIDE DEF a, row, lease
  <1>5. node'[n] = row /\ attempts'[n][k] = a /\ WritesOnly(n, k)
    BY <1>2, <1>3, <1>4, OneAttempt, Zenon
  <1>6. Spared(n, k) /\ NotSucceeded(n)
    BY <1>3, <1>4, <1>5 DEF Spared, NotSucceeded
  <1>7. Moves
    BY <1>5, <1>6 DEF Moves, AllSpared, WritesOnly
  <1> QED
    BY <1>1, <1>7, HeldCall DEF lease

\* A release abandons the attempt of the lease it is called with, and no other.
LEMMA ReleaseMoves ==
    ASSUME LP!IInv, NodesInv, NEW n \in Nodes, NEW k \in DOMAIN attempts[n],
           NEW now \in Lease!databaseNow,
           Lease!ReleaseBeforeEffect(n, Lease!LeaseOf(n, k), now)
    PROVE  /\ LP!IInv' /\ WritesOnly(n, k) /\ NotSucceeded(n)
           /\ \A m \in Nodes : RowsKept(m)
  <1> DEFINE lease == Lease!LeaseOf(n, k)
             a == [attempts[n][k] EXCEPT !.status = "ABANDONED"]
             row == Lease!Unleased(node[n], "READY")
  <1>1. LP!LeaseCall(n, lease, now)
    <2> HIDE DEF lease
    <2> QED
      BY Zenon DEF LP!LeaseCall, Lease!ReleaseBeforeEffect, LP!ReleaseBeforeEffect, Lease!HolderNow,
           LP!HolderNow, Lease!databaseNow, LP!databaseNow, Lease!LeaseFilter, LP!LeaseFilter,
           Lease!Abandonable, LP!Abandonable, Lease!abandonAttemptTx, LP!abandonAttemptTx,
           Lease!Live, LP!Live, Lease!Unleased, LP!Unleased, lease
  <1>2. /\ attempts[n][k] \in LP!AttemptRow /\ node \in [Nodes -> LP!NodeRow]
        /\ node[n] \in LP!NodeRow /\ attempts \in [Nodes -> Seq(LP!AttemptRow)]
    BY LeaseRows
  <1>3. /\ a \in LP!AttemptRow
        /\ attempts[n][k].started => a.started
        /\ attempts[n][k].effectStarted => a.effectStarted
    BY <1>2, Zenon DEF LP!AttemptRow, LP!AttemptStatuses
  <1>4. /\ row \in LP!NodeRow /\ row.state = "READY" /\ row.effect = node[n].effect
        /\ row.retrySafe = node[n].retrySafe
    BY <1>2, Zenon DEF LP!NodeRow, LP!NodeStates, Lease!Unleased
  <1>5. /\ node[n].state = "RUNNING" /\ node' = [node EXCEPT ![n] = row]
        /\ attempts' = [attempts EXCEPT ![n] = [attempts[n] EXCEPT ![k] = a]]
    <2>1. PICK j \in Lease!Abandonable(n, Lease!LeaseOf(n, k).attemptNumber,
                                       Lease!LeaseOf(n, k).fence) :
             attempts' = [attempts EXCEPT ![n] = Lease!abandonAttemptTx(n, j)]
      BY Zenon DEF Lease!ReleaseBeforeEffect
    <2>2. j = k
      BY HeldAttempt
    <2>3. attempts' = [attempts EXCEPT ![n] = [attempts[n] EXCEPT ![k] = a]]
      BY <2>1, <2>2 DEF Lease!abandonAttemptTx
    <2>4. node[n].state = "RUNNING" /\ node' = [node EXCEPT ![n] = row]
      BY DEF Lease!ReleaseBeforeEffect, Lease!LeaseFilter
    <2> QED
      BY <2>3, <2>4
  <1> HIDE DEF a, row, lease
  <1>6. node'[n] = row /\ attempts'[n][k] = a /\ WritesOnly(n, k)
    BY <1>3, <1>4, <1>5, OneAttempt, Zenon
  <1>7. NotSucceeded(n)
    BY <1>4, <1>6 DEF NotSucceeded
  <1> QED
    BY <1>1, <1>6, <1>7, HeldCall DEF lease, WritesOnly

\* The outcomes with which the worker completes a node.
Outcomes == {"SUCCEEDED", "FAILED"}

\* A completion closes the attempt of the lease it is called with, the newest.
LEMMA CompleteMoves ==
    ASSUME LP!IInv, NodesInv, NEW n \in Nodes, NEW k \in DOMAIN attempts[n],
           NEW now \in Lease!databaseNow, NEW terminal \in Outcomes,
           Lease!Complete(n, Lease!LeaseOf(n, k), terminal, now)
    PROVE  /\ LP!IInv' /\ \A m \in Nodes : RowsKept(m) /\ AllSpared(m)
           /\ \A m \in Nodes : m # n => NotSucceeded(m)
           /\ node'[n].state = terminal /\ k = Len(attempts'[n])
  <1> DEFINE lease == Lease!LeaseOf(n, k)
             a == [attempts[n][k] EXCEPT !.status = terminal]
             row == Lease!Unleased(node[n], terminal)
  <1>1. LP!LeaseCall(n, lease, now)
    <2> HIDE DEF lease
    <2>1. LP!Complete(n, lease, terminal, now)
      BY Zenon DEF Lease!Complete, LP!Complete, Lease!HolderNow, LP!HolderNow, Lease!databaseNow,
           LP!databaseNow, Lease!leaseOwnsRow, LP!leaseOwnsRow, Lease!AttemptOf, LP!AttemptOf,
           Lease!Completable, LP!Completable, Lease!EffectResolved, LP!EffectResolved,
           Lease!isMutation, LP!isMutation, Lease!Unleased, LP!Unleased, lease
    <2> QED
      BY <2>1, Zenon DEF LP!LeaseCall, LP!CompletionStates, Outcomes
  <1>2. /\ attempts[n][k] \in LP!AttemptRow /\ node \in [Nodes -> LP!NodeRow]
        /\ node[n] \in LP!NodeRow /\ attempts \in [Nodes -> Seq(LP!AttemptRow)]
        /\ attempts[n] \in Seq(LP!AttemptRow) /\ node[n].fence = Len(attempts[n])
    BY LeaseRows
  <1>3. /\ a \in LP!AttemptRow
        /\ attempts[n][k].started => a.started
        /\ attempts[n][k].effectStarted => a.effectStarted
    BY <1>2, Zenon DEF LP!AttemptRow, LP!AttemptStatuses, LP!CompletionStates, Outcomes
  <1>4. /\ row \in LP!NodeRow /\ row.effect = node[n].effect
        /\ row.retrySafe = node[n].retrySafe
    <2>1. terminal \in LP!NodeStates
      BY DEF LP!NodeStates, Outcomes
    <2> QED
      BY <2>1, <1>2, Zenon DEF LP!NodeRow, Lease!Unleased
  <1>5. /\ node[n].state = "RUNNING"
        /\ node' = [node EXCEPT ![n] = row]
        /\ attempts' = [attempts EXCEPT ![n] = [attempts[n] EXCEPT ![k] = a]]
    <2>1. PICK j \in Lease!AttemptOf(n, Lease!LeaseOf(n, k)) :
             attempts' = [attempts EXCEPT ![n][j].status = terminal]
      BY Zenon DEF Lease!Complete
    <2>2. j = k
      BY HeldAttempt
    <2>3. attempts' = [attempts EXCEPT ![n] = [attempts[n] EXCEPT ![k] = a]]
      BY <2>1, <2>2, <1>2, Zenon
    <2>4. node[n].state = "RUNNING" /\ node' = [node EXCEPT ![n] = row]
      BY DEF Lease!Complete, Lease!leaseOwnsRow
    <2> QED
      BY <2>3, <2>4
  <1>f. node[n].fence = k
    BY HeldAttempt DEF Lease!Complete, Lease!leaseOwnsRow
  <1>s. a.status = terminal /\ row.state = terminal
    BY <1>2 DEF LP!AttemptRow, LP!NodeRow, Lease!Unleased
  <1> HIDE DEF a, row, lease
  <1>6. node'[n] = row /\ attempts'[n][k] = a /\ WritesOnly(n, k)
    BY <1>3, <1>4, <1>5, OneAttempt, Zenon
  <1>7. Spared(n, k)
    BY <1>s, <1>6 DEF Spared, Outcomes
  <1>8. Len(attempts'[n]) = Len(attempts[n])
    <2>1. attempts'[n] = [attempts[n] EXCEPT ![k] = a]
      BY <1>2, <1>5
    <2> QED
      BY <2>1, <1>2
  <1>9. \A m \in Nodes : AllSpared(m)
    BY <1>6, <1>7 DEF WritesOnly, AllSpared
  <1> QED
    BY <1>1, <1>2, <1>f, <1>s, <1>6, <1>8, <1>9, HeldCall DEF lease, WritesOnly

-----------------------------------------------------------------------------
\* The runs.  A step belongs to one run: the others keep what RunOK says of them.

LEMMA SameCalls ==
    ASSUME NEW q \in Runs, at' = at, held'[q] = held[q], result'[q] = result[q],
           calls' = calls \/ \E c : calls' = calls \cup {c} /\ c.run # q
    PROVE  HasCalled(q)' <=> HasCalled(q)
  <1>1. CallOf(q)' = CallOf(q) /\ CallOf(q).run = q
    BY DEF CallOf
  <1> HIDE DEF CallOf
  <1> QED
    BY <1>1 DEF HasCalled

LEMMA OtherRun ==
    ASSUME RunTypeOK, NEW q \in Runs, RunOK(q),
           plan' = plan, at' = at, pc'[q] = pc[q], held'[q] = held[q],
           result'[q] = result[q], HasCalled(q)' <=> HasCalled(q),
           RowsKept(at[q]),
           held[q] # 0 => Spared(at[q], held[q]),
           held[q] # 0 => reservations'[ReservationOf(q)].status
                              = reservations[ReservationOf(q)].status
    PROVE  RunOK(q)'
  <1>1. at[q] \in Nodes /\ held[q] \in Nat
    BY DEF RunTypeOK
  <1>2. (pc[q] \in Started \cup Reserving \/ pc[q] = "invoke" \/ HasCalled(q)) => held[q] # 0
    BY DEF RunOK, HoldsOK, CallOK, Holding, Started, Reserving
  <1>3. HoldsOK(q)'
    BY <1>1 DEF RunOK, HoldsOK, RowsKept
  <1>4. held[q] # 0 => held[q] \in DOMAIN attempts[at[q]]
    BY SMTT(30) DEF RunOK, HoldsOK
  <1>5. RecordedOK(q)'
    BY <1>1, <1>2, <1>4 DEF RunOK, RecordedOK, RowsKept, Spared, Attempt, Mutation
  <1>6. CallOK(q)'
    BY <1>1 DEF RunOK, CallOK, Succeeding, Mutation
  <1>7. ReservationOf(q)' = ReservationOf(q)
    BY DEF ReservationOf
  <1>8. ReservationOK(q)'
    BY <1>2, <1>7 DEF RunOK, ReservationOK
  <1>9. (pc[q] = "succeeded" => node[at[q]].state = "SUCCEEDED")'
    BY <1>1 DEF RunOK, RowsKept
  <1> QED
    BY <1>3, <1>5, <1>6, <1>8, <1>9 DEF RunOK

\* What the rows, the ledger and the answer must say for run r to go on to l.
Fits(r, l) ==
    /\ l \in Pcs
    /\ l \in Unclaimed => held[r] = 0
    /\ l \in Holding => held[r] # 0
    /\ l \in Started => attempts'[at[r]][held[r]].started
    /\ (l \in Started \/ HasCalled(r)) =>
          (~plan[at[r]].retrySafe => attempts'[at[r]][held[r]].status # "ABANDONED")
    /\ l = "invoke" => (Mutation(at[r]) => attempts'[at[r]][held[r]].effectStarted)
    /\ l \in Answered => HasCalled(r)
    /\ HasCalled(r) => l \in AfterCall
    /\ l = "markCommitted" => Mutation(at[r]) /\ result[r].disposition = "COMMITTED"
    /\ l = "complete" => Succeeding(r)
    /\ l \in Reserving => reservations'[ReservationOf(r)].status = "OPEN"
    /\ HasCalled(r) => reservations'[ReservationOf(r)].status \in {"OPEN", "SETTLED"}
    /\ l = "succeeded" => node'[at[r]].state = "SUCCEEDED"

LEMMA OwnRun ==
    ASSUME RunTypeOK, NEW r \in Runs, RunOK(r), NEW l, Fits(r, l), pc'[r] = l,
           plan' = plan, at' = at, held'[r] = held[r], result'[r] = result[r],
           HasCalled(r)' <=> HasCalled(r), RowsKept(at[r])
    PROVE  RunOK(r)'
  <1>1. at[r] \in Nodes /\ held[r] \in Nat
    BY DEF RunTypeOK
  <1>2. held[r] # 0 => held[r] \in DOMAIN attempts[at[r]]
    BY DEF RunOK, HoldsOK
  <1>3. HoldsOK(r)'
    BY <1>1 DEF RunOK, HoldsOK, RowsKept, Fits
  <1>4. HasCalled(r) => held[r] # 0
    BY DEF RunOK, CallOK
  <1>5. RecordedOK(r)'
    BY <1>1, <1>2, <1>4 DEF RunOK, RecordedOK, RowsKept, Attempt, Mutation, Fits
  <1>6. CallOK(r)'
    BY <1>1, <1>4 DEF CallOK, Succeeding, Mutation, Fits
  <1>7. ReservationOf(r)' = ReservationOf(r)
    BY DEF ReservationOf
  <1>8. ReservationOK(r)'
    BY <1>7 DEF ReservationOK, Fits
  <1>9. (pc[r] = "succeeded" => node[at[r]].state = "SUCCEEDED")'
    BY <1>1 DEF Fits
  <1> QED
    BY <1>3, <1>5, <1>6, <1>8, <1>9 DEF RunOK

\* A step of run r that asks nothing new of its target and keeps its lease.
LEMMA RunsKept ==
    ASSUME RunTypeOK, RunsInv, OneHolder, NEW r \in Runs, NEW l, Fits(r, l), Goto(r, l),
           UNCHANGED <<plan, at, held, result, calls>>,
           \A n \in Nodes : RowsKept(n),
           \A n \in Nodes : \A k \in DOMAIN attempts[n] :
              <<n, k>> # ReservationOf(r) => Spared(n, k),
           \A id \in ReservationIds :
              id # ReservationOf(r) => reservations'[id].status = reservations[id].status
    PROVE  RunsInv' /\ OneHolder'
  <1>1. /\ pc \in [Runs -> Pcs] /\ at \in [Runs -> Nodes] /\ held \in [Runs -> Nat]
    BY DEF RunTypeOK
  <1>2. pc'[r] = l /\ \A q \in Runs : q # r => pc'[q] = pc[q]
    BY <1>1 DEF Goto
  <1>3. \A q \in Runs : HasCalled(q)' <=> HasCalled(q)
    BY SameCalls
  <1>4. RunOK(r)'
    BY <1>1, <1>2, <1>3, OwnRun DEF RunsInv
  <1>5. ASSUME NEW q \in Runs, q # r
        PROVE  RunOK(q)'
    <2>1. RunOK(q) /\ RowsKept(at[q])
      BY <1>1 DEF RunsInv
    <2>2. ASSUME held[q] # 0
          PROVE  Spared(at[q], held[q]) /\ reservations'[ReservationOf(q)].status
                                               = reservations[ReservationOf(q)].status
      <3>1. held[q] \in DOMAIN attempts[at[q]] /\ held[q] <= MaxAttempts /\ held[q] \in Nat
        BY <2>1, <2>2, <1>1 DEF RunOK, HoldsOK
      <3>2. ReservationOf(q) # ReservationOf(r) /\ ReservationOf(q) \in ReservationIds
        BY <3>1, <2>2, <1>1, <1>5, WorkerConstants
           DEF OneHolder, ReservationOf, ReservationIds
      <3> QED
        BY <3>1, <3>2, <1>1 DEF ReservationOf
    <2> QED
      BY <2>1, <2>2, <1>2, <1>3, <1>5, OtherRun
  <1>6. OneHolder'
    BY DEF OneHolder
  <1> QED
    BY <1>4, <1>5, <1>6 DEF RunsInv

\* The successes of the nodes: the answered call that explains one stays.
LEMMA NodesKept ==
    ASSUME RunTypeOK, NodesInv, UNCHANGED <<plan, at>>,
           \A n \in Nodes : RowsKept(n),
           \A q \in Runs : HasCalled(q) =>
              HasCalled(q)' /\ held'[q] = held[q] /\ result'[q] = result[q],
           \A n \in Nodes :
              \/ NotSucceeded(n)
              \/ \E q \in Runs : /\ at[q] = n /\ HasCalled(q) /\ Succeeding(q)
                                 /\ held[q] = Len(attempts'[n])
    PROVE  NodesInv'
  <1>1. ASSUME NEW q \in Runs, HasCalled(q), Succeeding(q)
        PROVE  HasCalled(q)' /\ Succeeding(q)' /\ at'[q] = at[q] /\ held'[q] = held[q]
    BY <1>1 DEF Succeeding, Mutation
  <1>2. ASSUME NEW n \in Nodes
        PROVE  NodeOK(n)'
    <2>1. (node[n].state # "ABSENT" =>
             node[n].effect = plan[n].effect /\ node[n].retrySafe = plan[n].retrySafe)'
      BY DEF RowsKept
    <2>2. ASSUME node'[n].state = "SUCCEEDED"
          PROVE  \E q \in Runs : /\ at[q] = n /\ HasCalled(q) /\ Succeeding(q)
                                 /\ held[q] = Len(attempts'[n])
      <3>1. CASE NotSucceeded(n)
        <4>1. node[n].state = "SUCCEEDED" /\ Len(attempts'[n]) = Len(attempts[n])
          BY <2>2, <3>1 DEF NotSucceeded, RowsKept
        <4> QED
          BY <4>1 DEF NodesInv, NodeOK
      <3> QED
        BY <3>1
    <2>3. (node[n].state = "SUCCEEDED" =>
             \E q \in Runs : /\ at[q] = n /\ HasCalled(q) /\ Succeeding(q)
                             /\ held[q] = Len(attempts[n]))'
      BY <2>2, <1>1
    <2> QED
      BY <2>1, <2>3 DEF NodeOK
  <1> QED
    BY <1>2 DEF NodesInv

\* A step that leaves the ledger alone and does not leave a reservation behind.
LEMMA LedgerKept ==
    ASSUME RunTypeOK, LedgerInv, NEW r \in Runs, NEW l, Goto(r, l),
           UNCHANGED <<reserved, consumed, reservations>>,
           \A q \in Runs : pc[q] \in Reserving \cup {"crashed"} =>
                              ReservationOf(q)' = ReservationOf(q),
           pc[r] \in Reserving \cup {"crashed"} => l \in Reserving \cup {"crashed"}
    PROVE  LedgerInv'
  <1>1. \A q \in Runs : pc[q] \in Reserving \cup {"crashed"} =>
                           pc'[q] \in Reserving \cup {"crashed"}
    BY DEF RunTypeOK, Goto
  <1>3. Counted' = Counted
    BY DEF Counted
  <1>4. Estimate' = Estimate
    BY DEF Estimate
  <1>5. (\A id \in ReservationIds :
          reservations[id].status = "OPEN" =>
              /\ reservations[id].estimate = Estimate
              /\ \E q \in Runs : /\ ReservationOf(q) = id
                                 /\ pc[q] \in Reserving \cup {"crashed"})'
    BY <1>1, <1>4 DEF LedgerInv
  <1> QED
    BY <1>3, <1>5 DEF LedgerInv

LEMMA RunTypeKept ==
    ASSUME RunTypeOK, NEW r \in Runs, NEW l \in Pcs, Goto(r, l),
           UNCHANGED <<plan, at, held, result, calls, reserved, consumed, reservations>>
    PROVE  RunTypeOK'
  <1>1. pc' \in [Runs -> Pcs]
    BY DEF RunTypeOK, Goto
  <1>2. \A q \in Runs : CallOf(q)' = CallOf(q)
    BY DEF CallOf
  <1>3. {CallOf(q) : q \in Runs}' = {CallOf(q) : q \in Runs}
    BY <1>2
  <1> QED
    BY <1>1, <1>3, Zenon DEF RunTypeOK

\* Any step of run r that leaves the ledger and its answer alone.
LEMMA QuietStep ==
    ASSUME Inv, NEW r \in Runs, NEW l, Fits(r, l), Goto(r, l),
           UNCHANGED <<ledgerVars, plan, at, held, result, calls>>,
           LP!IInv', \A n \in Nodes : RowsKept(n),
           \A n \in Nodes : \A k \in DOMAIN attempts[n] :
              <<n, k>> # ReservationOf(r) => Spared(n, k),
           \A n \in Nodes : n # at[r] => NotSucceeded(n),
           \/ NotSucceeded(at[r])
           \/ HasCalled(r) /\ Succeeding(r) /\ held[r] = Len(attempts'[at[r]]),
           pc[r] \in Reserving => l \in Reserving \cup {"crashed"},
           pc[r] # "crashed"
    PROVE  Inv'
  <1>1. RunTypeOK /\ RunsInv /\ OneHolder /\ NodesInv /\ LedgerInv
    BY DEF Inv
  <1>2. /\ UNCHANGED <<reserved, consumed, reservations, plan, at, held, result, calls>>
        /\ l \in Pcs
    BY DEF ledgerVars, Fits
  <1>3. RunsInv' /\ OneHolder'
    BY <1>1, <1>2, RunsKept
  <1>4. \A q \in Runs : HasCalled(q)' <=> HasCalled(q)
    BY <1>2, SameCalls
  <1>5. NodesInv'
    <2>1. \A n \in Nodes :
              \/ NotSucceeded(n)
              \/ \E q \in Runs : /\ at[q] = n /\ HasCalled(q) /\ Succeeding(q)
                                 /\ held[q] = Len(attempts'[n])
      OBVIOUS
    <2> QED
      BY <2>1, <1>1, <1>2, <1>4, NodesKept
  <1>6. LedgerInv'
    <2>1. \A q \in Runs : ReservationOf(q)' = ReservationOf(q)
      BY <1>2 DEF ReservationOf
    <2> QED
      BY <2>1, <1>1, <1>2, LedgerKept
  <1>7. RunTypeOK'
    BY <1>1, <1>2, RunTypeKept
  <1> QED
    BY <1>3, <1>5, <1>6, <1>7 DEF Inv

\* The same, for the lease calls that spare every attempt and complete nothing.
LEMMA MovesStep ==
    ASSUME Inv, NEW r \in Runs, NEW l, Fits(r, l), Goto(r, l),
           UNCHANGED <<ledgerVars, plan, at, held, result, calls>>,
           LP!IInv', Moves,
           pc[r] \in Reserving => l \in Reserving \cup {"crashed"},
           pc[r] # "crashed"
    PROVE  Inv'
  <1>1. at[r] \in Nodes
    BY DEF Inv, RunTypeOK
  <1>2. /\ \A n \in Nodes : RowsKept(n)
        /\ \A n \in Nodes : \A k \in DOMAIN attempts[n] : Spared(n, k)
        /\ \A n \in Nodes : NotSucceeded(n)
    BY DEF Moves, AllSpared
  <1> QED
    BY <1>1, <1>2, QuietStep

\* And for the steps that make no lease call.
LEMMA StillStep ==
    ASSUME Inv, NEW r \in Runs, NEW l, Fits(r, l), Goto(r, l),
           UNCHANGED <<leaseVars, ledgerVars, plan, at, held, result, calls>>,
           pc[r] \in Reserving => l \in Reserving \cup {"crashed"},
           pc[r] # "crashed"
    PROVE  Inv'
  <1>1. LP!IInv /\ NodesInv /\ node' = node /\ attempts' = attempts /\ UNCHANGED leaseVars
    BY DEF Inv, leaseVars
  <1>2. LP!IInv' /\ Moves
    BY <1>1, LeaseStutter, StillMoves
  <1> QED
    BY <1>2, MovesStep

-----------------------------------------------------------------------------
\* Steps of a run that holds no lease yet.
LEMMA UnclaimedFits ==
    ASSUME Inv, NEW r \in Runs, pc[r] \in Unclaimed,
           NEW l \in Unclaimed \cup {"failed", "crashed", "succeeded"},
           l = "succeeded" => node'[at[r]].state = "SUCCEEDED"
    PROVE  Fits(r, l) /\ pc[r] \notin Reserving /\ pc[r] # "crashed"
  <1>1. RunOK(r)
    BY DEF Inv, RunsInv
  <1>2. held[r] = 0 /\ ~HasCalled(r)
    BY <1>1 DEF RunOK, HoldsOK, CallOK, Unclaimed, AfterCall, Answered
  <1>3. l \in Pcs /\ l \notin Holding /\ l \notin Started /\ l # "invoke" /\ l \notin Answered
        /\ l # "markCommitted" /\ l # "complete" /\ l \notin Reserving
    BY DEF Pcs, Unclaimed, Ended, Holding, Started, Answered, Reserving
  <1>4. pc[r] \notin Reserving /\ pc[r] # "crashed"
    BY DEF Unclaimed, Reserving
  <1> QED
    BY <1>2, <1>3, <1>4 DEF Fits

LEMMA StartStep == ASSUME Inv, NEW r \in Runs, Start(r) PROVE Inv'
  <1>1. pc[r] \in Unclaimed /\ "runtime" \in Unclaimed
    BY DEF Start, Unclaimed
  <1>2. Fits(r, "runtime") /\ pc[r] \notin Reserving /\ pc[r] # "crashed"
    BY <1>1, UnclaimedFits
  <1> QED
    BY <1>2, StillStep DEF Start

LEMMA GetRuntimeStep == ASSUME Inv, NEW r \in Runs, GetRuntime(r) PROVE Inv'
  <1>1. PICK l : /\ Goto(r, l)
                 /\ \/ l \in {"register", "retry", "claim", "failed"}
                    \/ l = "succeeded" /\ node[at[r]].state = "SUCCEEDED"
    BY DEF GetRuntime
  <1>2. pc[r] \in Unclaimed
    BY DEF GetRuntime, Unclaimed
  <1>3. /\ UNCHANGED <<leaseVars, ledgerVars, plan, at, held, result, calls>>
        /\ node' = node
    BY DEF GetRuntime, leaseVars
  <1>4. /\ l \in Unclaimed \cup {"failed", "crashed", "succeeded"}
        /\ l = "succeeded" => node'[at[r]].state = "SUCCEEDED"
    BY <1>1, <1>3 DEF Unclaimed
  <1>5. Fits(r, l) /\ pc[r] \notin Reserving /\ pc[r] # "crashed"
    BY <1>2, <1>4, UnclaimedFits
  <1> QED
    BY <1>1, <1>3, <1>5, StillStep

LEMMA RegisterStep == ASSUME Inv, NEW r \in Runs, Register(r) PROVE Inv'
  <1>1. pc[r] \in Unclaimed /\ UNCHANGED <<ledgerVars, plan, at, held, result, calls>>
    BY DEF Register, Unclaimed
  <1>2. PICK l \in {"runtime", "failed"} :
           /\ Goto(r, l)
           /\ \/ Lease!Register(at[r], plan[at[r]].effect, plan[at[r]].retrySafe)
              \/ UNCHANGED leaseVars
    BY DEF Register, Transaction
  <1>3. Fits(r, l) /\ pc[r] \notin Reserving /\ pc[r] # "crashed"
    <2>1. l \in Unclaimed \cup {"failed", "crashed", "succeeded"} /\ l # "succeeded"
      BY DEF Unclaimed
    <2> QED
      BY <2>1, <1>1, UnclaimedFits
  <1>4. CASE Lease!Register(at[r], plan[at[r]].effect, plan[at[r]].retrySafe)
    <2>1. at[r] \in Nodes /\ LP!IInv /\ RunTypeOK /\ NodesInv
      BY DEF Inv, RunTypeOK
    <2>2. LP!IInv' /\ Moves
      BY <2>1, <1>4, RegisterMoves
    <2> QED
      BY <2>2, <1>1, <1>2, <1>3, MovesStep
  <1>5. CASE UNCHANGED leaseVars
    BY <1>1, <1>2, <1>3, <1>5, StillStep
  <1> QED
    BY <1>2, <1>4, <1>5

LEMMA PrepareRetryStep == ASSUME Inv, NEW r \in Runs, PrepareRetry(r) PROVE Inv'
  <1>1. PICK l \in {"requeue", "failed"} : Goto(r, l)
    BY DEF PrepareRetry
  <1>2. /\ pc[r] \in Unclaimed /\ l \in Unclaimed \cup {"failed", "crashed", "succeeded"}
        /\ l # "succeeded"
        /\ UNCHANGED <<leaseVars, ledgerVars, plan, at, held, result, calls>>
    BY DEF PrepareRetry, Unclaimed
  <1>3. Fits(r, l) /\ pc[r] \notin Reserving /\ pc[r] # "crashed"
    BY <1>2, UnclaimedFits
  <1> QED
    BY <1>1, <1>2, <1>3, StillStep

LEMMA RequeueStep == ASSUME Inv, NEW r \in Runs, Requeue(r) PROVE Inv'
  <1>1. pc[r] \in Unclaimed /\ UNCHANGED <<ledgerVars, plan, at, held, result, calls>>
    BY DEF Requeue, Unclaimed
  <1>2. PICK l \in {"requeued", "failed"} :
           Goto(r, l) /\ (Lease!RequeueFailed(at[r]) \/ UNCHANGED leaseVars)
    BY DEF Requeue, Transaction
  <1>3. Fits(r, l) /\ pc[r] \notin Reserving /\ pc[r] # "crashed"
    <2>1. l \in Unclaimed \cup {"failed", "crashed", "succeeded"} /\ l # "succeeded"
      BY DEF Unclaimed
    <2> QED
      BY <2>1, <1>1, UnclaimedFits
  <1>4. CASE Lease!RequeueFailed(at[r])
    <2>1. at[r] \in Nodes /\ LP!IInv /\ NodesInv
      BY DEF Inv, RunTypeOK
    <2>2. LP!IInv' /\ Moves
      BY <2>1, <1>4, RequeueMoves
    <2> QED
      BY <2>2, <1>1, <1>2, <1>3, MovesStep
  <1>5. CASE UNCHANGED leaseVars
    BY <1>1, <1>2, <1>3, <1>5, StillStep
  <1> QED
    BY <1>2, <1>4, <1>5

LEMMA ReloadRequeuedStep == ASSUME Inv, NEW r \in Runs, ReloadRequeued(r) PROVE Inv'
  <1>1. PICK l \in {"claim", "failed"} : Goto(r, l)
    BY DEF ReloadRequeued
  <1>2. /\ pc[r] \in Unclaimed /\ l \in Unclaimed \cup {"failed", "crashed", "succeeded"}
        /\ l # "succeeded"
        /\ UNCHANGED <<leaseVars, ledgerVars, plan, at, held, result, calls>>
    BY DEF ReloadRequeued, Unclaimed
  <1>3. Fits(r, l) /\ pc[r] \notin Reserving /\ pc[r] # "crashed"
    BY <1>2, UnclaimedFits
  <1> QED
    BY <1>1, <1>2, <1>3, StillStep

-----------------------------------------------------------------------------
\* A claim whose answer arrives gives the run a lease no run holds.
LEMMA ClaimAnswered ==
    ASSUME Inv, NEW r \in Runs, pc[r] = "claim", ClaimNode(r), Goto(r, "reserve"),
           held' = [held EXCEPT ![r] = Len(attempts'[at[r]])],
           UNCHANGED <<ledgerVars, plan, at, result, calls>>
    PROVE  Inv'
  <1>1. /\ LP!IInv /\ RunTypeOK /\ RunsInv /\ OneHolder /\ NodesInv /\ LedgerInv
        /\ at[r] \in Nodes /\ pc \in [Runs -> Pcs] /\ at \in [Runs -> Nodes]
        /\ held \in [Runs -> Nat] /\ result \in [Runs -> Results]
    BY DEF Inv, RunTypeOK
  <1>2. PICK now \in Lease!databaseNow :
           Lease!ClaimReady(at[r], WorkerOf[r], now) \/ Lease!ClaimExpired(at[r], WorkerOf[r], now)
    BY Zenon DEF ClaimNode
  <1>3. /\ LP!IInv' /\ Moves
        /\ Len(attempts'[at[r]]) = Len(attempts[at[r]]) + 1 /\ Len(attempts[at[r]]) < MaxAttempts
    BY <1>1, <1>2, ClaimMoves, WorkerConstants
  <1>4. attempts[at[r]] \in Seq(LP!AttemptRow) /\ attempts'[at[r]] \in Seq(LP!AttemptRow)
    <2>1. attempts'[at[r]] \in Seq(LP!AttemptRow)
      BY <1>1, <1>3, Zenon DEF LP!IInv, LP!TypeOK, LP!AttemptRow
    <2> QED
      BY <2>1, <1>1, LeaseRows
  <1> DEFINE k == Len(attempts'[at[r]])
  <1>5. /\ k \in Nat /\ k # 0 /\ k <= MaxAttempts /\ k \in DOMAIN attempts'[at[r]]
        /\ k \notin DOMAIN attempts[at[r]]
    BY <1>3, <1>4, WorkerConstants
  <1>6. /\ held' \in [Runs -> Nat] /\ held'[r] = k
        /\ \A q \in Runs : q # r => held'[q] = held[q]
        /\ pc' \in [Runs -> Pcs] /\ pc'[r] = "reserve"
        /\ \A q \in Runs : q # r => pc'[q] = pc[q]
    BY <1>1, <1>5 DEF Goto, Pcs, Holding
  <1> HIDE DEF k
  <1>7. held[r] = 0 /\ ~HasCalled(r)
    BY <1>1 DEF RunsInv, RunOK, HoldsOK, CallOK, Unclaimed, AfterCall, Answered
  <1>8. \A q \in Runs : q # r => CallOf(q)' = CallOf(q)
    BY <1>6 DEF CallOf
  <1>9. \A c \in calls : c.run # r /\ c \in {CallOf(q) : q \in Runs \ {r}}
    <2>1. \A q \in Runs : CallOf(q).run = q
      BY DEF CallOf
    <2>2. calls \subseteq {CallOf(q) : q \in Runs}
      BY <1>1 DEF RunTypeOK
    <2> QED
      BY <2>1, <2>2, <1>7 DEF HasCalled
  <1>10. ~HasCalled(r)'
    <2>1. CallOf(r)'.run = r
      BY DEF CallOf
    <2> QED
      BY <2>1, <1>9 DEF HasCalled
  <1>11. \A q \in Runs : q # r => (HasCalled(q)' <=> HasCalled(q))
    BY <1>6, SameCalls
  <1>12. \A n \in Nodes : RowsKept(n) /\ NotSucceeded(n)
    BY <1>3 DEF Moves
  <1>13. RunOK(r)'
    <2>1. HoldsOK(r)'
      BY <1>5, <1>6 DEF HoldsOK, Unclaimed
    <2>2. RecordedOK(r)' /\ CallOK(r)' /\ ReservationOK(r)'
      BY <1>6, <1>10 DEF RecordedOK, CallOK, ReservationOK, Started, Answered, Reserving
    <2> QED
      BY <2>1, <2>2, <1>6 DEF RunOK
  <1>14. ASSUME NEW q \in Runs, q # r
         PROVE  RunOK(q)'
    <2>1. RunOK(q) /\ RowsKept(at[q]) /\ at[q] \in Nodes
      BY <1>1, <1>12 DEF RunsInv
    <2>2. held[q] # 0 => Spared(at[q], held[q])
      BY <2>1, <1>3 DEF RunOK, HoldsOK, Moves, AllSpared
    <2>3. reservations' = reservations
      BY DEF ledgerVars
    <2> QED
      BY <2>1, <2>2, <2>3, <1>1, <1>6, <1>11, <1>14, OtherRun
  <1>15. OneHolder'
    <2>1. ASSUME NEW q \in Runs, q # r, at[q] = at[r]
          PROVE  held[q] # k
      BY <2>1, <1>1, <1>5 DEF RunsInv, RunOK, HoldsOK
    <2>2. \A q \in Runs : q # r => held'[q] = held[q]
      BY <1>6
    <2> QED
      BY <2>1, <2>2, <1>1, <1>6, SMTT(30) DEF OneHolder
  <1>16. NodesInv'
    <2>1. \A q \in Runs : HasCalled(q) =>
              HasCalled(q)' /\ held'[q] = held[q] /\ result'[q] = result[q]
      BY <1>6, <1>7, <1>11
    <2> QED
      BY <2>1, <1>1, <1>12, NodesKept
  <1>17. LedgerInv'
    <2>1. \A q \in Runs : pc[q] \in Reserving \cup {"crashed"} =>
                              ReservationOf(q)' = ReservationOf(q)
      BY <1>6 DEF ReservationOf, Reserving
    <2> QED
      BY <2>1, <1>1, LedgerKept DEF Reserving, ledgerVars
  <1>18. RunTypeOK'
    <2>1. calls' \subseteq {CallOf(q) : q \in Runs}'
      BY <1>8, <1>9
    <2> QED
      BY <2>1, <1>1, <1>6, Zenon DEF RunTypeOK, ledgerVars
  <1> QED
    BY <1>3, <1>13, <1>14, <1>15, <1>16, <1>17, <1>18 DEF Inv, RunsInv

LEMMA ClaimStep == ASSUME Inv, NEW r \in Runs, Claim(r) PROVE Inv'
  <1>1. CASE ClaimNode(r) /\ held' = [held EXCEPT ![r] = Len(attempts'[at[r]])]
             /\ Goto(r, "reserve")
    BY <1>1, ClaimAnswered, Zenon DEF Claim
  <1>2. CASE (ClaimNode(r) \/ UNCHANGED leaseVars) /\ Goto(r, "failed") /\ UNCHANGED held
    <2>1. pc[r] \in Unclaimed /\ UNCHANGED <<ledgerVars, plan, at, held, result, calls>>
      BY <1>2 DEF Claim, Unclaimed
    <2>2. Fits(r, "failed") /\ pc[r] \notin Reserving /\ pc[r] # "crashed"
      BY <2>1, UnclaimedFits
    <2>3. CASE ClaimNode(r)
      <3>1. at[r] \in Nodes /\ LP!IInv /\ NodesInv
        BY DEF Inv, RunTypeOK
      <3>2. PICK now \in Lease!databaseNow :
               \/ Lease!ClaimReady(at[r], WorkerOf[r], now)
               \/ Lease!ClaimExpired(at[r], WorkerOf[r], now)
        BY <2>3, Zenon DEF ClaimNode
      <3>3. LP!IInv' /\ Moves
        BY <3>1, <3>2, ClaimMoves, WorkerConstants
      <3> QED
        BY <3>3, <2>1, <2>2, <1>2, MovesStep
    <2>4. CASE UNCHANGED leaseVars
      BY <2>1, <2>2, <2>4, <1>2, StillStep
    <2> QED
      BY <2>3, <2>4, <1>2
  <1> QED
    BY <1>1, <1>2 DEF Claim

-----------------------------------------------------------------------------
\* Steps of a run that holds a lease.
LEMMA Holder ==
    ASSUME Inv, NEW r \in Runs, pc[r] \in Holding
    PROVE  /\ LP!IInv /\ NodesInv /\ RunTypeOK /\ RunOK(r)
           /\ at[r] \in Nodes /\ held[r] # 0 /\ held[r] \in DOMAIN attempts[at[r]]
           /\ ReservationOf(r) = <<at[r], held[r]>> /\ ReservationOf(r) \in ReservationIds
           /\ LeaseHeld(r) = Lease!LeaseOf(at[r], held[r])
  <1>1. RunOK(r) /\ at[r] \in Nodes /\ held[r] \in Nat
    BY DEF Inv, RunsInv, RunTypeOK
  <1>2. held[r] # 0 /\ held[r] \in DOMAIN attempts[at[r]] /\ held[r] <= MaxAttempts
    BY <1>1 DEF RunOK, HoldsOK
  <1>3. ReservationOf(r) \in ReservationIds
    BY <1>1, <1>2, WorkerConstants DEF ReservationOf, ReservationIds
  <1> QED
    BY <1>1, <1>2, <1>3 DEF Inv, ReservationOf, LeaseHeld

\* Until its target is called the run has made no call.
LEMMA NotCalled ==
    ASSUME Inv, NEW r \in Runs, pc[r] \in Holding, pc[r] \notin AfterCall
    PROVE  ~HasCalled(r)
  BY Holder DEF RunOK, CallOK

\* A run stops between two calls.
LEMMA CrashStep == ASSUME Inv, NEW r \in Runs, Crash(r) PROVE Inv'
  <1>1. RunOK(r)
    BY DEF Inv, RunsInv
  <1>2. node' = node /\ attempts' = attempts /\ reservations' = reservations
    BY DEF Crash, leaseVars, ledgerVars
  <1>3. HasCalled(r) =>
          /\ ~plan[at[r]].retrySafe => attempts'[at[r]][held[r]].status # "ABANDONED"
          /\ reservations'[ReservationOf(r)].status \in {"OPEN", "SETTLED"}
    BY <1>1, <1>2, ZenonT(30) DEF RunOK, RecordedOK, Attempt, ReservationOK
  <1>4. Fits(r, "crashed")
    BY <1>3, SMTT(30)
    DEF Fits, Pcs, Unclaimed, Ended, Holding, Started, Answered, AfterCall, Reserving
  <1> QED
    BY <1>4, StillStep DEF Crash, Ended

LEMMA StartAttemptStep == ASSUME Inv, NEW r \in Runs, StartAttempt(r) PROVE Inv'
  <1>1. /\ pc[r] = "start" /\ pc[r] \in Holding /\ pc[r] \notin AfterCall /\ pc[r] \in Reserving
        /\ UNCHANGED <<ledgerVars, plan, at, held, result, calls>>
    BY DEF StartAttempt, Holding, AfterCall, Answered, Reserving
  <1>2. ~HasCalled(r) /\ held[r] # 0 /\ held[r] \in DOMAIN attempts[at[r]]
        /\ reservations'[ReservationOf(r)].status = "OPEN"
    BY <1>1, Holder, NotCalled, Zenon DEF RunOK, ReservationOK, ledgerVars
  <1>3. Fits(r, "unreserve")
    BY <1>2, Zenon DEF Fits, Pcs, Unclaimed, Ended, Holding, Started, Answered, AfterCall, Reserving
  <1>4. CASE \E now \in Lease!databaseNow : Lease!StartAttempt(at[r], LeaseHeld(r), now)
    <2>1. /\ LP!IInv' /\ Moves
          /\ attempts'[at[r]][held[r]].started /\ attempts'[at[r]][held[r]].status = "RUNNING"
      BY <1>1, <1>4, Holder, StartMoves, Zenon
    <2>2. PICK l \in {"invoke", "markStarted", "unreserve"} :
             Goto(r, l) /\ (l = "invoke" => ~Mutation(at[r]))
      BY Zenon DEF StartAttempt, Transaction, AfterStart
    <2>3. Fits(r, l) /\ l \in Reserving
      BY <2>1, <2>2, <1>2, <1>3
         DEF Fits, Pcs, Unclaimed, Ended, Holding, Started, Answered, AfterCall, Reserving
    <2> QED
      BY <2>1, <2>2, <2>3, <1>1, MovesStep, Zenon
  <1>5. CASE UNCHANGED leaseVars /\ Goto(r, "unreserve")
    BY <1>1, <1>3, <1>5, StillStep, SMTT(30) DEF Reserving
  <1> QED
    BY <1>4, <1>5 DEF StartAttempt, Transaction

\* The only call that abandons an attempt the run itself holds, never called.
LEMMA ReleaseLeaseStep == ASSUME Inv, NEW r \in Runs, ReleaseLease(r) PROVE Inv'
  <1>1. /\ pc[r] = "release" /\ pc[r] \in Holding /\ pc[r] \notin AfterCall
        /\ pc[r] \notin Reserving /\ Goto(r, "failed")
        /\ UNCHANGED <<ledgerVars, plan, at, held, result, calls>>
    BY DEF ReleaseLease, Transaction, Holding, AfterCall, Answered, Reserving
  <1>2. ~HasCalled(r)
    BY <1>1, NotCalled
  <1>3. Fits(r, "failed")
    BY <1>2, SMTT(30)
    DEF Fits, Pcs, Unclaimed, Ended, Holding, Started, Answered, AfterCall, Reserving
  <1>4. CASE \E now \in Lease!databaseNow :
                Lease!ReleaseBeforeEffect(at[r], LeaseHeld(r), now)
    <2>1. /\ LP!IInv' /\ WritesOnly(at[r], held[r]) /\ NotSucceeded(at[r])
          /\ \A m \in Nodes : RowsKept(m)
      BY <1>1, <1>4, Holder, ReleaseMoves, Zenon
    <2>2. /\ \A n \in Nodes : \A k \in DOMAIN attempts[n] :
                <<n, k>> # ReservationOf(r) => Spared(n, k)
          /\ \A n \in Nodes : n # at[r] => NotSucceeded(n)
      BY <2>1, <1>1, Holder, Zenon DEF WritesOnly
    <2> QED
      BY <2>1, <2>2, <1>1, <1>3, QuietStep
  <1>5. CASE UNCHANGED leaseVars
    BY <1>1, <1>3, <1>5, StillStep
  <1> QED
    BY <1>4, <1>5 DEF ReleaseLease, Transaction

LEMMA MarkStartedStep == ASSUME Inv, NEW r \in Runs, MarkStarted(r) PROVE Inv'
  <1>1. /\ pc[r] = "markStarted" /\ pc[r] \in Holding /\ pc[r] \notin AfterCall
        /\ pc[r] \in Reserving /\ pc[r] \in Started
        /\ UNCHANGED <<ledgerVars, plan, at, held, result, calls>>
    BY DEF MarkStarted, Holding, AfterCall, Answered, Reserving, Started
  <1>2. /\ ~HasCalled(r) /\ held[r] # 0 /\ held[r] \in DOMAIN attempts[at[r]]
        /\ reservations'[ReservationOf(r)].status = "OPEN" /\ at[r] \in Nodes
        /\ attempts[at[r]][held[r]].started
        /\ ~plan[at[r]].retrySafe => attempts[at[r]][held[r]].status # "ABANDONED"
    BY <1>1, Holder, NotCalled, Zenon DEF RunOK, ReservationOK, RecordedOK, Attempt, ledgerVars
  <1>3. CASE \E now \in Lease!databaseNow :
                Lease!MarkEffectStarted(at[r], LeaseHeld(r), now)
    <2>1. LP!IInv' /\ Moves /\ attempts'[at[r]][held[r]].effectStarted
      BY <1>1, <1>3, Holder, MarkStartedMoves, Zenon
    <2>2. /\ attempts'[at[r]][held[r]].started
          /\ ~plan[at[r]].retrySafe => attempts'[at[r]][held[r]].status # "ABANDONED"
      BY <2>1, <1>2, Zenon DEF Moves, RowsKept, AllSpared, Spared
    <2>3. PICK l \in {"invoke", "settleUncalled"} : Goto(r, l)
      BY SMTT(30) DEF MarkStarted, Transaction
    <2>4. Fits(r, l) /\ l \in Reserving
      BY <2>1, <2>2, <2>3, <1>2
         DEF Fits, Pcs, Unclaimed, Ended, Holding, Started, Answered, AfterCall, Reserving
    <2> QED
      BY <2>1, <2>3, <2>4, <1>1, MovesStep, Zenon
  <1>4. CASE UNCHANGED leaseVars /\ Goto(r, "settleUncalled")
    <2>1. attempts' = attempts
      BY <1>4, SMTT(30) DEF leaseVars
    <2>2. Fits(r, "settleUncalled")
      BY <2>1, <1>2, Zenon
         DEF Fits, Pcs, Unclaimed, Ended, Holding, Started, Answered, AfterCall, Reserving
    <2> QED
      BY <2>2, <1>1, <1>4, StillStep DEF Reserving
  <1> QED
    BY <1>3, <1>4 DEF MarkStarted, Transaction

\* What is known of a run after its target answered, whatever happens to the rows.
LEMMA CalledFits ==
    ASSUME Inv, NEW r \in Runs, pc[r] \in {"markCommitted", "complete", "fail"},
           UNCHANGED <<ledgerVars, plan, at, held, result, calls>>,
           \A n \in Nodes : RowsKept(n) /\ AllSpared(n)
    PROVE  /\ held[r] # 0 /\ held[r] \in DOMAIN attempts[at[r]] /\ at[r] \in Nodes
           /\ pc[r] # "fail" => HasCalled(r)
           /\ attempts'[at[r]][held[r]].started
           /\ ~plan[at[r]].retrySafe => attempts'[at[r]][held[r]].status # "ABANDONED"
           /\ HasCalled(r) => reservations'[ReservationOf(r)].status \in {"OPEN", "SETTLED"}
           /\ Fits(r, "failed")
  <1>1. pc[r] \in Holding /\ pc[r] \in Started
    BY DEF Holding, Started
  <1>2. /\ RunOK(r) /\ held[r] # 0 /\ held[r] \in DOMAIN attempts[at[r]] /\ at[r] \in Nodes
        /\ reservations' = reservations
    BY <1>1, Holder DEF ledgerVars
  <1>3. pc[r] # "fail" => HasCalled(r)
    BY <1>2 DEF RunOK, CallOK, Answered
  <1>4. /\ attempts'[at[r]][held[r]].started
        /\ ~plan[at[r]].retrySafe => attempts'[at[r]][held[r]].status # "ABANDONED"
    BY <1>1, <1>2, Zenon DEF RunOK, RecordedOK, Attempt, RowsKept, AllSpared, Spared
  <1>5. HasCalled(r) => reservations'[ReservationOf(r)].status \in {"OPEN", "SETTLED"}
    BY <1>2, SMTT(30) DEF RunOK, ReservationOK
  <1>6. Fits(r, "failed")
    BY SMTT(30), <1>4, <1>5
       DEF Fits, Pcs, Unclaimed, Ended, Holding, Started, Answered, AfterCall, Reserving
  <1> QED
    BY <1>2, <1>3, <1>4, <1>5, <1>6, Zenon

LEMMA MarkCommittedStep == ASSUME Inv, NEW r \in Runs, MarkCommitted(r) PROVE Inv'
  <1>1. /\ pc[r] = "markCommitted" /\ pc[r] \in Holding /\ pc[r] \notin Reserving
        /\ UNCHANGED <<ledgerVars, plan, at, held, result, calls>>
    BY DEF MarkCommitted, Holding, Started, Reserving
  <1>2. Mutation(at[r]) /\ result[r].disposition = "COMMITTED"
    BY <1>1, Holder, SMTT(30) DEF RunOK, CallOK
  <1>3. CASE \E now \in Lease!databaseNow :
                Lease!MarkEffectCommitted(at[r], LeaseHeld(r), now)
    <2>1. LP!IInv' /\ Moves
      BY <1>1, <1>3, Holder, MarkCommittedMoves
    <2>2. PICK l \in {"complete", "failed"} :
             Goto(r, l) /\ (l = "complete" => result[r].error = "none")
      BY ZenonT(30) DEF MarkCommitted, Transaction
    <2>3. /\ held[r] # 0 /\ HasCalled(r)
          /\ attempts'[at[r]][held[r]].started
          /\ ~plan[at[r]].retrySafe => attempts'[at[r]][held[r]].status # "ABANDONED"
          /\ reservations'[ReservationOf(r)].status \in {"OPEN", "SETTLED"}
          /\ Fits(r, "failed")
      BY <2>1, <1>1, CalledFits, ZenonT(30) DEF Moves
    <2>4. Fits(r, l)
      BY <2>2, <2>3, <1>2, Zenon
         DEF Fits, Pcs, Unclaimed, Ended, Holding, Started, Answered, AfterCall, Reserving,
             Succeeding
    <2> QED
      BY SMTT(30), <2>1, <2>2, <2>4, <1>1, MovesStep
  <1>4. CASE UNCHANGED leaseVars /\ Goto(r, "failed")
    <2>1. Moves
      BY <1>1, <1>4, Holder, StillMoves DEF leaseVars
    <2>2. Fits(r, "failed")
      BY <2>1, <1>1, CalledFits, Zenon DEF Moves
    <2> QED
      BY <2>2, <1>1, <1>4, StillStep
  <1> QED
    BY <1>3, <1>4 DEF MarkCommitted, Transaction

\* The success of a node is the answer its newest attempt got.
LEMMA CompleteSucceededStep == ASSUME Inv, NEW r \in Runs, CompleteSucceeded(r) PROVE Inv'
  <1>1. /\ pc[r] = "complete" /\ pc[r] \in Holding /\ pc[r] \notin Reserving
        /\ UNCHANGED <<ledgerVars, plan, at, held, result, calls>>
    BY SMTT(30) DEF CompleteSucceeded, Holding, Started, Reserving
  <1>2. Succeeding(r)
    BY <1>1, Holder DEF RunOK, CallOK
  <1>3. CASE CompleteNode(r, "SUCCEEDED")
    <2>1. /\ LP!IInv' /\ \A m \in Nodes : RowsKept(m) /\ AllSpared(m)
          /\ \A m \in Nodes : m # at[r] => NotSucceeded(m)
          /\ held[r] = Len(attempts'[at[r]])
      <3>1. PICK now \in Lease!databaseNow :
               Lease!Complete(at[r], Lease!LeaseOf(at[r], held[r]), "SUCCEEDED", now)
        BY <1>1, <1>3, Holder, Zenon DEF CompleteNode
      <3>2. /\ "SUCCEEDED" \in Outcomes /\ LP!IInv /\ NodesInv
            /\ at[r] \in Nodes /\ held[r] \in DOMAIN attempts[at[r]]
        BY <1>1, Holder, Zenon DEF Outcomes
      <3> QED
        BY <3>1, <3>2, CompleteMoves, Zenon
    <2>2. PICK l \in {"verify", "failed"} : Goto(r, l)
      BY SMTT(30) DEF CompleteSucceeded, Transaction
    <2>3. /\ held[r] # 0 /\ HasCalled(r)
          /\ attempts'[at[r]][held[r]].started
          /\ ~plan[at[r]].retrySafe => attempts'[at[r]][held[r]].status # "ABANDONED"
          /\ reservations'[ReservationOf(r)].status \in {"OPEN", "SETTLED"}
          /\ Fits(r, "failed")
      BY <2>1, <1>1, CalledFits, Zenon
    <2>4. Fits(r, l)
      BY <2>2, <2>3, ZenonT(30)
         DEF Fits, Pcs, Unclaimed, Ended, Holding, Started, Answered, AfterCall, Reserving
    <2>5. \A n \in Nodes : \A k \in DOMAIN attempts[n] : Spared(n, k)
      BY <2>1 DEF AllSpared
    <2> QED
      BY <2>1, <2>2, <2>3, <2>4, <2>5, <1>1, <1>2, QuietStep, Zenon
  <1>4. CASE UNCHANGED leaseVars /\ Goto(r, "failed")
    <2>1. Moves
      BY <1>1, <1>4, Holder, StillMoves, Zenon DEF leaseVars
    <2>2. Fits(r, "failed")
      BY <2>1, <1>1, CalledFits DEF Moves
    <2> QED
      BY <2>2, <1>1, <1>4, StillStep
  <1> QED
    BY <1>3, <1>4 DEF CompleteSucceeded, Transaction

LEMMA CompleteFailedStep == ASSUME Inv, NEW r \in Runs, CompleteFailed(r) PROVE Inv'
  <1>1. /\ pc[r] = "fail" /\ pc[r] \in Holding /\ pc[r] \notin Reserving /\ Goto(r, "failed")
        /\ UNCHANGED <<ledgerVars, plan, at, held, result, calls>>
    BY SMTT(30) DEF CompleteFailed, Transaction, Holding, Started, Reserving
  <1>3. CASE CompleteNode(r, "FAILED")
    <2>1. /\ LP!IInv' /\ \A m \in Nodes : RowsKept(m) /\ AllSpared(m)
          /\ \A m \in Nodes : m # at[r] => NotSucceeded(m)
          /\ NotSucceeded(at[r])
      <3>1. PICK now \in Lease!databaseNow :
               Lease!Complete(at[r], Lease!LeaseOf(at[r], held[r]), "FAILED", now)
        BY <1>1, <1>3, Holder, Zenon DEF CompleteNode
      <3>2. /\ "FAILED" \in Outcomes /\ LP!IInv /\ NodesInv
            /\ at[r] \in Nodes /\ held[r] \in DOMAIN attempts[at[r]]
        BY <1>1, Holder, Zenon DEF Outcomes
      <3>3. /\ LP!IInv' /\ \A m \in Nodes : RowsKept(m) /\ AllSpared(m)
            /\ \A m \in Nodes : m # at[r] => NotSucceeded(m)
            /\ node'[at[r]].state = "FAILED"
        BY <3>1, <3>2, CompleteMoves, Zenon
      <3> QED
        BY <3>3 DEF NotSucceeded
    <2>2. Fits(r, "failed")
      BY <2>1, <1>1, CalledFits, Zenon
    <2>3. Moves
      BY <2>1 DEF Moves
    <2> QED
      BY <2>1, <2>2, <2>3, <1>1, MovesStep
  <1>4. CASE UNCHANGED leaseVars
    <2>1. Moves
      BY <1>1, <1>4, Holder, StillMoves DEF leaseVars
    <2>2. Fits(r, "failed")
      BY <2>1, <1>1, CalledFits, Zenon DEF Moves
    <2> QED
      BY <2>2, <1>1, <1>4, StillStep
  <1> QED
    BY <1>3, <1>4 DEF CompleteFailed, Transaction

LEMMA VerifyStep == ASSUME Inv, NEW r \in Runs, Verify(r) PROVE Inv'
  <1>1. /\ pc[r] = "verify" /\ pc[r] \in Holding /\ pc[r] \notin Reserving /\ pc[r] \in Started
        /\ UNCHANGED <<leaseVars, ledgerVars, plan, at, held, result, calls>>
        /\ node' = node /\ attempts' = attempts /\ reservations' = reservations
    BY DEF Verify, Holding, Started, Reserving, leaseVars, ledgerVars
  <1>2. PICK l \in {"succeeded", "failed"} :
           Goto(r, l) /\ (l = "succeeded" => node[at[r]].state = "SUCCEEDED")
    BY DEF Verify
  <1>3. /\ HasCalled(r) => reservations'[ReservationOf(r)].status \in {"OPEN", "SETTLED"}
        /\ ~plan[at[r]].retrySafe => attempts'[at[r]][held[r]].status # "ABANDONED"
    BY <1>1, Holder, Zenon DEF RunOK, RecordedOK, ReservationOK, Attempt
  <1>4. Fits(r, l)
    BY <1>1, <1>2, <1>3, Zenon
       DEF Fits, Pcs, Unclaimed, Ended, Holding, Started, Answered, AfterCall, Reserving
  <1> QED
    BY <1>1, <1>2, <1>4, StillStep, ZenonT(30)
=============================================================================
