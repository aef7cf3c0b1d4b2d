------------------------ MODULE ExecutionWorkerProofs ------------------------
(***************************************************************************)
(* Proofs about the Execute activity: the steps of a run that write the      *)
(* budget ledger keep the invariant of ExecutionWorkerSteps, and so do the   *)
(* clock and the initial states; the theorems follow from it.                *)
(***************************************************************************)
EXTENDS ExecutionWorkerSteps, FiniteSetTheorems

-----------------------------------------------------------------------------
\* The ledger.  One unit of NodeAttempts is reserved and, when settled, consumed.

LEMMA Units ==
    /\ Estimate \in [Dimensions -> Nat] /\ Actual \in [Dimensions -> Nat]
    /\ Budget!Zero \in [Dimensions -> Nat]
    /\ Estimate["NodeAttempts"] = 1 /\ Actual["NodeAttempts"] = 1
  BY WorkerConstants DEF Estimate, Actual, Budget!Zero

\* A call on the reservation of run r keeps the ledger's invariant when the new
\* row, counters and counted reservations agree, and the run goes on to l.
LEMMA OneReservation ==
    ASSUME Inv, NEW r \in Runs, pc[r] \in Holding, NEW l, Goto(r, l),
           UNCHANGED <<at, held>>, NEW row \in ReservationRows,
           reservations' = [reservations EXCEPT ![ReservationOf(r)] = row],
           row.status = "OPEN" => row.estimate = Estimate /\ l \in Reserving \cup {"crashed"},
           IsFiniteSet(Counted'),
           reserved'["NodeAttempts"] + consumed'["NodeAttempts"] = Cardinality(Counted'),
           Limit["NodeAttempts"] > 0 =>
              reserved'["NodeAttempts"] + consumed'["NodeAttempts"] <= Limit["NodeAttempts"]
    PROVE  LedgerInv'
  <1>1. /\ reservations \in [ReservationIds -> ReservationRows]
        /\ ReservationOf(r) \in ReservationIds /\ pc \in [Runs -> Pcs] /\ LedgerInv
    BY Holder, Zenon DEF Inv, RunTypeOK
  <1>2. /\ reservations'[ReservationOf(r)] = row
        /\ \A id \in ReservationIds :
              id # ReservationOf(r) => reservations'[id] = reservations[id]
    BY <1>1
  <1>3. \A q \in Runs : ReservationOf(q)' = ReservationOf(q)
    BY DEF ReservationOf
  <1>4. pc'[r] = l /\ \A q \in Runs : q # r => pc'[q] = pc[q]
    BY <1>1 DEF Goto
  <1>5. Estimate' = Estimate
    BY DEF Estimate
  <1>6. ASSUME NEW id \in ReservationIds, reservations'[id].status = "OPEN"
        PROVE  /\ reservations'[id].estimate = Estimate
               /\ \E q \in Runs : /\ ReservationOf(q) = id
                                  /\ pc'[q] \in Reserving \cup {"crashed"}
    <2>1. CASE id = ReservationOf(r)
      BY <2>1, <1>2, <1>4, <1>6
    <2>2. CASE id # ReservationOf(r)
      <3>1. reservations[id].status = "OPEN" /\ reservations'[id] = reservations[id]
        BY <2>2, <1>2, <1>6
      <3>2. reservations[id].estimate = Estimate
        BY <3>1, <1>1 DEF LedgerInv
      <3>3. PICK q \in Runs : ReservationOf(q) = id /\ pc[q] \in Reserving \cup {"crashed"}
        BY <3>1, <1>1 DEF LedgerInv
      <3>4. pc'[q] = pc[q]
        BY <3>3, <2>2, <1>4
      <3> QED
        BY <3>1, <3>2, <3>3, <3>4
    <2> QED
      BY <2>1, <2>2
  <1>7. (\A id \in ReservationIds :
          reservations[id].status = "OPEN" =>
              /\ reservations[id].estimate = Estimate
              /\ \E q \in Runs : /\ ReservationOf(q) = id
                                 /\ pc[q] \in Reserving \cup {"crashed"})'
    BY <1>3, <1>5, <1>6
  <1> QED
    BY <1>7, Zenon DEF LedgerInv

\* A step of run r that only calls the ledger, on its own reservation.
LEMMA LedgerStep ==
    ASSUME Inv, NEW r \in Runs, pc[r] \in Holding, NEW l, Fits(r, l), Goto(r, l),
           UNCHANGED <<leaseVars, plan, at, held, result, calls>>,
           reserved' \in [Dimensions -> Int], consumed' \in [Dimensions -> Int],
           NEW row \in ReservationRows,
           reservations' = [reservations EXCEPT ![ReservationOf(r)] = row],
           LedgerInv'
    PROVE  Inv'
  <1>1. /\ LP!IInv /\ NodesInv /\ RunTypeOK /\ RunsInv /\ OneHolder
        /\ reservations \in [ReservationIds -> ReservationRows] /\ pc \in [Runs -> Pcs]
        /\ ReservationOf(r) \in ReservationIds
    BY Holder, Zenon DEF Inv, RunTypeOK
  <1>2. /\ node' = node /\ attempts' = attempts /\ UNCHANGED <<plan, at, held, result, calls>>
    BY DEF leaseVars
  <1>3. LP!IInv' /\ Moves
    BY <1>1, <1>2, LeaseStutter, StillMoves
  <1>4. /\ \A n \in Nodes : RowsKept(n) /\ NotSucceeded(n)
        /\ \A n \in Nodes : \A k \in DOMAIN attempts[n] : Spared(n, k)
    BY <1>3 DEF Moves, AllSpared
  <1>5. /\ reservations' \in [ReservationIds -> ReservationRows]
        /\ \A id \in ReservationIds :
              id # ReservationOf(r) => reservations'[id].status = reservations[id].status
    BY <1>1
  <1>6. RunsInv' /\ OneHolder'
    BY <1>1, <1>2, <1>4, <1>5, RunsKept
  <1>7. \A q \in Runs : HasCalled(q)' <=> HasCalled(q)
    BY <1>2, SameCalls, Zenon
  <1>8. NodesInv'
    BY <1>1, <1>2, <1>4, <1>7, NodesKept
  <1>9. RunTypeOK'
    <2>1. pc' \in [Runs -> Pcs]
      BY <1>1, Zenon DEF Goto, Fits
    <2>2. \A q \in Runs : CallOf(q)' = CallOf(q)
      BY <1>2 DEF CallOf
    <2>3. {CallOf(q) : q \in Runs}' = {CallOf(q) : q \in Runs}
      BY <2>2
    <2> QED
      BY <2>1, <2>3, <1>1, <1>2, <1>5, Zenon DEF RunTypeOK
  <1> QED
    BY <1>3, <1>6, <1>8, <1>9 DEF Inv

LEMMA ReserveLedger ==
    ASSUME Inv, NEW r \in Runs, pc[r] \in Holding, Budget!Reserve(ReservationOf(r), Estimate),
           Goto(r, "start"), UNCHANGED <<at, held>>
    PROVE  /\ LedgerInv' /\ reserved' \in [Dimensions -> Int] /\ consumed' \in [Dimensions -> Int]
           /\ \E row \in ReservationRows :
                 /\ row.status = "OPEN"
                 /\ reservations' = [reservations EXCEPT ![ReservationOf(r)] = row]
  <1> DEFINE id == ReservationOf(r)
             row == [status |-> "OPEN", estimate |-> Estimate, actual |-> Budget!Zero]
  <1>1. /\ reservations \in [ReservationIds -> ReservationRows] /\ id \in ReservationIds
        /\ reserved \in [Dimensions -> Int] /\ consumed \in [Dimensions -> Int] /\ LedgerInv
    BY Holder, Zenon DEF Inv, RunTypeOK
  <1>2. row \in ReservationRows /\ row.status = "OPEN" /\ row.estimate = Estimate
    BY Units DEF ReservationRows
  <1>3. /\ reservations[id].status = "NONE"
        /\ reservations' = [reservations EXCEPT ![id] = row]
        /\ reserved' = Budget!Plus(reserved, Estimate) /\ consumed' = consumed
        /\ Budget!WithinLimit(Budget!Plus(Budget!Plus(reserved, consumed), Estimate))
    BY DEF Budget!Reserve, Budget!Reservable
  <1> HIDE DEF id, row
  <1>4. /\ reserved' \in [Dimensions -> Int] /\ consumed' \in [Dimensions -> Int]
        /\ reserved'["NodeAttempts"] = reserved["NodeAttempts"] + 1
        /\ consumed'["NodeAttempts"] = consumed["NodeAttempts"]
    BY <1>1, <1>3, Units, WorkerConstants DEF Budget!Plus
  <1>5. Limit["NodeAttempts"] > 0 =>
           reserved'["NodeAttempts"] + consumed'["NodeAttempts"] <= Limit["NodeAttempts"]
    BY <1>1, <1>3, <1>4, Units, WorkerConstants DEF Budget!Plus, Budget!WithinLimit
  <1>6. Counted' = Counted \cup {id} /\ id \notin Counted
    BY <1>1, <1>2, <1>3 DEF Counted
  <1>7. /\ IsFiniteSet(Counted)
        /\ reserved["NodeAttempts"] + consumed["NodeAttempts"] = Cardinality(Counted)
    BY <1>1 DEF LedgerInv
  <1>8. IsFiniteSet(Counted') /\ Cardinality(Counted') = Cardinality(Counted) + 1
    BY <1>6, <1>7, FS_AddElement
  <1>9. reserved'["NodeAttempts"] + consumed'["NodeAttempts"] = Cardinality(Counted')
    <2>1. reserved["NodeAttempts"] \in Int /\ consumed["NodeAttempts"] \in Int
      BY <1>1, WorkerConstants
    <2> QED
      BY <2>1, <1>4, <1>7, <1>8
  <1>10. "start" \in Reserving \cup {"crashed"}
    BY DEF Reserving
  <1>11. LedgerInv'
    BY <1>2, <1>3, <1>5, <1>8, <1>9, <1>10, OneReservation, Zenon DEF id
  <1> QED
    BY <1>2, <1>3, <1>4, <1>11, Zenon DEF id

LEMMA SettleLedger ==
    ASSUME Inv, NEW r \in Runs, pc[r] \in Holding, Budget!Settle(ReservationOf(r), Actual),
           NEW l, Goto(r, l), UNCHANGED <<at, held>>
    PROVE  /\ LedgerInv' /\ reserved' \in [Dimensions -> Int] /\ consumed' \in [Dimensions -> Int]
           /\ \E row \in ReservationRows :
                 /\ row.status = "SETTLED"
                 /\ reservations' = [reservations EXCEPT ![ReservationOf(r)] = row]
  <1> DEFINE id == ReservationOf(r)
             row == [reservations[id] EXCEPT !.status = "SETTLED", !.actual = Actual]
  <1>1. /\ reservations \in [ReservationIds -> ReservationRows] /\ id \in ReservationIds
        /\ reserved \in [Dimensions -> Int] /\ consumed \in [Dimensions -> Int] /\ LedgerInv
    BY Holder, Zenon DEF Inv, RunTypeOK
  <1>2. row \in ReservationRows /\ row.status = "SETTLED"
    BY <1>1, Units, Zenon DEF ReservationRows
  <1>3. /\ reservations[id].status = "OPEN"
        /\ reservations' = [reservations EXCEPT ![id] = row]
        /\ reserved' = Budget!Minus(reserved, reservations[id].estimate)
        /\ consumed' = Budget!Plus(consumed, Actual)
    BY Zenon DEF Budget!Settle, Budget!Open
  <1>4. reservations[id].estimate = Estimate
    BY <1>1, <1>3 DEF LedgerInv
  <1> HIDE DEF id, row
  <1>5. /\ reserved' \in [Dimensions -> Int] /\ consumed' \in [Dimensions -> Int]
        /\ reserved'["NodeAttempts"] = reserved["NodeAttempts"] - 1
        /\ consumed'["NodeAttempts"] = consumed["NodeAttempts"] + 1
    BY <1>1, <1>3, <1>4, Units, WorkerConstants DEF Budget!Plus, Budget!Minus
  <1>6. Counted' = Counted
    BY <1>1, <1>2, <1>3 DEF Counted
  <1>7. reserved'["NodeAttempts"] + consumed'["NodeAttempts"]
           = reserved["NodeAttempts"] + consumed["NodeAttempts"]
    <2>1. reserved["NodeAttempts"] \in Int /\ consumed["NodeAttempts"] \in Int
      BY <1>1, WorkerConstants
    <2> QED
      BY <2>1, <1>5
  <1>8. /\ IsFiniteSet(Counted')
        /\ reserved'["NodeAttempts"] + consumed'["NodeAttempts"] = Cardinality(Counted')
        /\ Limit["NodeAttempts"] > 0 =>
              reserved'["NodeAttempts"] + consumed'["NodeAttempts"] <= Limit["NodeAttempts"]
    BY <1>1, <1>6, <1>7 DEF LedgerInv
  <1>9. LedgerInv'
    BY <1>2, <1>3, <1>8, OneReservation, Zenon DEF id
  <1> QED
    BY <1>2, <1>3, <1>5, <1>9, Zenon DEF id

LEMMA ReleaseLedger ==
    ASSUME Inv, NEW r \in Runs, pc[r] \in Holding, Budget!Release(ReservationOf(r)),
           NEW l, Goto(r, l), UNCHANGED <<at, held>>
    PROVE  /\ LedgerInv' /\ reserved' \in [Dimensions -> Int] /\ consumed' \in [Dimensions -> Int]
           /\ \E row \in ReservationRows :
                 /\ row.status = "RELEASED"
                 /\ reservations' = [reservations EXCEPT ![ReservationOf(r)] = row]
  <1> DEFINE id == ReservationOf(r)
             row == [reservations[id] EXCEPT !.status = "RELEASED"]
  <1>1. /\ reservations \in [ReservationIds -> ReservationRows] /\ id \in ReservationIds
        /\ reserved \in [Dimensions -> Int] /\ consumed \in [Dimensions -> Int] /\ LedgerInv
    BY Holder, Zenon DEF Inv, RunTypeOK
  <1>2. row \in ReservationRows /\ row.status = "RELEASED"
    BY <1>1 DEF ReservationRows
  <1>3. /\ reservations[id].status = "OPEN"
        /\ reservations' = [reservations EXCEPT ![id] = row]
        /\ reserved' = Budget!Minus(reserved, reservations[id].estimate)
        /\ consumed' = consumed
    BY DEF Budget!Release, Budget!Open
  <1>4. reservations[id].estimate = Estimate
    BY <1>1, <1>3 DEF LedgerInv
  <1> HIDE DEF id, row
  <1>5. /\ reserved' \in [Dimensions -> Int] /\ consumed' \in [Dimensions -> Int]
        /\ reserved'["NodeAttempts"] = reserved["NodeAttempts"] - 1
        /\ consumed'["NodeAttempts"] = consumed["NodeAttempts"]
    BY <1>1, <1>3, <1>4, Units, WorkerConstants DEF Budget!Minus
  <1>6. Counted' = Counted \ {id} /\ id \in Counted
    BY <1>1, <1>2, <1>3 DEF Counted
  <1>7. /\ IsFiniteSet(Counted)
        /\ reserved["NodeAttempts"] + consumed["NodeAttempts"] = Cardinality(Counted)
        /\ Limit["NodeAttempts"] > 0 =>
              reserved["NodeAttempts"] + consumed["NodeAttempts"] <= Limit["NodeAttempts"]
    BY <1>1 DEF LedgerInv
  <1>8. IsFiniteSet(Counted') /\ Cardinality(Counted') = Cardinality(Counted) - 1
    BY <1>6, <1>7, FS_RemoveElement
  <1>9. /\ reserved'["NodeAttempts"] + consumed'["NodeAttempts"] = Cardinality(Counted')
        /\ Limit["NodeAttempts"] > 0 =>
              reserved'["NodeAttempts"] + consumed'["NodeAttempts"] <= Limit["NodeAttempts"]
    <2>1. /\ reserved["NodeAttempts"] \in Int /\ consumed["NodeAttempts"] \in Int
          /\ Limit["NodeAttempts"] \in Nat
      BY <1>1, WorkerConstants
    <2> QED
      BY <2>1, <1>5, <1>7, <1>8
  <1>10. LedgerInv'
    BY <1>2, <1>3, <1>8, <1>9, OneReservation, Zenon DEF id
  <1> QED
    BY <1>2, <1>3, <1>5, <1>10, Zenon DEF id

LEMMA ReserveStep == ASSUME Inv, NEW r \in Runs, Reserve(r) PROVE Inv'
  <1>1. /\ pc[r] = "reserve" /\ pc[r] \in Holding /\ pc[r] \notin AfterCall
        /\ pc[r] \notin Reserving
        /\ UNCHANGED <<leaseVars, plan, at, held, result, calls>>
    BY DEF Reserve, Holding, AfterCall, Answered, Reserving
  <1>2. ~HasCalled(r) /\ held[r] # 0
    BY <1>1, Holder, NotCalled
  <1>3. CASE Budget!Reserve(ReservationOf(r), Estimate) /\ Goto(r, "start")
    <2>1. /\ LedgerInv' /\ reserved' \in [Dimensions -> Int] /\ consumed' \in [Dimensions -> Int]
          /\ \E row \in ReservationRows :
                /\ row.status = "OPEN"
                /\ reservations' = [reservations EXCEPT ![ReservationOf(r)] = row]
      BY <1>1, <1>3, ReserveLedger
    <2>2. PICK row \in ReservationRows :
                /\ row.status = "OPEN"
                /\ reservations' = [reservations EXCEPT ![ReservationOf(r)] = row]
      BY <2>1, Zenon
    <2>3. reservations'[ReservationOf(r)].status = "OPEN"
      BY <2>2, <1>1, Holder, Zenon DEF RunTypeOK
    <2>4. Fits(r, "start")
      BY <2>3, <1>2
         DEF Fits, Pcs, Unclaimed, Ended, Holding, Started, Answered, AfterCall, Reserving
    <2> QED
      BY <2>1, <2>2, <2>4, <1>1, <1>3, LedgerStep, Zenon
  <1>4. CASE Goto(r, "release") /\ UNCHANGED ledgerVars
    <2>1. Fits(r, "release")
      BY <1>2 DEF Fits, Pcs, Unclaimed, Ended, Holding, Started, Answered, AfterCall, Reserving
    <2> QED
      BY <2>1, <1>1, <1>4, StillStep
  <1> QED
    BY <1>3, <1>4 DEF Reserve

LEMMA UnreserveStep == ASSUME Inv, NEW r \in Runs, Unreserve(r) PROVE Inv'
  <1>1. /\ pc[r] = "unreserve" /\ pc[r] \in Holding /\ pc[r] \notin AfterCall
        /\ Budget!Release(ReservationOf(r)) /\ Goto(r, "release")
        /\ UNCHANGED <<leaseVars, plan, at, held, result, calls>>
    BY DEF Unreserve, Holding, AfterCall, Answered
  <1>2. ~HasCalled(r) /\ held[r] # 0
    BY <1>1, Holder, NotCalled, Zenon
  <1>3. /\ LedgerInv' /\ reserved' \in [Dimensions -> Int] /\ consumed' \in [Dimensions -> Int]
        /\ \E row \in ReservationRows :
              /\ row.status = "RELEASED"
              /\ reservations' = [reservations EXCEPT ![ReservationOf(r)] = row]
    BY <1>1, ReleaseLedger
  <1>4. Fits(r, "release")
    BY <1>2 DEF Fits, Pcs, Unclaimed, Ended, Holding, Started, Answered, AfterCall, Reserving
  <1> QED
    BY <1>1, <1>3, <1>4, LedgerStep, Zenon

LEMMA SettleUncalledStep == ASSUME Inv, NEW r \in Runs, SettleUncalled(r) PROVE Inv'
  <1>1. /\ pc[r] = "settleUncalled" /\ pc[r] \in Holding /\ pc[r] \notin AfterCall
        /\ pc[r] \in Started /\ attempts' = attempts
        /\ Budget!Settle(ReservationOf(r), Actual) /\ Goto(r, "fail")
        /\ UNCHANGED <<leaseVars, plan, at, held, result, calls>>
    BY DEF SettleUncalled, Holding, AfterCall, Answered, Started, leaseVars
  <1>2. /\ ~HasCalled(r) /\ held[r] # 0 /\ attempts'[at[r]][held[r]].started
        /\ ~plan[at[r]].retrySafe => attempts'[at[r]][held[r]].status # "ABANDONED"
    BY <1>1, Holder, NotCalled, Zenon DEF RunOK, RecordedOK, Attempt
  <1>3. /\ LedgerInv' /\ reserved' \in [Dimensions -> Int] /\ consumed' \in [Dimensions -> Int]
        /\ \E row \in ReservationRows :
              /\ row.status = "SETTLED"
              /\ reservations' = [reservations EXCEPT ![ReservationOf(r)] = row]
    BY <1>1, SettleLedger
  <1>4. Fits(r, "fail")
    BY <1>2 DEF Fits, Pcs, Unclaimed, Ended, Holding, Started, Answered, AfterCall, Reserving
  <1> QED
    BY <1>1, <1>3, <1>4, LedgerStep, Zenon

LEMMA SettleStep == ASSUME Inv, NEW r \in Runs, Settle(r) PROVE Inv'
  <1>1. /\ pc[r] = "settle" /\ pc[r] \in Holding /\ pc[r] \in Answered
        /\ pc[r] \in Started /\ attempts' = attempts
        /\ Budget!Settle(ReservationOf(r), Actual)
        /\ UNCHANGED <<leaseVars, plan, at, held, result, calls>>
    BY Zenon DEF Settle, Holding, Answered, Started, leaseVars
  <1>2. PICK l \in {"complete", "fail", "markCommitted", "failed"} :
           /\ Goto(r, l)
           /\ l = "complete" => Succeeding(r)
           /\ l = "markCommitted" => Mutation(at[r]) /\ result[r].disposition = "COMMITTED"
    BY DEF Settle, OutcomeStep, Succeeding
  <1>3. /\ HasCalled(r) /\ held[r] # 0 /\ attempts'[at[r]][held[r]].started
        /\ ~plan[at[r]].retrySafe => attempts'[at[r]][held[r]].status # "ABANDONED"
    BY <1>1, Holder, Zenon DEF RunOK, RecordedOK, CallOK, Attempt
  <1>4. /\ LedgerInv' /\ reserved' \in [Dimensions -> Int] /\ consumed' \in [Dimensions -> Int]
        /\ \E row \in ReservationRows :
              /\ row.status = "SETTLED"
              /\ reservations' = [reservations EXCEPT ![ReservationOf(r)] = row]
    BY <1>1, <1>2, SettleLedger, Zenon
  <1>5. PICK row \in ReservationRows :
              /\ row.status = "SETTLED"
              /\ reservations' = [reservations EXCEPT ![ReservationOf(r)] = row]
    BY <1>4, Zenon
  <1>6. reservations'[ReservationOf(r)].status = "SETTLED"
    BY <1>5, <1>1, Holder, Zenon DEF RunTypeOK
  <1>7. Fits(r, l)
    BY <1>2, <1>3, <1>6
       DEF Fits, Pcs, Unclaimed, Ended, Holding, Started, Answered, AfterCall, Reserving
  <1> QED
    BY <1>1, <1>2, <1>4, <1>5, <1>7, LedgerStep, Zenon

-----------------------------------------------------------------------------
\* The call of the target: the only step that adds to calls.
LEMMA InvokeStep == ASSUME Inv, NEW r \in Runs, Invoke(r) PROVE Inv'
  <1>1. /\ pc[r] = "invoke" /\ pc[r] \in Holding /\ pc[r] \notin AfterCall
        /\ pc[r] \in Started /\ pc[r] \in Reserving /\ Goto(r, "settle")
        /\ UNCHANGED <<leaseVars, ledgerVars, plan, at, held>>
        /\ node' = node /\ attempts' = attempts
        /\ reserved' = reserved /\ consumed' = consumed /\ reservations' = reservations
    BY DEF Invoke, Holding, AfterCall, Answered, Started, Reserving, leaseVars, ledgerVars
  <1>2. PICK error \in Errors, disposition \in Dispositions :
           /\ result' = [result EXCEPT ![r] = [error |-> error, disposition |-> disposition]]
           /\ calls' = calls \cup {[node |-> at[r], attempt |-> held[r], run |-> r,
                                    error |-> error, disposition |-> disposition]}
    BY Zenon DEF Invoke, Dispositions
  <1>3. /\ LP!IInv /\ RunTypeOK /\ RunsInv /\ OneHolder /\ NodesInv /\ LedgerInv
        /\ RunOK(r) /\ at[r] \in Nodes /\ held[r] # 0 /\ pc \in [Runs -> Pcs]
        /\ result \in [Runs -> Results] /\ at \in [Runs -> Nodes]
    BY <1>1, Holder, Zenon DEF Inv, RunTypeOK
  <1>4. ~HasCalled(r)
    BY <1>1, NotCalled
  <1>5. /\ pc'[r] = "settle" /\ pc' \in [Runs -> Pcs]
        /\ \A q \in Runs : q # r => pc'[q] = pc[q]
    BY <1>1, <1>3 DEF Goto, Pcs, Holding, Started
  <1>6. /\ result' \in [Runs -> Results]
        /\ result'[r] = [error |-> error, disposition |-> disposition]
        /\ \A q \in Runs : q # r => result'[q] = result[q]
    BY <1>2, <1>3 DEF Results
  <1>7. CallOf(r)' = [node |-> at[r], attempt |-> held[r], run |-> r,
                      error |-> error, disposition |-> disposition]
    BY <1>1, <1>6 DEF CallOf
  <1>8. HasCalled(r)' /\ calls' = calls \cup {CallOf(r)'}
    BY <1>2, <1>7, Zenon DEF HasCalled
  <1>9. CallOf(r)'.run = r
    BY DEF CallOf
  <1>10. \A q \in Runs : q # r =>
            CallOf(q)' = CallOf(q) /\ (HasCalled(q)' <=> HasCalled(q))
    <2>1. \A q \in Runs : q # r => CallOf(q)' = CallOf(q) /\ CallOf(q).run = q
      BY <1>1, <1>6 DEF CallOf
    <2> QED
      BY <2>1, <1>8, <1>9 DEF HasCalled
  <1>11. /\ \A n \in Nodes : RowsKept(n) /\ NotSucceeded(n)
         /\ \A n \in Nodes : \A k \in DOMAIN attempts[n] : Spared(n, k)
    BY <1>1, <1>3, StillMoves DEF Moves, AllSpared
  <1>12. LP!IInv'
    BY <1>1, <1>3, LeaseStutter
  <1>13. RunOK(r)'
    <2>1. HoldsOK(r)'
      BY <1>1, <1>3, <1>5, Zenon DEF RunOK, HoldsOK, Unclaimed
    <2>2. RecordedOK(r)'
      BY <1>1, <1>3, Zenon DEF RunOK, RecordedOK, Attempt, Mutation
    <2>3. CallOK(r)'
      BY <1>1, <1>3, <1>5, <1>8, Zenon DEF CallOK, Answered, AfterCall
    <2>4. ReservationOf(r)' = ReservationOf(r)
      BY <1>1 DEF ReservationOf
    <2>5. ReservationOK(r)'
      BY <2>4, <1>1, <1>3, Zenon DEF RunOK, ReservationOK
    <2> QED
      BY <2>1, <2>2, <2>3, <2>5, <1>5 DEF RunOK
  <1>14. ASSUME NEW q \in Runs, q # r
         PROVE  RunOK(q)'
    <2>1. RunOK(q) /\ RowsKept(at[q]) /\ at[q] \in Nodes
      BY <1>3, <1>11 DEF RunsInv
    <2>2. held[q] # 0 => Spared(at[q], held[q])
      BY <2>1, <1>11 DEF RunOK, HoldsOK
    <2> QED
      BY <2>1, <2>2, <1>1, <1>3, <1>5, <1>6, <1>10, <1>14, OtherRun
  <1>15. OneHolder'
    BY <1>1, <1>3 DEF OneHolder
  <1>16. NodesInv'
    <2>1. \A q \in Runs : HasCalled(q) =>
              HasCalled(q)' /\ held'[q] = held[q] /\ result'[q] = result[q]
      BY <1>1, <1>4, <1>6, <1>10, Zenon
    <2> QED
      BY <2>1, <1>1, <1>3, <1>11, NodesKept, Zenon
  <1>17. LedgerInv'
    <2>1. \A q \in Runs : ReservationOf(q)' = ReservationOf(q)
      BY <1>1, Zenon DEF ReservationOf
    <2> QED
      BY <2>1, <1>1, <1>3, LedgerKept DEF Reserving
  <1>18. RunTypeOK'
    <2>1. calls' \subseteq {CallOf(q) : q \in Runs}'
      <3>1. calls \subseteq {CallOf(q) : q \in Runs}
        BY <1>3 DEF RunTypeOK
      <3>2. \A c \in calls : \E q \in Runs : q # r /\ c = CallOf(q)
        BY <3>1, <1>4 DEF HasCalled
      <3> QED
        BY <3>2, <1>8, <1>10
    <2> QED
      BY <2>1, <1>1, <1>3, <1>5, <1>6, Zenon DEF RunTypeOK
  <1> QED
    BY <1>12, <1>13, <1>14, <1>15, <1>16, <1>17, <1>18 DEF Inv, RunsInv

-----------------------------------------------------------------------------
\* A step that leaves every run, its node and the ledger alone.
LEMMA IdleStep ==
    ASSUME Inv, LP!IInv',
           UNCHANGED <<node, attempts, reserved, consumed, reservations>>,
           UNCHANGED <<plan, pc, at, held, result, calls>>
    PROVE  Inv'
  <1>1. /\ LP!IInv /\ RunTypeOK /\ RunsInv /\ OneHolder /\ NodesInv /\ LedgerInv
        /\ at \in [Runs -> Nodes]
    BY DEF Inv, RunTypeOK
  <1>2. /\ UNCHANGED <<reserved, consumed, reservations, plan, pc, at, held, result, calls>>
        /\ node' = node /\ attempts' = attempts
    OBVIOUS
  <1>4. /\ \A n \in Nodes : RowsKept(n) /\ NotSucceeded(n)
        /\ \A n \in Nodes : \A k \in DOMAIN attempts[n] : Spared(n, k)
    BY <1>1, <1>2, StillMoves DEF Moves, AllSpared
  <1>5. \A q \in Runs : HasCalled(q)' <=> HasCalled(q)
    BY <1>2, SameCalls
  <1>6. ASSUME NEW q \in Runs
        PROVE  RunOK(q)'
    <2>1. RunOK(q) /\ RowsKept(at[q]) /\ at[q] \in Nodes
      BY <1>1, <1>4 DEF RunsInv
    <2>2. held[q] # 0 => Spared(at[q], held[q])
      BY <2>1, <1>4 DEF RunOK, HoldsOK
    <2> QED
      BY <2>1, <2>2, <1>1, <1>2, <1>5, OtherRun
  <1>7. OneHolder'
    BY <1>1, <1>2 DEF OneHolder
  <1>8. NodesInv'
    BY <1>1, <1>2, <1>4, <1>5, NodesKept, Zenon
  <1>9. LedgerInv'
    <2>1. (\A q \in Runs : ReservationOf(q)' = ReservationOf(q)) /\ Counted' = Counted
          /\ Estimate' = Estimate
      BY <1>2 DEF ReservationOf, Counted, Estimate
    <2> QED
      BY <2>1, <1>1, <1>2, Zenon DEF LedgerInv
  <1>10. RunTypeOK'
    <2>1. \A q \in Runs : CallOf(q)' = CallOf(q)
      BY <1>2 DEF CallOf
    <2>2. {CallOf(q) : q \in Runs}' = {CallOf(q) : q \in Runs}
      BY <2>1
    <2> QED
      BY <2>2, <1>1, <1>2, Zenon DEF RunTypeOK
  <1> QED
    BY <1>6, <1>7, <1>8, <1>9, <1>10 DEF Inv, RunsInv

\* The clock advances; no run does.
LEMMA TickStep == ASSUME Inv, Tick PROVE Inv'
  <1>1. LP!Next
    BY DEF Tick, Lease!Tick, LP!Tick, LP!Next
  <1>2. LP!IInv'
    BY <1>1, LeaseStep DEF Inv
  <1>3. /\ UNCHANGED <<node, attempts, reserved, consumed, reservations>>
        /\ UNCHANGED <<plan, pc, at, held, result, calls>>
    BY DEF Tick, Lease!Tick, ledgerVars, runVars
  <1> QED
    BY <1>2, <1>3, IdleStep

LEMMA InitInv == Init => Inv
  <1> SUFFICES ASSUME Init PROVE Inv
    OBVIOUS
  <1>1. LP!IInv
    BY LeaseInit DEF Init
  <1>2. /\ pc = [r \in Runs |-> "idle"] /\ at \in [Runs -> Nodes] /\ held = [r \in Runs |-> 0]
        /\ result = [r \in Runs |-> NoResult] /\ calls = {} /\ plan \in [Nodes -> EffectSpecs]
        /\ node = [n \in Nodes |-> [state |-> "ABSENT", effect |-> "PURE", retrySafe |-> FALSE,
                     attemptNumber |-> 0, fence |-> 0,
                     owner |-> NoOwner, token |-> 0, claimedAt |-> 0, expiresAt |-> 0,
                     effectStarted |-> FALSE, effectCommitted |-> FALSE]]
    BY Zenon DEF Init, Lease!Init
  <1>3. /\ reserved = Budget!Zero /\ consumed = Budget!Zero
        /\ reservations = [id \in ReservationIds |->
                             [status |-> "NONE", estimate |-> Budget!Zero, actual |-> Budget!Zero]]
    BY Zenon DEF Init, Budget!BudgetInit, ReservationIds
  <1>4. RunTypeOK
    <2>1. NoResult \in Results /\ "idle" \in Pcs
      BY DEF NoResult, Results, Errors, Dispositions, Pcs, Unclaimed
    <2>2. [status |-> "NONE", estimate |-> Budget!Zero, actual |-> Budget!Zero] \in ReservationRows
      BY Units DEF ReservationRows
    <2>3. reserved \in [Dimensions -> Int] /\ consumed \in [Dimensions -> Int]
      BY <1>3 DEF Budget!Zero
    <2>4. reservations \in [ReservationIds -> ReservationRows]
      BY <2>2, <1>3, Zenon
    <2>5. pc \in [Runs -> Pcs] /\ held \in [Runs -> Nat] /\ result \in [Runs -> Results]
      BY <2>1, <1>2
    <2> QED
      BY <2>3, <2>4, <2>5, <1>2, Zenon DEF RunTypeOK
  <1>5. ASSUME NEW r \in Runs
        PROVE  RunOK(r)
    <2>1. pc[r] = "idle" /\ held[r] = 0 /\ ~HasCalled(r)
      BY <1>2 DEF HasCalled
    <2> QED
      BY <2>1, Zenon DEF RunOK, HoldsOK, RecordedOK, CallOK, ReservationOK, Unclaimed, Holding,
                  Started, Answered, Reserving
  <1>6. OneHolder
    BY <1>2 DEF OneHolder
  <1>7. NodesInv
    BY <1>2 DEF NodesInv, NodeOK
  <1>8. LedgerInv
    <2>1. Counted = {} /\ \A id \in ReservationIds : reservations[id].status = "NONE"
      BY <1>3 DEF Counted
    <2>2. reserved["NodeAttempts"] = 0 /\ consumed["NodeAttempts"] = 0
      BY <1>3, WorkerConstants DEF Budget!Zero
    <2>3. Limit["NodeAttempts"] \in Nat
      BY WorkerConstants
    <2> QED
      BY <2>1, <2>2, <2>3, FS_EmptySet DEF LedgerInv
  <1> QED
    BY <1>1, <1>4, <1>5, <1>6, <1>7, <1>8 DEF Inv, RunsInv

\* Every step of every run keeps the invariant.
LEMMA NextInv == Inv /\ [Next]_vars => Inv'
  <1> SUFFICES ASSUME Inv, [Next]_vars PROVE Inv'
    OBVIOUS
  <1>1. CASE UNCHANGED vars
    <2>1. /\ UNCHANGED <<leaseVars, clock, node, attempts, reserved, consumed, reservations>>
          /\ UNCHANGED <<plan, pc, at, held, result, calls>>
      BY <1>1 DEF vars, leaseVars, ledgerVars, runVars
    <2>2. LP!IInv'
      BY <2>1, LeaseStutter DEF Inv
    <2> QED
      BY <2>1, <2>2, IdleStep
  <1>2. CASE Tick
    BY <1>2, TickStep
  <1>3. ASSUME NEW r \in Runs, RunStep(r) \/ Crash(r)
        PROVE  Inv'
    BY <1>3, StartStep, GetRuntimeStep, RegisterStep, PrepareRetryStep, RequeueStep,
       ReloadRequeuedStep, ClaimStep, ReserveStep, StartAttemptStep, UnreserveStep,
       ReleaseLeaseStep, MarkStartedStep, SettleUncalledStep, InvokeStep, SettleStep,
       MarkCommittedStep, CompleteSucceededStep, CompleteFailedStep, VerifyStep, CrashStep
       DEF RunStep
  <1> QED
    BY <1>1, <1>2, <1>3 DEF Next

-----------------------------------------------------------------------------
\* A call is the call of one run, with the lease it holds and the answer it got.
LEMMA CallIsOfRun ==
    ASSUME Inv, NEW c \in calls
    PROVE  \E r \in Runs : /\ c = CallOf(r) /\ HasCalled(r) /\ RunOK(r)
                           /\ at[r] \in Nodes /\ held[r] # 0
                           /\ c.run = r /\ c.node = at[r] /\ c.attempt = held[r]
                           /\ c.error = result[r].error
                           /\ c.disposition = result[r].disposition
  <1>1. PICK r \in Runs : c = CallOf(r)
    BY DEF Inv, RunTypeOK
  <1>2. HasCalled(r) /\ RunOK(r) /\ at[r] \in Nodes
    BY <1>1 DEF HasCalled, Inv, RunsInv, RunTypeOK
  <1>3. held[r] # 0
    BY <1>2 DEF RunOK, CallOK
  <1> QED
    BY <1>1, <1>2, <1>3 DEF CallOf

\* Calls with the same lease are one call.
LEMMA OneCallPerLease ==
    ASSUME Inv, NEW c \in calls, NEW d \in calls, c.node = d.node, c.attempt = d.attempt
    PROVE  c = d
  <1>1. PICK r \in Runs : c = CallOf(r) /\ held[r] # 0 /\ c.node = at[r] /\ c.attempt = held[r]
    BY CallIsOfRun
  <1>2. PICK q \in Runs : d = CallOf(q) /\ held[q] # 0 /\ d.node = at[q] /\ d.attempt = held[q]
    BY CallIsOfRun
  <1>3. q = r
    BY <1>1, <1>2 DEF Inv, OneHolder
  <1> QED
    BY <1>1, <1>2, <1>3

\* Of a node that is not retry-safe only the newest attempt can have been called.
LEMMA UnsafeCallIsNewest ==
    ASSUME Inv, NEW n \in Nodes, ~plan[n].retrySafe, NEW c \in CallsOf(n)
    PROVE  c.attempt = Len(attempts[n])
  <1>1. PICK r \in Runs : /\ HasCalled(r) /\ RunOK(r) /\ held[r] # 0
                          /\ n = at[r] /\ c.attempt = held[r]
    BY CallIsOfRun DEF CallsOf
  <1>2. /\ held[r] \in DOMAIN attempts[n]
        /\ attempts[n][held[r]].status # "ABANDONED"
    BY <1>1 DEF RunOK, HoldsOK, RecordedOK, Attempt
  <1>3. /\ attempts[n] \in Seq(LP!AttemptRow)
        /\ \A k \in DOMAIN attempts[n] :
              (~node[n].retrySafe /\ k < Len(attempts[n])) =>
                  attempts[n][k].status = "ABANDONED"
    BY LeaseRows DEF Inv
  <1>4. node[n].state # "ABSENT"
    <2>1. LP!ClaimableHistory(node[n], attempts[n])
      BY Zenon DEF Inv, LP!IInv, LP!RowInv
    <2>2. node[n].state = "ABSENT" => Len(attempts[n]) = 0
      BY <2>1, Zenon DEF LP!ClaimableHistory
    <2> QED
      BY <2>2, <1>2, <1>3
  <1>5. ~node[n].retrySafe
    BY <1>4 DEF Inv, NodesInv, NodeOK
  <1>6. ~(held[r] < Len(attempts[n]))
    BY <1>2, <1>3, <1>5
  <1>7. held[r] \in 1..Len(attempts[n]) /\ Len(attempts[n]) \in Nat
    BY <1>2, <1>3
  <1> QED
    BY <1>1, <1>6, <1>7

LEMMA UnsafeOnce == ASSUME Inv PROVE UnsafeNodeCalledOnce
  <1> SUFFICES ASSUME NEW n \in Nodes, ~plan[n].retrySafe
               PROVE  Cardinality(CallsOf(n)) <= 1
    BY DEF UnsafeNodeCalledOnce
  <1>1. CASE CallsOf(n) = {}
    BY <1>1, FS_EmptySet
  <1>2. ASSUME NEW c \in CallsOf(n)
        PROVE  Cardinality(CallsOf(n)) <= 1
    <2>1. ASSUME NEW d \in CallsOf(n)
          PROVE  d = c
      <3>1. c.attempt = d.attempt
        BY <1>2, <2>1, UnsafeCallIsNewest
      <3>2. c \in calls /\ d \in calls /\ c.node = d.node
        BY <1>2, <2>1 DEF CallsOf
      <3> QED
        BY <3>1, <3>2, OneCallPerLease
    <2>2. CallsOf(n) = {c}
      BY <1>2, <2>1
    <2> QED
      BY <2>2, FS_Singleton
  <1> QED
    BY <1>1, <1>2

LEMMA Recorded == ASSUME Inv PROVE CallsAreRecorded
  <1> SUFFICES ASSUME NEW c \in calls
               PROVE  /\ attempts[c.node][c.attempt].started
                      /\ Mutation(c.node) => attempts[c.node][c.attempt].effectStarted
    BY DEF CallsAreRecorded
  <1>1. PICK r \in Runs : /\ HasCalled(r) /\ RunOK(r)
                          /\ c.node = at[r] /\ c.attempt = held[r]
    BY CallIsOfRun
  <1> QED
    BY <1>1 DEF RunOK, RecordedOK, Attempt

\* A call is of a reservation that counts.
LEMMA CallIsCounted ==
    ASSUME Inv, NEW c \in calls
    PROVE  /\ <<c.node, c.attempt>> \in Counted
           /\ reservations[<<c.node, c.attempt>>].status \in {"OPEN", "SETTLED"}
  <1>1. PICK r \in Runs : /\ HasCalled(r) /\ RunOK(r) /\ held[r] # 0 /\ at[r] \in Nodes
                          /\ c.node = at[r] /\ c.attempt = held[r]
    BY CallIsOfRun
  <1>2. attempts[at[r]] \in Seq(LP!AttemptRow)
    BY <1>1, LeaseRows DEF Inv
  <1>3. held[r] \in DOMAIN attempts[at[r]] /\ held[r] <= MaxAttempts /\ MaxAttempts \in Nat
    BY <1>1, WorkerConstants DEF RunOK, HoldsOK
  <1>4. held[r] \in 1..MaxAttempts
    BY <1>2, <1>3
  <1>5. reservations[ReservationOf(r)].status \in {"OPEN", "SETTLED"}
    BY <1>1 DEF RunOK, ReservationOK
  <1>6. ReservationOf(r) = <<c.node, c.attempt>>
    BY <1>1 DEF ReservationOf
  <1> QED
    BY <1>1, <1>4, <1>5, <1>6 DEF Counted, ReservationIds

LEMMA WithinBudget == ASSUME Inv PROVE CallsWithinBudget
  <1> SUFFICES ASSUME Limit["NodeAttempts"] > 0
               PROVE  Cardinality(calls) <= Limit["NodeAttempts"]
    BY DEF CallsWithinBudget
  <1> DEFINE f == [c \in calls |-> <<c.node, c.attempt>>]
  <1>1. f \in Injection(calls, Counted)
    <2>1. f \in [calls -> Counted]
      BY CallIsCounted
    <2>2. ASSUME NEW c \in calls, NEW d \in calls, f[c] = f[d]
          PROVE  c = d
      <3>1. c.node = d.node /\ c.attempt = d.attempt
        BY <2>2
      <3> QED
        BY <3>1, OneCallPerLease
    <2> HIDE DEF f
    <2> QED
      BY <2>1, <2>2 DEF Injection, IsInjective
  <1>2. /\ IsFiniteSet(Counted)
        /\ Cardinality(Counted) <= Limit["NodeAttempts"]
    BY DEF Inv, LedgerInv
  <1>3. IsFiniteSet(calls) /\ Cardinality(calls) <= Cardinality(Counted)
    <2> HIDE DEF f
    <2> QED
      BY <1>1, <1>2, FS_Injection
  <1>4. Cardinality(calls) \in Nat /\ Cardinality(Counted) \in Nat /\ Limit["NodeAttempts"] \in Nat
    BY <1>2, <1>3, FS_CardinalityType, WorkerConstants
  <1> QED
    BY <1>2, <1>3, <1>4

LEMMA LeaksByCrash == ASSUME Inv PROVE OnlyCrashesLeakBudget
  <1>1. DOMAIN reservations = ReservationIds
    BY DEF Inv, RunTypeOK
  <1> QED
    BY <1>1, CallIsCounted DEF OnlyCrashesLeakBudget, Inv, LedgerInv

LEMMA Reported == ASSUME Inv PROVE SuccessWasReported
  <1> SUFFICES ASSUME NEW n \in Nodes, node[n].state = "SUCCEEDED"
               PROVE  \E c \in CallsOf(n) : /\ c.attempt = Len(attempts[n])
                                            /\ c.error = "none"
                                            /\ Mutation(n) => c.disposition = "COMMITTED"
    BY DEF SuccessWasReported
  <1>1. PICK r \in Runs : at[r] = n /\ HasCalled(r) /\ Succeeding(r) /\ held[r] = Len(attempts[n])
    BY DEF Inv, NodesInv, NodeOK
  <1>2. CallOf(r) \in CallsOf(n)
    BY <1>1 DEF HasCalled, CallsOf, CallOf
  <1>3. /\ CallOf(r).attempt = Len(attempts[n]) /\ CallOf(r).error = "none"
        /\ Mutation(n) => CallOf(r).disposition = "COMMITTED"
    BY <1>1 DEF CallOf, Succeeding
  <1> QED
    BY <1>2, <1>3

LEMMA SuccessStays == ASSUME Inv PROVE ReportedSuccessHolds
  BY DEF Inv, RunsInv, RunOK, ReportedSuccessHolds

-----------------------------------------------------------------------------
\* The invariant that ties every run to the attempt and the reservation it holds
\* holds in every behaviour of the Execute activity.
THEOREM InvHolds == Spec => []Inv
  BY InitInv, NextInv, PTL DEF Spec

\* However the runs of an activity, its retries and its crashes interleave with
\* the expiry of leases, the target of a node that is not retry-safe is called at
\* most once (PersistentWorker.Execute over the lease repository).
THEOREM UnsafeCalledOnce == Spec => []UnsafeNodeCalledOnce
  <1>1. Inv => UnsafeNodeCalledOnce
    BY UnsafeOnce
  <1> QED
    BY <1>1, InvHolds, PTL

\* Write-ahead: no target is called before its attempt, and for a mutation its
\* effect boundary, is recorded, and nothing unrecords it (StartAttempt and
\* MarkEffectStarted before the invoker in PersistentWorker.Execute).
THEOREM CallsRecorded == Spec => []CallsAreRecorded
  <1>1. Inv => CallsAreRecorded
    BY Recorded
  <1> QED
    BY <1>1, InvHolds, PTL

\* The reservations of one node attempt each bound the calls all runs make to
\* targets by the limit of the ledger (Reserve before StartAttempt).
THEOREM BudgetBoundsCalls == Spec => []CallsWithinBudget
  <1>1. Inv => CallsWithinBudget
    BY WithinBudget
  <1> QED
    BY <1>1, InvHolds, PTL

\* Every path of PersistentWorker.Execute that reserved budget settles or releases
\* it unless the process stops, and releases it only when the target was not called.
THEOREM LeaksOnlyByCrash == Spec => []OnlyCrashesLeakBudget
  <1>1. Inv => OnlyCrashesLeakBudget
    BY LeaksByCrash
  <1> QED
    BY <1>1, InvHolds, PTL

\* A node is completed as SUCCEEDED only on an answer of the target, without an
\* error and with the effect of a mutation reported committed, to the newest
\* attempt (the completion of PersistentWorker.Execute).
THEOREM SuccessReported == Spec => []SuccessWasReported
  <1>1. Inv => SuccessWasReported
    BY Reported
  <1> QED
    BY <1>1, InvHolds, PTL

\* A run that answered success to the workflow, by its own completion or by
\* reading that of another run, answered about a node that stays SUCCEEDED.
THEOREM ReportedSuccessStays == Spec => []ReportedSuccessHolds
  <1>1. Inv => ReportedSuccessHolds
    BY SuccessStays
  <1> QED
    BY <1>1, InvHolds, PTL
=============================================================================
