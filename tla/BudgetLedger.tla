----------------------------- MODULE BudgetLedger -----------------------------
(***************************************************************************)
(* The execution budget of execution/budget.go: reservations made before an *)
(* attempt calls its target and settled or released afterwards.  Every      *)
(* method runs under one mutex, so every method is one action; Supervisor   *)
(* and ExecutionWorker are its callers.                                     *)
(*                                                                          *)
(* Cost is a float64 in the code and a natural number here; the other       *)
(* counters are integers in both.                                           *)
(***************************************************************************)
EXTENDS Integers, FiniteSetsExt

CONSTANTS
    Dimensions,    \* the counters of AccountingCounters that are accounted
    Limit,         \* BudgetLimit: Limit[d] = 0 leaves dimension d unlimited
    Reservations   \* reservation ids

ASSUME BudgetConstants == Limit \in [Dimensions -> Nat]

VARIABLES
    reserved,      \* BudgetState.Reserved
    consumed,      \* BudgetState.Consumed
    reservations,  \* the map of reservations, with the usage each was settled with
    overrun        \* history: usage settled beyond the estimates it was reserved for

budgetVars == <<reserved, consumed, reservations, overrun>>

-----------------------------------------------------------------------------
Zero == [d \in Dimensions |-> 0]

\* applyEstimate with sign 1 and with sign -1
Plus(c, v) == [d \in Dimensions |-> c[d] + v[d]]

Minus(c, v) == [d \in Dimensions |-> c[d] - v[d]]

\* Mutation: one unit above the limit is admitted.
WithinLimitOffByOne(c) == \A d \in Dimensions : Limit[d] > 0 => c[d] <= Limit[d] + 1

\* validateCountersAgainstLimit
WithinLimit(c) == \A d \in Dimensions : Limit[d] > 0 => c[d] <= Limit[d]

Excess(estimate, actual) ==
    [d \in Dimensions |-> IF actual[d] > estimate[d] THEN actual[d] - estimate[d] ELSE 0]

-----------------------------------------------------------------------------
BudgetInit ==
    /\ reserved = Zero
    /\ consumed = Zero
    /\ reservations = [id \in Reservations |->
                         [status |-> "NONE", estimate |-> Zero, actual |-> Zero]]
    /\ overrun = Zero

\* Mutation: an id that is already in the map is reserved again.
ReservableAgain(id) == TRUE

Reservable(id) == reservations[id].status = "NONE"

Reserve(id, estimate) ==
    /\ Reservable(id)
    /\ WithinLimit(Plus(Plus(reserved, consumed), estimate))
    /\ reservations' = [reservations EXCEPT ![id] =
                          [status |-> "OPEN", estimate |-> estimate, actual |-> Zero]]
    /\ reserved' = Plus(reserved, estimate)
    /\ UNCHANGED <<consumed, overrun>>

\* The reservation exists and is not closed.
Open(id) == reservations[id].status = "OPEN"

Settle(id, actual) ==
    /\ Open(id)
    /\ reserved' = Minus(reserved, reservations[id].estimate)
    /\ consumed' = Plus(consumed, actual)
    /\ reservations' = [reservations EXCEPT ![id].status = "SETTLED", ![id].actual = actual]
    /\ overrun' = Plus(overrun, Excess(reservations[id].estimate, actual))

Release(id) ==
    /\ Open(id)
    /\ reserved' = Minus(reserved, reservations[id].estimate)
    /\ reservations' = [reservations EXCEPT ![id].status = "RELEASED"]
    /\ UNCHANGED <<consumed, overrun>>

\* Exhausted()
Exhausted == ~WithinLimit(Plus(reserved, consumed))

\* Any caller.  Reserve and Settle refuse negative amounts.
BudgetNext ==
    \E id \in Reservations :
        \/ \E estimate \in [Dimensions -> Nat] : Reserve(id, estimate)
        \/ \E actual \in [Dimensions -> Nat] : Settle(id, actual)
        \/ Release(id)

BudgetSpec == BudgetInit /\ [][BudgetNext]_budgetVars

-----------------------------------------------------------------------------
InStatus(status) == {id \in Reservations : reservations[id].status = status}

\* The reserved counters are exactly the estimates of the open reservations:
\* whatever the order in which attempts settle and release, nothing is given back
\* twice and nothing stays reserved for a closed attempt.
ReservedIsOpenEstimates ==
    \A d \in Dimensions :
        reserved[d] = MapThenSumSet(LAMBDA id : reservations[id].estimate[d], InStatus("OPEN"))

\* The consumed counters are exactly the usage of the settled reservations: a
\* reservation is charged once, and a released one never.
ConsumedIsSettledActuals ==
    \A d \in Dimensions :
        consumed[d] = MapThenSumSet(LAMBDA id : reservations[id].actual[d], InStatus("SETTLED"))

\* Both: the counters are the sums of what their reservations say.
CountersAreSums == ReservedIsOpenEstimates /\ ConsumedIsSettledActuals

\* Settle accepts any usage, so a limit can be exceeded, but only by what attempts
\* used beyond their estimates: concurrent reservations together never admit more,
\* and Exhausted() is true only after such an overrun.
OverspendIsOverrun ==
    /\ \A d \in Dimensions :
          Limit[d] > 0 => reserved[d] + consumed[d] <= Limit[d] + overrun[d]
    /\ Exhausted => \E d \in Dimensions : overrun[d] > 0
=============================================================================
