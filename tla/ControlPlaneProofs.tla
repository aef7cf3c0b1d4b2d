------------------------- MODULE ControlPlaneProofs -------------------------
(***************************************************************************)
(* Proofs about the control plane's own path and the model runtime under   *)
(* it, for any executors, routers, models, administrators' changes and     *)
(* provider answers.  The invariant is that of the breakers and of the     *)
(* executions (RuntimeInv) with one predicate per routing request and one  *)
(* per executing request.  These say what the copy of the task that a      *)
(* request holds is worth while others save theirs.                        *)
(***************************************************************************)
EXTENDS ControlPlane, FiniteSetTheorems, TLAPS

\* Max of FiniteSetsExt, on an interval.
LEMMA MaxOf ==
    ASSUME NEW n \in Nat, NEW T \in SUBSET (1..n), T # {}
    PROVE  Max(T) \in T /\ \A y \in T : Max(T) >= y
  <1> DEFINE U == {n - y : y \in T}
  <1>1. U \subseteq Nat /\ U # {}
    <2>1. PICK y \in T : TRUE
      BY Zenon
    <2>2. \A z \in T : n - z \in Nat
      OBVIOUS
    <2> QED
      BY <2>1, <2>2
  <1>2. PICK u \in U : \A v \in U : u <= v
    <2> DEFINE less == OpToRel(<, Nat)
    <2>1. IsWellFoundedOn(less, Nat)
      BY NatLessThanWellFounded, Zenon
    <2>2. \A x, y \in Nat : y < x => <<y, x>> \in less
      BY DEF OpToRel
    <2> HIDE DEF U, less
    <2>3. PICK u \in U : \A v \in U : <<v, u>> \notin less
      BY <1>1, <2>1, WFMin, Zenon
    <2>4. u \in Nat /\ \A v \in U : v \in Nat /\ ~(v < u)
      BY <1>1, <2>2, <2>3, Zenon
    <2> QED
      BY <2>3, <2>4
  <1>3. PICK x \in T : u = n - x
    BY <1>2
  <1>4. \A y \in T : x >= y
    <2> SUFFICES ASSUME NEW y \in T PROVE x >= y
      OBVIOUS
    <2>1. n - y \in U
      OBVIOUS
    <2>2. n - x <= n - y
      BY <1>2, <1>3, <2>1
    <2> QED
      BY <2>2
  <1>5. \E z \in T : \A y \in T : z >= y
    BY <1>4
  <1> QED
    BY <1>5, Zenon DEF Max

\* Types of the runtime.
Circuits == [state : {"CLOSED", "OPEN", "HALF_OPEN"}, failures : Nat, cooled : BOOLEAN]

Calling == {"allow", "halfOpen", "generate", "failure", "failurePut", "success", "cost"}

Tries == [target : Targets, status : {"SKIPPED_OPEN_CIRCUIT", "FAILED", "SUCCEEDED"}]

Billed == {Components[j] : j \in DOMAIN Components}

RunRows ==
  [pc : Calling \cup {"off", "done"}, chain : Seq(Targets), i : Nat, snap : Circuits,
   left : Seq(Billed), outcome : {"none", "ok", "recoverable", "fatal"}, tried : Seq(Tries)]

Events == [by : Executors, target : Targets, component : Billed]

RuntimeTypeOK ==
  /\ breaker \in [Targets -> Circuits]
  /\ run \in [Executors -> RunRows]
  /\ costs \subseteq Events
  /\ failed \in [Targets -> Nat]

\* The breakers.  A failure is pending between the provider's answer and the Put
\* that counts it; a counter leaves room for every pending failure, and so does
\* every snapshot that is still to be written.
Pending(k) == {e \in Executors : run[e].pc \in {"failure", "failurePut"} /\ Target(e) = k}

Accounted(circuit, k) ==
  /\ circuit.failures + Cardinality(Pending(k)) <= failed[k]
  /\ circuit.state # "CLOSED" => failed[k] >= Threshold

BreakerInv ==
  /\ \A k \in Targets : Accounted(breaker[k], k)
  /\ \A e \in Executors :
       /\ run[e].pc \in {"halfOpen", "failurePut"} => Accounted(run[e].snap, Target(e))
       /\ run[e].pc = "halfOpen" => run[e].snap.state = "OPEN"

\* One execution.  While it is under way its attempts are those of the candidates
\* before the current one, none of which succeeded; while it is being billed the
\* components that are not left are charged.
Charged(e, n) == \A j \in 1..n : CostEvent(e, Components[j]) \in costs

Progress(row) ==
  /\ row.pc \in Calling =>
       /\ row.i \in 1..Len(row.chain)
       /\ Len(row.tried) = row.i - 1
       /\ \A j \in 1..Len(row.tried) : row.tried[j].status # "SUCCEEDED"
       /\ row.outcome = "none"
  /\ row.pc = "done" => row.outcome # "none"
  /\ row.pc = "done" /\ row.outcome = "ok" /\ row.chain # <<>> =>
       /\ row.i \in 1..Len(row.chain)
       /\ \A j \in 1..row.i : (row.tried[j].status = "SUCCEEDED") <=> (j = row.i)

RunOK(e) ==
  /\ Progress(run[e])
  /\ run[e].pc = "cost" =>
       \E n \in 0..Len(Components) :
         /\ Len(run[e].left) = Len(Components) - n
         /\ \A j \in 1..Len(run[e].left) : run[e].left[j] = Components[n + j]
         /\ Charged(e, n)
  /\ run[e].pc = "done" /\ run[e].outcome = "ok" /\ run[e].chain # <<>> =>
       Charged(e, Len(Components))

RunsInv == \A e \in Executors : RunOK(e)

RuntimeInv == RuntimeTypeOK /\ BreakerInv /\ RunsInv

-----------------------------------------------------------------------------
\* The circuit breakers.

LEMMA PendingFinite == ASSUME NEW k PROVE IsFiniteSet(Pending(k)) /\ Cardinality(Pending(k)) \in Nat
  <1>1. Pending(k) \in SUBSET Executors
    BY DEF Pending
  <1> QED
    BY <1>1, RuntimeConstants, FS_Subset, FS_CardinalityType

-----------------------------------------------------------------------------
\* The executions.  What the row operations of the runtime return.

LEMMA NotedRow ==
    ASSUME NEW row \in RunRows, row.i \in 1..Len(row.chain), Len(row.tried) = row.i - 1,
           NEW s \in {"SKIPPED_OPEN_CIRCUIT", "FAILED", "SUCCEEDED"}
    PROVE  /\ Note(row, s) \in RunRows
           /\ Note(row, s).pc = row.pc /\ Note(row, s).chain = row.chain
           /\ Note(row, s).i = row.i /\ Note(row, s).outcome = row.outcome
           /\ Len(Note(row, s).tried) = row.i
           /\ \A j \in 1..(row.i - 1) : Note(row, s).tried[j] = row.tried[j]
           /\ Note(row, s).tried[row.i].status = s
  <1> DEFINE try == [target |-> row.chain[row.i], status |-> s]
  <1>1. /\ row.chain \in Seq(Targets) /\ row.tried \in Seq(Tries) /\ row.i \in Nat
    BY DEF RunRows
  <1>2. try \in Tries /\ try.status = s
    BY <1>1 DEF Tries
  <1>3. Note(row, s) = [row EXCEPT !.tried = Append(row.tried, try)]
    BY DEF Note
  <1> HIDE DEF try
  <1>4. /\ Append(row.tried, try) \in Seq(Tries) /\ Len(Append(row.tried, try)) = row.i
        /\ \A j \in 1..(row.i - 1) : Append(row.tried, try)[j] = row.tried[j]
        /\ Append(row.tried, try)[row.i] = try
    BY <1>1, <1>2
  <1>5. Note(row, s) \in RunRows
    BY <1>3, <1>4, Zenon DEF RunRows
  <1> QED
    BY <1>2, <1>3, <1>4, <1>5 DEF RunRows

\* A failed candidate hands over to the next one or ends the execution.
LEMMA FailedRow ==
    ASSUME NEW row \in RunRows, row.pc \in Calling, Progress(row),
           NEW s \in {"SKIPPED_OPEN_CIRCUIT", "FAILED"}
    PROVE  /\ NextCandidate(Note(row, s)) \in RunRows
           /\ NextCandidate(Note(row, s)).pc \in {"allow", "done"}
           /\ NextCandidate(Note(row, s)).chain = row.chain
           /\ NextCandidate(Note(row, s)).outcome # "ok"
           /\ Progress(NextCandidate(Note(row, s)))
  <1> DEFINE t == Note(row, s)
  <1>1. /\ row.i \in 1..Len(row.chain) /\ Len(row.tried) = row.i - 1 /\ row.outcome = "none"
        /\ \A j \in 1..Len(row.tried) : row.tried[j].status # "SUCCEEDED"
    BY DEF Progress
  <1>2. /\ t \in RunRows /\ t.chain = row.chain /\ t.i = row.i /\ t.outcome = "none"
        /\ Len(t.tried) = row.i
        /\ \A j \in 1..(row.i - 1) : t.tried[j] = row.tried[j]
        /\ t.tried[row.i].status = s
    BY <1>1, NotedRow
  <1>3. row.i \in Nat /\ Len(row.chain) \in Nat
    BY DEF RunRows
  <1>4. \A j \in 1..row.i : t.tried[j].status # "SUCCEEDED"
    BY SMTT(30), <1>1, <1>2, <1>3
  <1> HIDE DEF t
  <1>5. CASE t.i = Len(t.chain)
    <2>1. NextCandidate(t) = [t EXCEPT !.pc = "done", !.outcome = "recoverable"]
      BY <1>5 DEF NextCandidate
    <2>2. /\ NextCandidate(t) \in RunRows /\ NextCandidate(t).pc = "done"
          /\ NextCandidate(t).outcome = "recoverable" /\ NextCandidate(t).chain = t.chain
      BY <2>1, <1>2, ZenonT(30) DEF RunRows
    <2> QED
      BY <2>2, <1>2 DEF Progress, Calling, t
  <1>6. CASE t.i # Len(t.chain)
    <2> DEFINE k == t.i + 1
    <2>0. k \in Nat
      BY <1>2, <1>3
    <2>1. NextCandidate(t) = [t EXCEPT !.pc = "allow", !.i = k]
      BY <1>6 DEF NextCandidate
    <2>3. k \in 1..Len(t.chain)
      BY <1>1, <1>2, <1>3, <1>6
    <2>5. Len(t.tried) = k - 1
      BY <1>2
    <2> HIDE DEF k
    <2>2. /\ NextCandidate(t) \in RunRows /\ NextCandidate(t).pc = "allow"
          /\ NextCandidate(t).outcome = "none" /\ NextCandidate(t).chain = t.chain
          /\ NextCandidate(t).tried = t.tried /\ NextCandidate(t).i = k
      BY <2>0, <2>1, <1>2, Zenon DEF RunRows, Calling
    <2>4. Progress(NextCandidate(t))
      BY <2>2, <2>3, <2>5, <1>2, <1>3, <1>4 DEF Progress
    <2> QED
      BY <2>2, <2>4, <1>2 DEF t
  <1> QED
    BY <1>5, <1>6

LEMMA GivenUpRow ==
    ASSUME NEW row \in RunRows
    PROVE  /\ GiveUp(row) \in RunRows /\ GiveUp(row).pc = "done"
           /\ GiveUp(row).chain = row.chain /\ GiveUp(row).outcome = "fatal"
           /\ Progress(GiveUp(row))
  BY Zenon DEF GiveUp, RunRows, Progress, Calling

\* Only one execution moves.
LEMMA OneRun ==
    ASSUME run \in [Executors -> RunRows], RunsInv, NEW e \in Executors, NEW row \in RunRows,
           run' = [run EXCEPT ![e] = row], costs \subseteq costs'
    PROVE  /\ run' \in [Executors -> RunRows] /\ run'[e] = row
           /\ \A f \in Executors : f # e => run'[f] = run[f] /\ RunOK(f)'
  <1>1. /\ run' \in [Executors -> RunRows] /\ run'[e] = row
        /\ \A f \in Executors : f # e => run'[f] = run[f]
    BY SMTT(30)
  <1>2. ASSUME NEW f \in Executors, f # e
        PROVE  RunOK(f)'
    <2>1. RunOK(f) /\ run'[f] = run[f]
      BY <1>1, <1>2 DEF RunsInv
    <2>2. \A c : CostEvent(f, c)' = CostEvent(f, c)
      BY <2>1 DEF CostEvent, Target
    <2>3. \A n \in Nat : Charged(f, n) => Charged(f, n)'
      BY <2>2 DEF Charged
    <2>4. Len(Components) \in Nat
      BY SMTT(30), RuntimeConstants
    <2> QED
      BY <2>1, <2>3, <2>4 DEF RunOK
  <1> QED
    BY <1>1, <1>2

-----------------------------------------------------------------------------
\* A step after which the same failures are pending.
LEMMA SamePending ==
    ASSUME RuntimeTypeOK, BreakerInv, NEW e \in Executors, NEW row \in RunRows,
           run' = [run EXCEPT ![e] = row], failed' = failed,
           row.pc \in {"failure", "failurePut"} <=> run[e].pc \in {"failure", "failurePut"},
           row.pc \in {"failure", "failurePut"} => row.chain = run[e].chain /\ row.i = run[e].i,
           \A k \in Targets : Accounted(breaker'[k], k),
           row.pc \in {"halfOpen", "failurePut"} => Accounted(row.snap, row.chain[row.i]),
           row.pc = "halfOpen" => row.snap.state = "OPEN"
    PROVE  BreakerInv'
  <1>1. run'[e] = row /\ \A f \in Executors : f # e => run'[f] = run[f]
    BY SMTT(30) DEF RuntimeTypeOK
  <1>2. /\ \A f \in Executors : f # e => Target(f)' = Target(f)
        /\ Target(e)' = row.chain[row.i]
        /\ row.pc \in {"failure", "failurePut"} => Target(e)' = Target(e)
    BY <1>1 DEF Target
  <1>3. \A k : Pending(k)' = Pending(k)
    BY <1>1, <1>2, SMTT(30) DEF Pending
  <1>4. ASSUME NEW k \in Targets
        PROVE  Accounted(breaker[k], k)'
    BY <1>3, ZenonT(30) DEF Accounted
  <1>5. ASSUME NEW f \in Executors
        PROVE  /\ run'[f].pc \in {"halfOpen", "failurePut"} => Accounted(run[f].snap, Target(f))'
               /\ run'[f].pc = "halfOpen" => run'[f].snap.state = "OPEN"
    <2>1. CASE f = e
      <3>1. row.pc \in {"halfOpen", "failurePut"} => Accounted(run[e].snap, Target(e))'
        BY <1>1, <1>2, <1>3, SMTT(30) DEF Accounted
      <3> QED
        BY SMTT(30), <2>1, <3>1, <1>1
    <2>2. CASE f # e
      <3>1. run'[f] = run[f] /\ Target(f)' = Target(f)
        BY SMTT(30), <2>2, <1>1, <1>2
      <3>2. Accounted(run[f].snap, Target(f)) => Accounted(run[f].snap, Target(f))'
        BY <3>1, <1>3 DEF Accounted
      <3> QED
        BY <3>1, <3>2 DEF BreakerInv
    <2> QED
      BY SMTT(30), <2>1, <2>2
  <1> QED
    BY <1>4, <1>5, SMTT(30) DEF BreakerInv

\* The target of a call under way.
LEMMA TargetOf ==
    ASSUME RuntimeInv, NEW e \in Executors, run[e].pc \in Calling
    PROVE  /\ run[e] \in RunRows /\ Progress(run[e]) /\ RunOK(e)
           /\ run[e].i \in 1..Len(run[e].chain)
           /\ Target(e) \in Targets /\ breaker[Target(e)] \in Circuits
           /\ failed[Target(e)] \in Nat
  <1>1. /\ run[e] \in RunRows /\ Progress(run[e]) /\ RunOK(e)
    BY ZenonT(30) DEF RuntimeInv, RuntimeTypeOK, RunsInv, RunOK
  <1>2. run[e].i \in 1..Len(run[e].chain) /\ run[e].chain \in Seq(Targets)
    BY <1>1, Zenon DEF Progress, RunRows
  <1>3. Target(e) \in Targets
    BY <1>2, SMTT(30) DEF Target
  <1> QED
    BY <1>1, <1>2, <1>3, SMTT(30) DEF RuntimeInv, RuntimeTypeOK

\* What a step of execution e keeps.
RuntimeKept(e) ==
  /\ RuntimeInv' /\ costs \subseteq costs'
  /\ run'[e].pc # "off" /\ run'[e].chain = run[e].chain
  /\ \A f \in Executors : f # e => run'[f] = run[f]

\* A step after which the same failures are pending keeps the runtime's invariant
\* if it keeps that of the execution that moves.
LEMMA QuietStep ==
    ASSUME RuntimeInv, NEW e \in Executors, NEW row \in RunRows,
           run' = [run EXCEPT ![e] = row], failed' = failed,
           costs \subseteq costs', costs' \subseteq Events, breaker' \in [Targets -> Circuits],
           row.pc \in {"failure", "failurePut"} <=> run[e].pc \in {"failure", "failurePut"},
           row.pc \in {"failure", "failurePut"} => row.chain = run[e].chain /\ row.i = run[e].i,
           \A k \in Targets : Accounted(breaker'[k], k),
           row.pc \in {"halfOpen", "failurePut"} => Accounted(row.snap, row.chain[row.i]),
           row.pc = "halfOpen" => row.snap.state = "OPEN",
           row.chain = run[e].chain, row.pc # "off", RunOK(e)'
    PROVE  RuntimeKept(e)
  <1>1. RuntimeTypeOK /\ BreakerInv /\ RunsInv /\ run \in [Executors -> RunRows]
    BY Zenon DEF RuntimeInv, RuntimeTypeOK
  <1>2. /\ run' \in [Executors -> RunRows] /\ run'[e] = row
        /\ \A f \in Executors : f # e => run'[f] = run[f] /\ RunOK(f)'
    BY <1>1, OneRun, Zenon
  <1>3. BreakerInv'
    BY ZenonT(30), <1>1, SamePending
  <1>4. RunsInv'
    BY <1>2, SMTT(30) DEF RunsInv
  <1>5. RuntimeTypeOK'
    BY <1>1, <1>2 DEF RuntimeTypeOK
  <1> QED
    BY <1>2, <1>3, <1>4, <1>5, ZenonT(30) DEF RuntimeKept, RuntimeInv

\* A step with which no failure is counted and nothing is billed.
LEMMA PlainStep ==
    ASSUME RuntimeInv, NEW e \in Executors, run[e].pc \in Calling \ {"failure", "failurePut"},
           NEW row \in RunRows, run' = [run EXCEPT ![e] = row],
           UNCHANGED <<costs, failed>>, breaker' \in [Targets -> Circuits],
           \A k \in Targets : Accounted(breaker'[k], k),
           Progress(row), row.chain = run[e].chain,
           row.pc \in Calling \cup {"done"}, row.pc \notin {"failure", "failurePut", "cost"},
           row.pc = "done" => row.outcome # "ok",
           row.pc = "halfOpen" => /\ row.snap = breaker[Target(e)] /\ row.i = run[e].i
                                  /\ row.snap.state = "OPEN"
    PROVE  RuntimeKept(e)
  <1>1. /\ Target(e) \in Targets /\ run \in [Executors -> RunRows] /\ costs \subseteq Events
        /\ \A k \in Targets : Accounted(breaker[k], k)
    BY TargetOf, Zenon DEF RuntimeInv, RuntimeTypeOK, BreakerInv
  <1>2. run'[e] = row
    BY <1>1
  <1>3. RunOK(e)'
    BY <1>2, SMTT(30) DEF RunOK
  <1>4. row.pc = "halfOpen" => Accounted(row.snap, row.chain[row.i])
    BY <1>1, SMTT(30) DEF Target
  <1>5. row.pc # "off"
    BY DEF Calling
  <1> QED
    BY <1>1, <1>3, <1>4, <1>5, QuietStep, ZenonT(30)

LEMMA AllowStep == ASSUME RuntimeInv, NEW e \in Executors, Allow(e) PROVE RuntimeKept(e)
  <1> DEFINE seen == breaker[Target(e)]
             row == [run[e] EXCEPT !.snap = seen]
             next == IF seen.state # "OPEN" THEN [row EXCEPT !.pc = "generate"]
                     ELSE IF seen.cooled THEN [row EXCEPT !.pc = "halfOpen"]
                     ELSE NextCandidate(Note(row, "SKIPPED_OPEN_CIRCUIT"))
  <1>1. /\ run[e].pc = "allow" /\ run' = [run EXCEPT ![e] = next]
        /\ UNCHANGED <<breaker, costs, failed>>
    BY Zenon DEF Allow
  <1>2. run[e].pc \in Calling \ {"failure", "failurePut"}
    BY <1>1 DEF Calling
  <1>3. /\ run[e] \in RunRows /\ Progress(run[e]) /\ seen \in Circuits
    BY <1>2, TargetOf
  <1>4. /\ row \in RunRows /\ row.snap = seen /\ row.chain = run[e].chain /\ row.i = run[e].i
        /\ row.pc = "allow" /\ row.tried = run[e].tried /\ row.outcome = run[e].outcome
    BY <1>1, <1>3, SMTT(30) DEF RunRows
  <1>5. Progress(row)
    BY <1>3, <1>4, <1>1 DEF Progress
  <1>9. breaker' \in [Targets -> Circuits] /\ \A k \in Targets : Accounted(breaker'[k], k)
    BY <1>1 DEF RuntimeInv, RuntimeTypeOK, BreakerInv
  <1> HIDE DEF seen, row
  <1>6. CASE seen.state # "OPEN"
    <2>1. /\ next \in RunRows /\ next.pc = "generate" /\ next.chain = row.chain
          /\ next.i = row.i /\ next.tried = row.tried /\ next.outcome = row.outcome
      BY <1>4, <1>6, SMTT(30) DEF RunRows, Calling
    <2> HIDE DEF next
    <2>2. Progress(next)
      BY <2>1, <1>4, <1>5 DEF Progress, Calling
    <2> QED
      BY <2>1, <2>2, <1>1, <1>2, <1>4, <1>9, PlainStep, Zenon DEF Calling
  <1>7. CASE seen.state = "OPEN" /\ seen.cooled
    <2>1. /\ next \in RunRows /\ next.pc = "halfOpen" /\ next.chain = row.chain
          /\ next.i = row.i /\ next.tried = row.tried /\ next.outcome = row.outcome
          /\ next.snap = row.snap
      BY <1>4, <1>7, SMTT(30) DEF RunRows, Calling
    <2> HIDE DEF next
    <2>2. Progress(next)
      BY <2>1, <1>4, <1>5 DEF Progress, Calling
    <2> QED
      BY <2>1, <2>2, <1>1, <1>2, <1>4, <1>7, <1>9, PlainStep, ZenonT(30) DEF Calling, seen
  <1>8. CASE seen.state = "OPEN" /\ ~seen.cooled
    <2>0. next = NextCandidate(Note(row, "SKIPPED_OPEN_CIRCUIT"))
      BY <1>8
    <2> HIDE DEF next
    <2>1. /\ next \in RunRows /\ next.pc \in {"allow", "done"} /\ next.chain = row.chain
          /\ next.outcome # "ok" /\ Progress(next)
      BY <2>0, <1>4, <1>5, FailedRow DEF Calling
    <2> QED
      BY <2>1, <1>1, <1>2, <1>4, <1>9, PlainStep, Zenon DEF Calling
  <1> QED
    BY <1>6, <1>7, <1>8

LEMMA AllowPutStep == ASSUME RuntimeInv, NEW e \in Executors, AllowPut(e) PROVE RuntimeKept(e)
  <1> DEFINE row == [run[e] EXCEPT !.pc = "generate"]
             circuit == [run[e].snap EXCEPT !.state = "HALF_OPEN"]
             k == Target(e)
  <1>1. /\ run[e].pc = "halfOpen" /\ run' = [run EXCEPT ![e] = row]
        /\ breaker' = [breaker EXCEPT ![k] = circuit] /\ UNCHANGED <<costs, failed>>
    BY Zenon DEF AllowPut
  <1>2. run[e].pc \in Calling \ {"failure", "failurePut"}
    BY <1>1 DEF Calling
  <1>3. /\ run[e] \in RunRows /\ Progress(run[e]) /\ k \in Targets
        /\ breaker \in [Targets -> Circuits]
    BY <1>2, TargetOf DEF RuntimeInv, RuntimeTypeOK
  <1>4. /\ row \in RunRows /\ row.pc = "generate" /\ row.chain = run[e].chain
        /\ row.i = run[e].i /\ row.tried = run[e].tried /\ row.outcome = run[e].outcome
    BY <1>3, SMTT(30) DEF RunRows, Calling
  <1>5. circuit \in Circuits /\ circuit.failures = run[e].snap.failures
    BY <1>3 DEF RunRows, Circuits
  <1>6. Accounted(run[e].snap, k) /\ run[e].snap.state = "OPEN"
    BY <1>1 DEF RuntimeInv, BreakerInv
  <1>7. Accounted(circuit, k)
    BY <1>5, <1>6 DEF Accounted
  <1> HIDE DEF row, circuit, k
  <1>8. breaker' \in [Targets -> Circuits] /\ \A j \in Targets : Accounted(breaker'[j], j)
    BY <1>1, <1>3, <1>5, <1>7, SMTT(30) DEF RuntimeInv, BreakerInv
  <1>9. Progress(row)
    BY <1>2, <1>3, <1>4, SMTT(30) DEF Progress, Calling
  <1> QED
    BY <1>1, <1>2, <1>4, <1>8, <1>9, PlainStep, Zenon DEF Calling

\* A provider that is missing or answers an error that ends the execution.
LEMMA GivenUpStep ==
    ASSUME RuntimeInv, NEW e \in Executors, run[e].pc = "generate",
           run' = [run EXCEPT ![e] = GiveUp(Note(run[e], "FAILED"))],
           UNCHANGED <<breaker, costs, failed>>
    PROVE  RuntimeKept(e)
  <1>1. run[e].pc \in Calling \ {"failure", "failurePut"}
    BY SMTT(30) DEF Calling
  <1>2. run[e] \in RunRows /\ Progress(run[e])
    BY <1>1, TargetOf, ZenonT(30)
  <1>3. Note(run[e], "FAILED") \in RunRows /\ Note(run[e], "FAILED").chain = run[e].chain
    BY <1>1, <1>2, NotedRow, Zenon DEF Progress
  <1> DEFINE row == GiveUp(Note(run[e], "FAILED"))
  <1>4. /\ row \in RunRows /\ row.pc = "done" /\ row.chain = run[e].chain
        /\ row.outcome = "fatal" /\ Progress(row)
    BY <1>3, GivenUpRow
  <1>5. breaker' \in [Targets -> Circuits] /\ \A k \in Targets : Accounted(breaker'[k], k)
    BY DEF RuntimeInv, RuntimeTypeOK, BreakerInv
  <1>6. run' = [run EXCEPT ![e] = row]
    OBVIOUS
  <1> HIDE DEF row
  <1> QED
    BY <1>1, <1>4, <1>5, <1>6, PlainStep, Zenon DEF Calling

\* A provider that answers.
LEMMA AnsweredStep ==
    ASSUME RuntimeInv, NEW e \in Executors, run[e].pc = "generate",
           run' = [run EXCEPT ![e].pc = "success"], UNCHANGED <<breaker, costs, failed>>
    PROVE  RuntimeKept(e)
  <1> DEFINE row == [run[e] EXCEPT !.pc = "success"]
  <1>1. run[e].pc \in Calling \ {"failure", "failurePut"}
    BY DEF Calling
  <1>2. run[e] \in RunRows /\ Progress(run[e])
    BY <1>1, TargetOf
  <1>3. /\ row \in RunRows /\ row.pc = "success" /\ row.chain = run[e].chain
        /\ row.i = run[e].i /\ row.tried = run[e].tried /\ row.outcome = run[e].outcome
    BY <1>2, Zenon DEF RunRows, Calling
  <1>4. breaker' \in [Targets -> Circuits] /\ \A k \in Targets : Accounted(breaker'[k], k)
    BY DEF RuntimeInv, RuntimeTypeOK, BreakerInv
  <1>5. run' = [run EXCEPT ![e] = row]
    BY Zenon
  <1> HIDE DEF row
  <1>6. Progress(row)
    BY <1>1, <1>2, <1>3 DEF Progress, Calling
  <1> QED
    BY <1>1, <1>3, <1>4, <1>5, <1>6, PlainStep, Zenon DEF Calling

\* A recoverable failure: one more is pending, and one more has happened.
LEMMA FailedStep ==
    ASSUME RuntimeInv, NEW e \in Executors, run[e].pc = "generate",
           run' = [run EXCEPT ![e].pc = "failure"],
           failed' = [failed EXCEPT ![Target(e)] = @ + 1], UNCHANGED <<breaker, costs>>
    PROVE  RuntimeKept(e)
  <1> DEFINE row == [run[e] EXCEPT !.pc = "failure"]
  <1>1. run[e].pc \in Calling
    BY DEF Calling
  <1>2. /\ run[e] \in RunRows /\ Progress(run[e]) /\ Target(e) \in Targets
        /\ RuntimeTypeOK /\ BreakerInv /\ RunsInv /\ run \in [Executors -> RunRows]
    BY <1>1, TargetOf DEF RuntimeInv, RuntimeTypeOK
  <1>0. PICK k \in Targets : k = Target(e)
    BY <1>2
  <1>3. /\ row \in RunRows /\ row.pc = "failure" /\ row.chain = run[e].chain
        /\ row.i = run[e].i /\ row.tried = run[e].tried /\ row.outcome = run[e].outcome
    BY <1>2, Zenon DEF RunRows, Calling
  <1>4. run' = [run EXCEPT ![e] = row]
    BY Zenon
  <1>5. /\ failed' \in [Targets -> Nat] /\ failed'[k] = failed[k] + 1 /\ failed[k] \in Nat
        /\ \A j \in Targets : j # k => failed'[j] = failed[j]
    BY <1>0, <1>2 DEF RuntimeTypeOK
  <1> HIDE DEF row
  <1>6. Progress(row)
    BY <1>1, <1>2, <1>3 DEF Progress, Calling
  <1>7. /\ run' \in [Executors -> RunRows] /\ run'[e] = row
        /\ \A f \in Executors : f # e => run'[f] = run[f] /\ RunOK(f)'
    BY <1>2, <1>3, <1>4, OneRun, Zenon
  <1>8. RunOK(e)'
    BY <1>3, <1>6, <1>7 DEF RunOK
  <1>9. \A f \in Executors : Target(f)' = Target(f)
    BY <1>3, <1>7 DEF Target
  <1>10. /\ Pending(k)' = Pending(k) \cup {e} /\ e \notin Pending(k)
         /\ \A j : j # k => Pending(j)' = Pending(j)
    BY <1>0, <1>3, <1>7, <1>9 DEF Pending
  <1>11. /\ Cardinality(Pending(k))' = Cardinality(Pending(k)) + 1
         /\ \A j : Cardinality(Pending(j)) \in Nat
    BY <1>10, PendingFinite, FS_AddElement, Zenon
  <1>12. ASSUME NEW c \in Circuits, NEW j \in Targets, Accounted(c, j)
         PROVE  /\ c.failures + Cardinality(Pending(j)') <= failed'[j]
                /\ c.state # "CLOSED" => failed'[j] >= Threshold
    <2>1. c.failures \in Nat /\ failed[j] \in Nat /\ Threshold \in Nat
      BY <1>2, RuntimeConstants DEF Circuits, RuntimeTypeOK
    <2>2. CASE j = k
      <3>1. /\ c.failures + Cardinality(Pending(k)) <= failed[k]
            /\ c.state # "CLOSED" => failed[k] >= Threshold
        BY <2>2, <1>12 DEF Accounted
      <3>2. Cardinality(Pending(k)) \in Nat /\ failed[k] \in Nat
        BY <1>5, <1>11
      <3>3. Cardinality(Pending(k)') = Cardinality(Pending(k)) + 1
        BY <1>11
      <3> QED
        BY <2>1, <2>2, <3>1, <3>2, <3>3, <1>5
    <2>3. CASE j # k
      BY <2>1, <2>3, <1>5, <1>10, <1>12 DEF Accounted
    <2> QED
      BY <2>2, <2>3
  <1>13. BreakerInv'
    <2>1. ASSUME NEW j \in Targets
          PROVE  Accounted(breaker[j], j)'
      <3>1. breaker[j] \in Circuits /\ Accounted(breaker[j], j) /\ breaker'[j] = breaker[j]
        BY <1>2 DEF RuntimeTypeOK, BreakerInv
      <3> QED
        BY <3>1, <1>12 DEF Accounted
    <2>2. ASSUME NEW f \in Executors
          PROVE  /\ run'[f].pc \in {"halfOpen", "failurePut"} => Accounted(run[f].snap, Target(f))'
                 /\ run'[f].pc = "halfOpen" => run'[f].snap.state = "OPEN"
      <3>1. CASE f = e
        BY <3>1, <1>3, <1>7
      <3>2. CASE f # e
        <4>1. run'[f] = run[f] /\ Target(f)' = Target(f)
          BY <3>2, <1>7, <1>9
        <4>2. run[f].pc \in {"halfOpen", "failurePut"} =>
                Target(f) \in Targets /\ run[f].snap \in Circuits
          BY TargetOf DEF Calling, RunRows
        <4>3. run[f].pc \in {"halfOpen", "failurePut"} => Accounted(run[f].snap, Target(f))'
          BY <4>1, <4>2, <1>2, <1>12 DEF Accounted, BreakerInv
        <4> QED
          BY <4>1, <4>3, <1>2 DEF BreakerInv
      <3> QED
        BY <3>1, <3>2
    <2> QED
      BY <2>1, <2>2 DEF BreakerInv
  <1>14. RunsInv' /\ RuntimeTypeOK'
    BY <1>2, <1>5, <1>7, <1>8 DEF RunsInv, RuntimeTypeOK
  <1> QED
    BY <1>3, <1>7, <1>13, <1>14 DEF RuntimeKept, RuntimeInv

LEMMA GenerateStep == ASSUME RuntimeInv, NEW e \in Executors, Generate(e) PROVE RuntimeKept(e)
  <1>1. /\ run[e].pc = "generate" /\ UNCHANGED <<breaker, costs>>
        /\ \/ run' = [run EXCEPT ![e] = GiveUp(Note(run[e], "FAILED"))] /\ UNCHANGED failed
           \/ run' = [run EXCEPT ![e].pc = "success"] /\ UNCHANGED failed
           \/ /\ run' = [run EXCEPT ![e].pc = "failure"]
              /\ failed' = [failed EXCEPT ![Target(e)] = @ + 1]
    BY ZenonT(30) DEF Generate
  <1> QED
    BY <1>1, GivenUpStep, AnsweredStep, FailedStep

LEMMA FailureStep == ASSUME RuntimeInv, NEW e \in Executors, Failure(e) PROVE RuntimeKept(e)
  <1> DEFINE row == [run[e] EXCEPT !.snap = breaker[Target(e)], !.pc = "failurePut"]
  <1>1. /\ run[e].pc = "failure" /\ run' = [run EXCEPT ![e] = row]
        /\ UNCHANGED <<breaker, costs, failed>>
    BY Zenon DEF Failure
  <1>2. run[e].pc \in Calling
    BY <1>1, SMTT(30) DEF Calling
  <1>3. /\ run[e] \in RunRows /\ Progress(run[e]) /\ Target(e) \in Targets
        /\ breaker[Target(e)] \in Circuits /\ run \in [Executors -> RunRows]
        /\ breaker \in [Targets -> Circuits] /\ costs \subseteq Events
        /\ \A k \in Targets : Accounted(breaker[k], k)
    BY <1>2, TargetOf, Zenon DEF RuntimeInv, RuntimeTypeOK, BreakerInv
  <1>4. /\ row \in RunRows /\ row.pc = "failurePut" /\ row.chain = run[e].chain
        /\ row.i = run[e].i /\ row.tried = run[e].tried /\ row.outcome = run[e].outcome
        /\ row.snap = breaker[Target(e)]
    BY <1>3, ZenonT(30) DEF RunRows, Calling
  <1> HIDE DEF row
  <1>5. Progress(row) /\ run'[e] = row
    BY <1>1, <1>2, <1>3, <1>4, ZenonT(30) DEF Progress, Calling
  <1>6. RunOK(e)'
    BY <1>4, <1>5, SMTT(30) DEF RunOK
  <1>7. Accounted(row.snap, row.chain[row.i])
    BY <1>3, <1>4 DEF Target
  <1> QED
    BY <1>1, <1>3, <1>4, <1>6, <1>7, QuietStep, ZenonT(30)

\* What Failed makes of a snapshot that leaves room for one failure more.
LEMMA FailedSnap ==
    ASSUME NEW snap \in Circuits, NEW n \in Nat, snap.failures + 1 <= n,
           snap.state # "CLOSED" => n >= Threshold
    PROVE  /\ Failed(snap) \in Circuits /\ Failed(snap).failures = snap.failures + 1
           /\ Failed(snap).state # "CLOSED" => n >= Threshold
  <1> DEFINE m == snap.failures + 1
  <1>1. m \in Nat /\ Threshold \in Nat /\ m <= n
    BY RuntimeConstants DEF Circuits
  <1>2. Failed(snap) = IF snap.state = "HALF_OPEN" \/ m >= Threshold
                       THEN [state |-> "OPEN", failures |-> m, cooled |-> FALSE]
                       ELSE [snap EXCEPT !.failures = m]
    BY DEF Failed
  <1> HIDE DEF m
  <1>3. Failed(snap) \in Circuits /\ Failed(snap).failures = m
    BY <1>1, <1>2 DEF Circuits
  <1>4. Failed(snap).state # "CLOSED" => n >= Threshold
    BY <1>1, <1>2 DEF Circuits
  <1> QED
    BY <1>3, <1>4 DEF m

LEMMA FailurePutStep == ASSUME RuntimeInv, NEW e \in Executors, FailurePut(e) PROVE RuntimeKept(e)
  <1> DEFINE row == NextCandidate(Note(run[e], "FAILED"))
  <1>1. /\ run[e].pc = "failurePut" /\ run' = [run EXCEPT ![e] = row]
        /\ breaker' = [breaker EXCEPT ![Target(e)] = Failed(run[e].snap)]
        /\ UNCHANGED <<costs, failed>>
    BY Zenon DEF FailurePut
  <1>2. run[e].pc \in Calling
    BY <1>1 DEF Calling
  <1>3. /\ run[e] \in RunRows /\ Progress(run[e]) /\ Target(e) \in Targets
        /\ RuntimeTypeOK /\ BreakerInv /\ RunsInv /\ run \in [Executors -> RunRows]
    BY <1>2, TargetOf DEF RuntimeInv, RuntimeTypeOK
  <1>4. /\ row \in RunRows /\ row.pc \in {"allow", "done"} /\ row.chain = run[e].chain
        /\ row.outcome # "ok" /\ Progress(row)
    BY <1>2, <1>3, FailedRow
  <1> HIDE DEF row
  <1>5. PICK k \in Targets : k = Target(e)
    BY <1>3
  <1>6. /\ run' \in [Executors -> RunRows] /\ run'[e] = row
        /\ \A f \in Executors : f # e => run'[f] = run[f] /\ RunOK(f)'
    BY <1>1, <1>3, <1>4, OneRun, ZenonT(30)
  <1>7. RunOK(e)'
    BY <1>4, <1>6 DEF RunOK
  <1>8. \A f \in Executors : f # e => Target(f)' = Target(f)
    BY <1>6 DEF Target
  <1>9. /\ Pending(k)' = Pending(k) \ {e} /\ e \in Pending(k)
        /\ \A j : j # k => Pending(j)' = Pending(j)
    BY <1>1, <1>4, <1>5, <1>6, <1>8 DEF Pending
  <1>10. \A j : Cardinality(Pending(j)) \in Nat /\ IsFiniteSet(Pending(j))
    BY PendingFinite
  <1>11. Cardinality(Pending(k)') = Cardinality(Pending(k)) - 1 /\ Cardinality(Pending(k)) > 0
    <2>1. Cardinality(Pending(k)') = Cardinality(Pending(k)) - 1
      BY ZenonT(30), <1>9, <1>10, FS_RemoveElement
    <2>2. Cardinality(Pending(k)) # 0
      BY <1>9, <1>10, FS_EmptySet
    <2> QED
      BY <2>1, <2>2, <1>10
  <1>12. ASSUME NEW c \in Circuits, NEW j \in Targets, Accounted(c, j)
         PROVE  /\ c.failures + Cardinality(Pending(j)') <= failed'[j]
                /\ c.state # "CLOSED" => failed'[j] >= Threshold
    <2>1. /\ c.failures \in Nat /\ failed[j] \in Nat /\ failed'[j] = failed[j]
          /\ Cardinality(Pending(j)) \in Nat
      BY <1>1, <1>3, <1>10 DEF Circuits, RuntimeTypeOK
    <2>2. /\ c.failures + Cardinality(Pending(j)) <= failed[j]
          /\ c.state # "CLOSED" => failed[j] >= Threshold
      BY <1>12 DEF Accounted
    <2>3. Cardinality(Pending(j)') \in Nat /\ Cardinality(Pending(j)') <= Cardinality(Pending(j))
      BY <2>1, <1>9, <1>11
    <2> QED
      BY <2>1, <2>2, <2>3
  <1>13. /\ Failed(run[e].snap) \in Circuits
         /\ Failed(run[e].snap).failures + Cardinality(Pending(k)') <= failed'[k]
         /\ Failed(run[e].snap).state # "CLOSED" => failed'[k] >= Threshold
    <2> DEFINE snap == run[e].snap
    <2>1. snap \in Circuits /\ snap.failures \in Nat /\ failed[k] \in Nat /\ failed'[k] = failed[k]
      <3>1. snap \in Circuits
        BY <1>3, Zenon DEF RunRows
      <3>2. failed[k] \in Nat /\ failed'[k] = failed[k]
        BY <1>1, <1>3, Zenon DEF RuntimeTypeOK
      <3> QED
        BY <3>1, <3>2 DEF Circuits
    <2>2. /\ snap.failures + Cardinality(Pending(k)) <= failed[k]
          /\ snap.state # "CLOSED" => failed[k] >= Threshold
      BY <1>1, <1>3, <1>5, SMTT(30) DEF BreakerInv, Accounted
    <2> HIDE DEF snap
    <2>3. snap.failures + 1 <= failed[k]
      BY <2>1, <2>2, <1>10, <1>11
    <2>4. /\ Failed(snap) \in Circuits /\ Failed(snap).failures = snap.failures + 1
          /\ Failed(snap).state # "CLOSED" => failed[k] >= Threshold
      BY SMTT(30), <2>1, <2>2, <2>3, FailedSnap
    <2>5. Failed(snap).failures + Cardinality(Pending(k)') <= failed[k]
      BY <2>1, <2>2, <2>4, <1>10, <1>11
    <2> QED
      BY <2>1, <2>4, <2>5, SMTT(30) DEF snap
  <1>14. breaker' \in [Targets -> Circuits]
    BY <1>1, <1>3, <1>13 DEF RuntimeTypeOK
  <1>15. BreakerInv'
    <2>1. ASSUME NEW j \in Targets
          PROVE  Accounted(breaker[j], j)'
      <3>1. CASE j = k
        <4>1. breaker'[j] = Failed(run[e].snap)
          BY <3>1, <1>1, <1>3, <1>5 DEF RuntimeTypeOK
        <4> QED
          BY <3>1, <4>1, <1>13 DEF Accounted
      <3>2. CASE j # k
        <4>1. breaker[j] \in Circuits /\ Accounted(breaker[j], j) /\ breaker'[j] = breaker[j]
          BY <3>2, <1>1, <1>3, <1>5 DEF RuntimeTypeOK, BreakerInv
        <4> QED
          BY <4>1, <1>12, SMTT(30) DEF Accounted
      <3> QED
        BY <3>1, <3>2
    <2>2. ASSUME NEW f \in Executors
          PROVE  /\ run'[f].pc \in {"halfOpen", "failurePut"} => Accounted(run[f].snap, Target(f))'
                 /\ run'[f].pc = "halfOpen" => run'[f].snap.state = "OPEN"
      <3>1. CASE f = e
        BY SMTT(30), <3>1, <1>4, <1>6
      <3>2. CASE f # e
        <4>1. run'[f] = run[f] /\ Target(f)' = Target(f)
          BY SMTT(30), <3>2, <1>6, <1>8
        <4>2. run[f].pc \in {"halfOpen", "failurePut"} =>
                Target(f) \in Targets /\ run[f].snap \in Circuits
          BY TargetOf, SMTT(30) DEF Calling, RunRows
        <4>3. run[f].pc \in {"halfOpen", "failurePut"} => Accounted(run[f].snap, Target(f))'
          BY <4>1, <4>2, <1>3, <1>12, Zenon DEF Accounted, BreakerInv
        <4> QED
          BY <4>1, <4>3, <1>3 DEF BreakerInv
      <3> QED
        BY SMTT(30), <3>1, <3>2
    <2> QED
      BY <2>1, <2>2 DEF BreakerInv
  <1>16. RunsInv' /\ RuntimeTypeOK'
    BY <1>1, <1>3, <1>6, <1>7, <1>14 DEF RunsInv, RuntimeTypeOK
  <1> QED
    BY <1>1, <1>4, <1>6, <1>15, <1>16 DEF RuntimeKept, RuntimeInv

\* A closed circuit counts nothing, and leaves room for every pending failure.
LEMMA ClosedAccounted == ASSUME RuntimeInv, NEW k \in Targets PROVE Accounted(Closed, k)
  <1>1. /\ breaker[k].failures \in Nat /\ failed[k] \in Nat /\ Cardinality(Pending(k)) \in Nat
        /\ breaker[k].failures + Cardinality(Pending(k)) <= failed[k]
    BY PendingFinite, ZenonT(30) DEF RuntimeInv, RuntimeTypeOK, BreakerInv, Accounted, Circuits
  <1>2. 0 + Cardinality(Pending(k)) <= failed[k]
    BY SMTT(30), <1>1
  <1> QED
    BY <1>2, SMTT(30) DEF Accounted, Closed

LEMMA SuccessStep == ASSUME RuntimeInv, NEW e \in Executors, Success(e) PROVE RuntimeKept(e)
  <1> DEFINE row == [run[e] EXCEPT !.pc = "cost", !.left = Components]
  <1>1. /\ run[e].pc = "success" /\ run' = [run EXCEPT ![e] = row]
        /\ breaker' = [breaker EXCEPT ![Target(e)] = Closed]
        /\ UNCHANGED <<costs, failed>>
    BY Zenon DEF Success
  <1>2. run[e].pc \in Calling
    BY <1>1, SMTT(30) DEF Calling
  <1>3. /\ run[e] \in RunRows /\ Progress(run[e]) /\ Target(e) \in Targets
        /\ run \in [Executors -> RunRows]
        /\ breaker \in [Targets -> Circuits] /\ costs \subseteq Events
        /\ \A k \in Targets : Accounted(breaker[k], k)
    BY <1>2, TargetOf, Zenon DEF RuntimeInv, RuntimeTypeOK, BreakerInv
  <1>4. Components \in Seq(Billed)
    BY RuntimeConstants DEF Billed
  <1>5. /\ row \in RunRows /\ row.pc = "cost" /\ row.chain = run[e].chain
        /\ row.i = run[e].i /\ row.tried = run[e].tried /\ row.outcome = run[e].outcome
        /\ row.left = Components
    BY <1>3, <1>4, ZenonT(30) DEF RunRows, Calling
  <1> HIDE DEF row
  <1>6. Progress(row) /\ run'[e] = row
    BY <1>1, <1>2, <1>3, <1>5, ZenonT(30) DEF Progress, Calling
  <1>7. RunOK(e)'
    <2>1. Charged(e, 0)' /\ 0 \in 0..Len(Components)
      BY <1>4, SMTT(30) DEF Charged
    <2>2. /\ Len(run'[e].left) = Len(Components) - 0
          /\ \A j \in 1..Len(run'[e].left) : run'[e].left[j] = Components[0 + j]
      BY <1>4, <1>5, <1>6
    <2> QED
      BY <2>1, <2>2, <1>5, <1>6, Zenon DEF RunOK
  <1>8. Closed \in Circuits
    BY DEF Closed, Circuits
  <1>9. breaker' \in [Targets -> Circuits] /\ \A k \in Targets : Accounted(breaker'[k], k)
    BY <1>1, <1>3, <1>8, ClosedAccounted
  <1> QED
    BY <1>1, <1>3, <1>5, <1>7, <1>9, QuietStep, Zenon

\* One more component is charged.
LEMMA ChargeStep ==
    ASSUME RuntimeInv, NEW e \in Executors, run[e].pc = "cost", run[e].left # <<>>,
           costs' = costs \cup {CostEvent(e, Head(run[e].left))},
           run' = [run EXCEPT ![e].left = Tail(run[e].left)], UNCHANGED <<breaker, failed>>
    PROVE  RuntimeKept(e)
  <1> DEFINE row == [run[e] EXCEPT !.left = Tail(run[e].left)]
             left == run[e].left
  <1>1. run' = [run EXCEPT ![e] = row]
    BY Zenon
  <1>2. run[e].pc \in Calling
    BY DEF Calling
  <1>3. /\ run[e] \in RunRows /\ Progress(run[e]) /\ Target(e) \in Targets
        /\ run \in [Executors -> RunRows] /\ RunOK(e)
        /\ breaker \in [Targets -> Circuits] /\ costs \subseteq Events
        /\ \A k \in Targets : Accounted(breaker[k], k)
    BY <1>2, TargetOf DEF RuntimeInv, RuntimeTypeOK, BreakerInv
  <1>4. left \in Seq(Billed)
    BY <1>3 DEF RunRows
  <1>5. /\ Head(left) \in Billed /\ Tail(left) \in Seq(Billed) /\ Len(Tail(left)) = Len(left) - 1
        /\ \A j \in 1..Len(Tail(left)) : Tail(left)[j] = left[j + 1]
        /\ Head(left) = left[1] /\ Len(left) \in Nat /\ Len(left) > 0
    BY <1>4
  <1>6. /\ row \in RunRows /\ row.pc = "cost" /\ row.chain = run[e].chain
        /\ row.i = run[e].i /\ row.tried = run[e].tried /\ row.outcome = run[e].outcome
        /\ row.left = Tail(left)
    BY <1>3, <1>5, Zenon DEF RunRows, Calling
  <1>7. PICK n \in 0..Len(Components) :
          /\ Len(left) = Len(Components) - n
          /\ \A j \in 1..Len(left) : left[j] = Components[n + j]
          /\ Charged(e, n)
    BY <1>3 DEF RunOK
  <1>8. Len(Components) \in Nat
    BY RuntimeConstants
  <1> HIDE DEF row
  <1>9. run'[e] = row /\ Progress(row)
    BY <1>1, <1>2, <1>3, <1>6 DEF Progress, Calling
  <1>10. \A c : CostEvent(e, c)' = CostEvent(e, c)
    BY <1>6, <1>9 DEF CostEvent, Target
  <1>11. CostEvent(e, Head(left)) \in Events
    BY <1>3, <1>5 DEF CostEvent, Events
  <1>12. Head(left) = Components[n + 1]
    <2>1. 1 \in 1..Len(left)
      BY <1>5
    <2>2. left[1] = Components[n + 1]
      BY <2>1, <1>7
    <2> QED
      BY <2>2, <1>5
  <1>13. Charged(e, n + 1)'
    <2>1. SUFFICES ASSUME NEW j \in 1..(n + 1) PROVE CostEvent(e, Components[j]) \in costs'
      BY <1>10 DEF Charged
    <2>2. CASE j \in 1..n
      BY <2>2, <1>7 DEF Charged
    <2>3. CASE j = n + 1
      BY <2>3, <1>12
    <2> QED
      BY <2>2, <2>3, <1>7
  <1> HIDE DEF left
  <1>14. /\ n + 1 \in 0..Len(Components)
         /\ Len(Tail(left)) = Len(Components) - (n + 1)
    BY <1>5, <1>7, <1>8
  <1>15. \A j \in 1..Len(Tail(left)) : Tail(left)[j] = Components[(n + 1) + j]
    <2>1. SUFFICES ASSUME NEW j \in 1..Len(Tail(left)) PROVE Tail(left)[j] = Components[(n + 1) + j]
      OBVIOUS
    <2>2. j + 1 \in 1..Len(left) /\ n + (j + 1) = (n + 1) + j
      BY <1>5, <1>7
    <2> QED
      BY <2>2, <1>5, <1>7
  <1>16. RunOK(e)'
    BY <1>6, <1>9, <1>13, <1>14, <1>15, Zenon DEF RunOK
  <1>17. breaker' \in [Targets -> Circuits] /\ \A k \in Targets : Accounted(breaker'[k], k)
    BY <1>3
  <1> QED
    BY <1>1, <1>3, <1>6, <1>11, <1>16, <1>17, QuietStep, Zenon DEF left

\* The store refuses a cost event.
LEMMA ChargeFaultStep ==
    ASSUME RuntimeInv, NEW e \in Executors, run[e].pc = "cost",
           run' = [run EXCEPT ![e] = GiveUp(run[e])], UNCHANGED <<breaker, costs, failed>>
    PROVE  RuntimeKept(e)
  <1> DEFINE row == GiveUp(run[e])
  <1>1. run[e].pc \in Calling \ {"failure", "failurePut"}
    BY DEF Calling
  <1>2. run[e] \in RunRows
    BY <1>1, TargetOf
  <1>3. /\ row \in RunRows /\ row.pc = "done" /\ row.chain = run[e].chain
        /\ row.outcome = "fatal" /\ Progress(row)
    BY <1>2, GivenUpRow
  <1>4. breaker' \in [Targets -> Circuits] /\ \A k \in Targets : Accounted(breaker'[k], k)
    BY DEF RuntimeInv, RuntimeTypeOK, BreakerInv
  <1>5. run' = [run EXCEPT ![e] = row]
    OBVIOUS
  <1> HIDE DEF row
  <1> QED
    BY <1>1, <1>3, <1>4, <1>5, PlainStep, Zenon DEF Calling

\* Every component is charged: the execution has succeeded.
LEMMA ChargedStep ==
    ASSUME RuntimeInv, NEW e \in Executors, run[e].pc = "cost", run[e].left = <<>>,
           run' = [run EXCEPT ![e] = [Note(run[e], "SUCCEEDED") EXCEPT !.pc = "done", !.outcome = "ok"]],
           UNCHANGED <<breaker, costs, failed>>
    PROVE  RuntimeKept(e)
  <1> DEFINE t == Note(run[e], "SUCCEEDED")
             row == [t EXCEPT !.pc = "done", !.outcome = "ok"]
  <1>1. run' = [run EXCEPT ![e] = row]
    OBVIOUS
  <1>2. run[e].pc \in Calling
    BY DEF Calling
  <1>3. /\ run[e] \in RunRows /\ Progress(run[e]) /\ Target(e) \in Targets
        /\ run \in [Executors -> RunRows] /\ RunOK(e)
        /\ breaker \in [Targets -> Circuits] /\ costs \subseteq Events
        /\ \A k \in Targets : Accounted(breaker[k], k)
    BY <1>2, TargetOf DEF RuntimeInv, RuntimeTypeOK, BreakerInv
  <1>4. /\ run[e].i \in 1..Len(run[e].chain) /\ Len(run[e].tried) = run[e].i - 1
        /\ \A j \in 1..Len(run[e].tried) : run[e].tried[j].status # "SUCCEEDED"
    BY <1>2, <1>3 DEF Progress
  <1>5. /\ t \in RunRows /\ t.chain = run[e].chain /\ t.i = run[e].i
        /\ \A j \in 1..(run[e].i - 1) : t.tried[j] = run[e].tried[j]
        /\ t.tried[run[e].i].status = "SUCCEEDED"
    BY <1>3, <1>4, NotedRow
  <1> HIDE DEF t
  <1>6. /\ row \in RunRows /\ row.pc = "done" /\ row.chain = run[e].chain
        /\ row.i = run[e].i /\ row.tried = t.tried /\ row.outcome = "ok"
    BY <1>5, Zenon DEF RunRows, Calling
  <1> HIDE DEF row
  <1>7. Progress(row)
    <2>1. \A j \in 1..row.i : (row.tried[j].status = "SUCCEEDED") <=> (j = row.i)
      <3>1. run[e].i \in Nat
        BY <1>3 DEF RunRows
      <3> QED
        BY <3>1, <1>4, <1>5, <1>6
    <2> QED
      BY <2>1, <1>4, <1>6 DEF Progress, Calling
  <1>8. run'[e] = row
    BY <1>1, <1>3
  <1>9. Charged(e, Len(Components))
    <2>1. PICK n \in 0..Len(Components) : Len(run[e].left) = Len(Components) - n /\ Charged(e, n)
      BY <1>3 DEF RunOK
    <2>2. Len(Components) \in Nat /\ Len(run[e].left) = 0
      BY RuntimeConstants
    <2>3. n = Len(Components)
      BY <2>1, <2>2
    <2> QED
      BY <2>1, <2>3
  <1>10. \A c : CostEvent(e, c)' = CostEvent(e, c)
    BY <1>6, <1>8, Zenon DEF CostEvent, Target
  <1>11. Charged(e, Len(Components))'
    BY <1>9, <1>10 DEF Charged
  <1>12. RunOK(e)'
    BY <1>6, <1>7, <1>8, <1>11 DEF RunOK
  <1>13. breaker' \in [Targets -> Circuits] /\ \A k \in Targets : Accounted(breaker'[k], k)
    BY <1>3
  <1> QED
    BY <1>1, <1>3, <1>6, <1>12, <1>13, QuietStep, Zenon

LEMMA BillStep == ASSUME RuntimeInv, NEW e \in Executors, RecordModelUsage(e) PROVE RuntimeKept(e)
  <1>1. /\ run[e].pc = "cost" /\ UNCHANGED <<breaker, failed>>
        /\ \/ /\ run[e].left # <<>> /\ costs' = costs \cup {CostEvent(e, Head(run[e].left))}
              /\ run' = [run EXCEPT ![e].left = Tail(run[e].left)]
           \/ run' = [run EXCEPT ![e] = GiveUp(run[e])] /\ UNCHANGED costs
           \/ /\ run[e].left = <<>> /\ UNCHANGED costs
              /\ run' = [run EXCEPT ![e] =
                           [Note(run[e], "SUCCEEDED") EXCEPT !.pc = "done", !.outcome = "ok"]]
    BY Zenon DEF RecordModelUsage
  <1> QED
    BY <1>1, ChargeStep, ChargeFaultStep, ChargedStep, Zenon

LEMMA ExecuteStepKept == ASSUME RuntimeInv, NEW e \in Executors, ExecuteStep(e) PROVE RuntimeKept(e)
  BY AllowStep, AllowPutStep, GenerateStep, FailureStep, FailurePutStep, SuccessStep, BillStep
  DEF ExecuteStep

LEMMA CoolDownStep ==
    ASSUME RuntimeInv, NEW k \in Targets, CoolDown(k)
    PROVE  RuntimeInv' /\ UNCHANGED <<run, costs>>
  <1>1. /\ breaker' = [breaker EXCEPT ![k] = [breaker[k] EXCEPT !.cooled = TRUE]]
        /\ UNCHANGED <<run, costs, failed>>
    BY Zenon DEF CoolDown
  <1>2. RuntimeTypeOK /\ BreakerInv /\ RunsInv /\ breaker \in [Targets -> Circuits]
    BY DEF RuntimeInv, RuntimeTypeOK
  <1>3. breaker' \in [Targets -> Circuits]
    BY <1>1, <1>2, Zenon DEF Circuits
  <1>4. \A j \in Targets : /\ breaker'[j].failures = breaker[j].failures
                           /\ breaker'[j].state = breaker[j].state
    BY <1>1, <1>2 DEF Circuits
  <1>5. \A j : Pending(j)' = Pending(j)
    BY <1>1 DEF Pending, Target
  <1>7. BreakerInv'
    BY <1>1, <1>2, <1>4, <1>5 DEF BreakerInv, Accounted, Target
  <1>8. RunsInv'
    BY <1>1, <1>2 DEF RunsInv, RunOK, Charged, CostEvent, Target
  <1> QED
    BY <1>1, <1>2, <1>3, <1>7, <1>8 DEF RuntimeInv, RuntimeTypeOK

\* Execute begins.
LEMMA StartKept ==
    ASSUME RuntimeInv, NEW e \in Executors, run[e].pc = "off", NEW chain \in Seq(Targets),
           run' = [run EXCEPT ![e] = StartRun(chain)], UNCHANGED <<breaker, costs, failed>>
    PROVE  /\ RuntimeInv' /\ run'[e].chain = chain
           /\ \A f \in Executors : f # e => run'[f] = run[f]
  <1> DEFINE row == StartRun(chain)
  <1>1. RuntimeTypeOK /\ BreakerInv /\ RunsInv /\ run \in [Executors -> RunRows]
    BY DEF RuntimeInv, RuntimeTypeOK
  <1>2. Closed \in Circuits
    BY DEF Closed, Circuits
  <1>3. /\ row \in RunRows /\ row.pc \in {"done", "allow"} /\ row.chain = chain
        /\ row.pc = "done" => row.chain = <<>>
    <2>1. /\ NotRun \in RunRows /\ NotRun.chain = <<>> /\ 1 \in Nat
      BY <1>2 DEF NotRun, RunRows
    <2>2. CASE chain = <<>>
      <3>1. row = [NotRun EXCEPT !.pc = "done", !.outcome = "ok"]
        BY <2>2 DEF StartRun
      <3> QED
        BY <2>1, <2>2, <3>1, Zenon DEF RunRows
    <2>3. CASE chain # <<>>
      <3>1. row = [NotRun EXCEPT !.pc = "allow", !.chain = chain, !.i = 1]
        BY <2>3 DEF StartRun
      <3> QED
        BY <2>1, <3>1, ZenonT(30) DEF RunRows, Calling
    <2> QED
      BY <2>2, <2>3
  <1>4. Progress(row)
    <2>1. CASE chain = <<>>
      <3>1. row.pc = "done" /\ row.outcome = "ok" /\ row.chain = <<>>
        BY <2>1 DEF StartRun, NotRun
      <3> QED
        BY <3>1 DEF Progress, Calling
    <2>2. CASE chain # <<>>
      <3>1. /\ row.pc = "allow" /\ row.outcome = "none" /\ row.chain = chain
            /\ row.i = 1 /\ row.tried = <<>>
        BY <2>2 DEF StartRun, NotRun
      <3>2. 1 \in 1..Len(chain) /\ Len(<<>>) = 1 - 1
        BY <2>2
      <3> HIDE DEF row
      <3> QED
        BY <3>1, <3>2 DEF Progress, Calling
    <2> QED
      BY <2>1, <2>2
  <1>5. run' = [run EXCEPT ![e] = row]
    OBVIOUS
  <1> HIDE DEF row
  <1>6. /\ run' \in [Executors -> RunRows] /\ run'[e] = row
        /\ \A f \in Executors : f # e => run'[f] = run[f] /\ RunOK(f)'
    BY <1>1, <1>3, <1>5, OneRun, ZenonT(30)
  <1>7. RunOK(e)'
    BY <1>3, <1>4, <1>6 DEF RunOK
  <1>8. \A k \in Targets : Accounted(breaker'[k], k)
    BY <1>1 DEF BreakerInv
  <1>9. BreakerInv'
    BY ZenonT(30), <1>1, <1>3, <1>5, <1>8, SamePending
  <1>10. RunsInv' /\ RuntimeTypeOK'
    BY <1>1, <1>6, <1>7 DEF RunsInv, RuntimeTypeOK
  <1> QED
    BY <1>3, <1>6, <1>9, <1>10 DEF RuntimeInv

LEMMA RuntimeStays == ASSUME RuntimeInv, UNCHANGED runtimeVars PROVE RuntimeInv'
  <1>1. UNCHANGED <<breaker, run, costs, failed>>
    BY DEF runtimeVars
  <1>2. RuntimeTypeOK'
    BY <1>1 DEF RuntimeInv, RuntimeTypeOK
  <1>3. \A k : Pending(k)' = Pending(k)
    BY <1>1, SMTT(30) DEF Pending, Target
  <1>4. BreakerInv'
    BY <1>1, <1>3, SMTT(30) DEF RuntimeInv, BreakerInv, Accounted, Target
  <1>5. RunsInv'
    BY <1>1 DEF RuntimeInv, RunsInv, RunOK, Charged, CostEvent, Target
  <1> QED
    BY <1>2, <1>4, <1>5 DEF RuntimeInv

LEMMA InitRuntime == ASSUME RuntimeInit PROVE RuntimeInv
  <1>1. Closed \in Circuits /\ Closed.failures = 0 /\ Closed.state = "CLOSED"
    BY DEF Closed, Circuits
  <1>2. NotRun \in RunRows /\ NotRun.pc = "off"
    BY <1>1 DEF NotRun, RunRows
  <1>3. /\ \A e \in Executors : run[e] = NotRun
        /\ \A k \in Targets : breaker[k] = Closed /\ failed[k] = 0
    BY DEF RuntimeInit
  <1>4. RuntimeTypeOK
    BY <1>1, <1>2 DEF RuntimeInit, RuntimeTypeOK
  <1>5. \A k : Pending(k) = {}
    BY <1>2, <1>3 DEF Pending
  <1>6. Cardinality({}) = 0
    BY SMTT(30), FS_EmptySet
  <1>7. BreakerInv
    BY <1>1, <1>2, <1>3, <1>5, <1>6, SMTT(30) DEF BreakerInv, Accounted
  <1>8. RunsInv
    BY <1>2, <1>3 DEF RunsInv, RunOK, Progress, Calling
  <1> QED
    BY <1>4, <1>7, <1>8 DEF RuntimeInv

-----------------------------------------------------------------------------
\* The control plane.

-----------------------------------------------------------------------------
\* Types.
Results == {None} \cup [by : Executors, outcome : {"none", "ok", "recoverable", "fatal"}]

Routed == {"EXECUTING", "VALIDATING", "COMPLETED", "FAILED"}

Statuses == {"ABSENT", "CREATED", "PLANNING", "ROUTING"} \cup Routed

TaskRows ==
  [status : Statuses, version : Nat, route : Routers \cup {None}, result : Results,
   actual : SUBSET Events]

\* The candidate a request makes of a model and the row it listed.
CandidateOf(m, row, req) ==
  [target |-> m, place |-> CHOOSE i \in DOMAIN ModelOrder : ModelOrder[i] = m,
   cost |-> EstimateCost(row.pricing, req), score |-> Score(row, req)]

CandidateRows ==
  {CandidateOf(m, row, req) : m \in Models, row \in CatalogRows, req \in Requests}

Deciding == {"list", "check", "persist", "update"}

Active == {"plan", "route"} \cup Deciding

RouterRows ==
  [pc : Active \cup {"absent", "idle", "done"}, copy : TaskRows,
   req : Requests \cup {None}, listed : [Models -> CatalogRows] \cup {<<>>},
   left : Seq(Models), eligible : SUBSET CandidateRows,
   answer : {None, "conflict", "error", "unavailable", "created"}]

Executing == {"running", "fail", "validate", "complete"}

ExecutorRows ==
  [pc : Executing \cup {"absent", "idle", "begin", "done"}, copy : TaskRows,
   answer : {None, "conflict", "error", "failed", "ok"}]

Views == [row : SUBSET (Models \X Modes), evidence : SUBSET (Models \X Modes)]

TypeOK ==
  /\ task \in TaskRows
  /\ decisions \in [Routers -> Seq(Targets) \cup {<<None>>}]
  /\ models \in [Models -> CatalogRows]
  /\ rt \in [Routers -> RouterRows]
  /\ ex \in [Executors -> ExecutorRows]
  /\ fit \in [Routers -> Views]

-----------------------------------------------------------------------------
\* A copy of the task: as long as its version is the stored one, so are the
\* status and the route it was read or saved with.
CopyOK(copy) ==
  /\ copy.version <= task.version
  /\ copy.version = task.version => copy.status = task.status /\ copy.route = task.route

Seen(r) ==
  /\ \A m \in Models : Evaluate(models[m], rt[r].req) = {} => <<m, models[m].mode>> \in fit[r].row
  /\ \A m \in Models, mode \in Modes : Stands(mode, evidence[m]) => <<m, mode>> \in fit[r].evidence

Routable(r, m) == \E mode \in Modes : <<m, mode>> \in fit[r].row \cap fit[r].evidence

RouterOK(r) ==
  /\ rt[r].pc \in Active => CopyOK(rt[r].copy) /\ rt[r].req \in Requests
  /\ rt[r].pc = "plan" => rt[r].copy.status = "CREATED"
  /\ rt[r].pc = "route" => rt[r].copy.status = "PLANNING"
  /\ rt[r].pc \in Deciding => rt[r].copy.status = "ROUTING"
  /\ rt[r].pc \in {"absent", "idle", "plan", "route", "list"} => rt[r].eligible = {}
  /\ rt[r].pc \in {"absent", "idle", "plan", "route", "list", "check", "persist"} =>
       decisions[r] = <<None>>
  /\ rt[r].pc = "check" => rt[r].listed \in [Models -> CatalogRows]
  /\ IsFiniteSet(rt[r].eligible)
  /\ \A c \in rt[r].eligible : c = CandidateOf(c.target, rt[r].listed[c.target], rt[r].req)
  /\ rt[r].pc = "update" => decisions[r] \in Seq(Targets)

RoutersInv == \A r \in Routers : RouterOK(r)

\* What a request may have seen of the catalog.
SeenOK(r) ==
  /\ rt[r].pc \in Active => Seen(r)
  /\ rt[r].pc = "check" =>
       \A m \in Models :
         Evaluate(rt[r].listed[m], rt[r].req) = {} => <<m, rt[r].listed[m].mode>> \in fit[r].row
  /\ \A c \in rt[r].eligible : Routable(r, c.target)
  /\ Decided(r) => \A i \in DOMAIN decisions[r] : Routable(r, decisions[r][i])

SeenInv ==
  /\ evidence \in [Models -> Seq({FirstRecord} \cup EvidenceRecords)]
  /\ \A r \in Routers : SeenOK(r)

-----------------------------------------------------------------------------
\* The outcome of execution e is paid for by the events a row of the task counts.
Paid(e, row) ==
  /\ row.result = [by |-> e, outcome |-> run[e].outcome]
  /\ run[e].pc = "done"
  /\ run[e].outcome = "ok" /\ run[e].chain # <<>> =>
       {CostEvent(e, Components[j]) : j \in DOMAIN Components} \subseteq row.actual

ExecutorOK(e) ==
  /\ ex[e].pc \in Executing \cup {"begin"} => CopyOK(ex[e].copy)
  /\ ex[e].pc \in {"absent", "idle", "begin"} => run[e].pc = "off"
  /\ ex[e].pc = "begin" =>
       ex[e].copy.status = "ROUTING" /\ ex[e].copy.route \in Routers
  /\ ex[e].pc \in Executing =>
       /\ ex[e].copy.route = task.route
       /\ run[e].chain = decisions[task.route]
       /\ task.status \in Routed
  /\ ex[e].pc \in {"running", "fail", "validate"} => ex[e].copy.status = "EXECUTING"
  /\ ex[e].pc = "complete" => ex[e].copy.status = "VALIDATING"
  /\ ex[e].pc \in {"fail", "validate", "complete"} => Paid(e, ex[e].copy)
  /\ ex[e].pc \in {"validate", "complete"} => run[e].outcome = "ok"
  /\ ex[e].pc = "fail" => run[e].outcome # "ok"
  /\ ex[e].answer \in {"ok", "failed"} =>
       task.status \in {"COMPLETED", "FAILED"} /\ task.result.by = e

ExecutorsInv == \A e \in Executors : ExecutorOK(e)

TaskInv ==
  /\ task.status = "ABSENT" => task = NoTask
  /\ task.status # "ABSENT" => task.version > 0
  /\ task.status \in {"CREATED", "PLANNING"} => task.route = None
  /\ task.status \in Routed => task.route # None
  /\ task.route # None => rt[task.route].pc = "done" /\ decisions[task.route] \in Seq(Targets)
  /\ task.status \in {"VALIDATING", "COMPLETED", "FAILED"} =>
       \E e \in Executors :
         /\ Paid(e, task)
         /\ ex[e].pc \in {"complete", "done"}
         /\ (run[e].outcome = "ok") <=> (task.status # "FAILED")

Inv == RuntimeInv /\ TypeOK /\ RoutersInv /\ ExecutorsInv /\ TaskInv

\* A candidate's place in the catalog's list names its model.
LEMMA CandidateTypes ==
    ASSUME NEW c \in CandidateRows
    PROVE  /\ c.score \in Int /\ c.cost \in Int /\ c.place \in Int
           /\ c.target \in Models /\ c.place \in DOMAIN ModelOrder /\ ModelOrder[c.place] = c.target
  <1>1. PICK m \in Models, row \in CatalogRows, req \in Requests : c = CandidateOf(m, row, req)
    BY DEF CandidateRows
  <1>2. /\ row.pricing.input \in Int /\ row.pricing.output \in Int /\ row.pricing.factor \in Int
        /\ row.latency \in Int /\ row.capacity \in Int
        /\ req.input \in Int /\ req.output \in Int
    BY ControlConstants
  <1>3. EstimateCost(row.pricing, req) \in Int
    BY <1>2 DEF EstimateCost
  <1>4. Score(row, req) \in Int
    <2>1. HealthPoints(row.health) \in Int
      BY DEF HealthPoints
    <2> QED
      BY <2>1, <1>2, <1>3 DEF Score
  <1>5. \E i \in DOMAIN ModelOrder : ModelOrder[i] = m
    BY DEF Models
  <1>6. c.place \in DOMAIN ModelOrder /\ ModelOrder[c.place] = m
    BY <1>1, <1>5 DEF CandidateOf
  <1>7. c.place \in Int
    BY <1>6, ControlConstants
  <1> QED
    BY <1>1, <1>3, <1>4, <1>6, <1>7 DEF CandidateOf

LEMMA ModelsAreTargets == Models \subseteq Targets
  BY ControlConstants DEF Models

\* The chain of a decision consists of models of the eligible candidates.
LEMMA ChainOf ==
    ASSUME NEW C \in SUBSET CandidateRows, IsFiniteSet(C), NEW listed, NEW req,
           \A c \in C : c = CandidateOf(c.target, listed[c.target], req),
           NEW chain \in Chains(C)
    PROVE  /\ chain \in Seq(Targets)
           /\ \A i \in DOMAIN chain : \E c \in C : chain[i] = c.target
  <1> DEFINE n == Cardinality(C)
  <1>1. PICK s \in Rankings(C) : chain = [i \in DOMAIN s |-> s[i].target]
    BY Zenon DEF Chains
  <1>2. n \in Nat /\ s \in [1..n -> C]
    BY FS_CardinalityType DEF Rankings
  <1> HIDE DEF n
  <1>4. chain = [i \in 1..n |-> s[i].target]
    BY <1>1, <1>2
  <1>5. \A i \in 1..n : s[i] \in C /\ s[i].target \in Targets
    BY <1>2, CandidateTypes, ModelsAreTargets
  <1>6. chain \in Seq(Targets)
    BY <1>2, <1>4, <1>5
  <1> QED
    BY <1>4, <1>5, <1>6

-----------------------------------------------------------------------------
\* The task.  What the stores' operations return.

LEMMA SavedRow ==
    ASSUME NEW c \in TaskRows, NEW to \in Statuses
    PROVE  /\ Moved(c, to) \in TaskRows /\ Moved(c, to).status = to
           /\ Moved(c, to).version = c.version + 1 /\ Moved(c, to).route = c.route
           /\ Moved(c, to).result = c.result /\ Moved(c, to).actual = c.actual
  <1> DEFINE n == c.version + 1
  <1>1. n \in Nat
    BY DEF TaskRows
  <1>2. Moved(c, to) = [c EXCEPT !.status = to, !.version = n]
    BY DEF Moved, Transition
  <1> HIDE DEF n
  <1>3. /\ Moved(c, to) \in TaskRows /\ Moved(c, to).status = to
        /\ Moved(c, to).version = n /\ Moved(c, to).route = c.route
        /\ Moved(c, to).result = c.result /\ Moved(c, to).actual = c.actual
    BY <1>1, <1>2, Zenon DEF TaskRows
  <1> QED
    BY <1>3 DEF n

LEMMA RoutedRow ==
    ASSUME NEW c \in TaskRows, NEW r \in Routers
    PROVE  LET row == Saved([c EXCEPT !.route = r])
           IN  /\ row \in TaskRows /\ row.status = c.status /\ row.version = c.version + 1
               /\ row.route = r /\ row.result = c.result /\ row.actual = c.actual
  <1> DEFINE n == c.version + 1
             row == Saved([c EXCEPT !.route = r])
  <1>1. n \in Nat
    BY DEF TaskRows
  <1>2. row = [c EXCEPT !.route = r, !.version = n]
    BY DEF Saved, TaskRows
  <1> HIDE DEF n, row
  <1>3. /\ row \in TaskRows /\ row.status = c.status /\ row.version = n
        /\ row.route = r /\ row.result = c.result /\ row.actual = c.actual
    BY <1>1, <1>2, Zenon DEF TaskRows
  <1> QED
    BY <1>3 DEF n, row

LEMMA NoTaskRow ==
    /\ NoTask \in TaskRows /\ NoTask.version = 0 /\ NoTask.status = "ABSENT" /\ NoTask.route = None
    /\ NewTask(NoTask) \in TaskRows /\ NewTask(NoTask).version = 1
    /\ NewTask(NoTask).status = "CREATED" /\ NewTask(NoTask).route = None
  BY Zenon DEF NoTask, NewTask, TaskRows, Statuses, Results

\* What the others may rely on while one request saves the task: their copies
\* are worth what they were, the route of a routed task and its decision stay,
\* and so does the whole of a finished task.
Onward ==
  /\ \A c \in TaskRows : CopyOK(c) => CopyOK(c)'
  /\ task.status \in Routed =>
       /\ task'.status \in Routed /\ task'.route = task.route
       /\ decisions'[task.route] = decisions[task.route]
  /\ task.status \in {"COMPLETED", "FAILED"} => task' = task

LEMMA SaveKeepsCopies ==
    ASSUME task \in TaskRows, task'.version = task.version + 1
    PROVE  \A c \in TaskRows : CopyOK(c) => CopyOK(c)'
  <1> SUFFICES ASSUME NEW c \in TaskRows, CopyOK(c) PROVE CopyOK(c)'
    OBVIOUS
  <1>1. c.version \in Nat /\ task.version \in Nat /\ c.version <= task.version
    BY DEF TaskRows, CopyOK
  <1>2. c.version <= task'.version /\ c.version # task'.version
    BY <1>1
  <1> QED
    BY <1>2 DEF CopyOK

LEMMA StayKeepsCopies ==
    ASSUME UNCHANGED task
    PROVE  \A c \in TaskRows : CopyOK(c) => CopyOK(c)'
  BY DEF CopyOK

\* A row is a copy of the task it was just read or saved as.
LEMMA FreshCopy == ASSUME task \in TaskRows PROVE CopyOK(task)
  BY DEF CopyOK, TaskRows

-----------------------------------------------------------------------------
\* The requests that do not move.

LEMMA OneRouter ==
    ASSUME TypeOK, RoutersInv, NEW r \in Routers, NEW row \in RouterRows,
           rt' = [rt EXCEPT ![r] = row], \A c \in TaskRows : CopyOK(c) => CopyOK(c)',
           \A s \in Routers : s # r => decisions'[s] = decisions[s]
    PROVE  /\ rt' \in [Routers -> RouterRows] /\ rt'[r] = row
           /\ \A s \in Routers : s # r => rt'[s] = rt[s] /\ RouterOK(s)'
  <1>1. /\ rt' \in [Routers -> RouterRows] /\ rt'[r] = row
        /\ \A s \in Routers : s # r => rt'[s] = rt[s]
    BY Zenon DEF TypeOK
  <1>2. ASSUME NEW s \in Routers, s # r
        PROVE  RouterOK(s)'
    <2>1. rt'[s] = rt[s] /\ decisions'[s] = decisions[s] /\ RouterOK(s) /\ rt[s].copy \in TaskRows
      BY <1>1, <1>2, Zenon DEF TypeOK, RouterRows, RoutersInv
    <2>2. CopyOK(rt[s].copy) => CopyOK(rt[s].copy)'
      BY <2>1, Zenon DEF CopyOK
    <2> QED
      BY <2>1, <2>2 DEF RouterOK
  <1> QED
    BY <1>1, <1>2

LEMMA IdleRouters ==
    ASSUME TypeOK, RoutersInv, UNCHANGED <<rt, decisions>>,
           \A c \in TaskRows : CopyOK(c) => CopyOK(c)'
    PROVE  RoutersInv'
  <1> SUFFICES ASSUME NEW s \in Routers PROVE RouterOK(s)'
    BY DEF RoutersInv
  <1>1. rt'[s] = rt[s] /\ decisions'[s] = decisions[s] /\ RouterOK(s) /\ rt[s].copy \in TaskRows
    BY Zenon DEF TypeOK, RouterRows, RoutersInv
  <1>2. CopyOK(rt[s].copy) => CopyOK(rt[s].copy)'
    BY <1>1 DEF CopyOK
  <1> QED
    BY <1>1, <1>2 DEF RouterOK

\* What execution e has paid stays paid.
LEMMA PaidStays ==
    ASSUME NEW e \in Executors, run'[e] = run[e], NEW row, Paid(e, row)
    PROVE  /\ row.result = [by |-> e, outcome |-> run'[e].outcome] /\ run'[e].pc = "done"
           /\ run'[e].outcome = "ok" /\ run'[e].chain # <<>> =>
                {CostEvent(e, Components[j])' : j \in DOMAIN Components} \subseteq row.actual
  <1>1. \A c : CostEvent(e, c)' = CostEvent(e, c)
    BY Zenon DEF CostEvent, Target
  <1> QED
    BY <1>1 DEF Paid

LEMMA OtherExecutor ==
    ASSUME TypeOK, Onward, NEW f \in Executors, ExecutorOK(f), ex'[f] = ex[f], run'[f] = run[f]
    PROVE  ExecutorOK(f)'
  <1>1. ex[f].copy \in TaskRows
    BY DEF TypeOK, ExecutorRows
  <1>2. CopyOK(ex[f].copy) => CopyOK(ex[f].copy)'
    BY <1>1, Zenon DEF Onward, CopyOK
  <1>3. Paid(f, ex[f].copy) => Paid(f, ex[f].copy)'
    BY PaidStays, Zenon DEF Paid
  <1> QED
    BY <1>2, <1>3, Zenon DEF ExecutorOK, Onward, Executing

LEMMA TaskStays ==
    ASSUME TaskInv, UNCHANGED task,
           task.route # None =>
             rt'[task.route].pc = "done" /\ decisions'[task.route] = decisions[task.route],
           \A e \in Executors : ex[e].pc \in {"complete", "done"} =>
             ex'[e].pc \in {"complete", "done"} /\ run'[e] = run[e]
    PROVE  TaskInv'
  <1>1. ASSUME task.status \in {"VALIDATING", "COMPLETED", "FAILED"}
        PROVE  \E e \in Executors :
                 /\ Paid(e, task)'
                 /\ ex'[e].pc \in {"complete", "done"}
                 /\ (run'[e].outcome = "ok") <=> (task.status # "FAILED")
    <2>1. PICK e \in Executors : /\ Paid(e, task)
                                 /\ ex[e].pc \in {"complete", "done"}
                                 /\ (run[e].outcome = "ok") <=> (task.status # "FAILED")
      BY <1>1 DEF TaskInv
    <2>2. run'[e] = run[e] /\ ex'[e].pc \in {"complete", "done"}
      BY <2>1, Zenon
    <2>3. Paid(e, task)'
      BY <2>1, <2>2, PaidStays, Zenon DEF Paid
    <2> QED
      BY <2>1, <2>2, <2>3, Zenon
  <1>2. /\ task'.status = "ABSENT" => task' = NoTask
        /\ task'.status # "ABSENT" => task'.version > 0
        /\ task'.status \in {"CREATED", "PLANNING"} => task'.route = None
        /\ task'.status \in Routed => task'.route # None
        /\ task'.route # None =>
             rt'[task'.route].pc = "done" /\ decisions'[task'.route] \in Seq(Targets)
    BY Zenon DEF TaskInv
  <1> QED
    BY <1>1, <1>2, Zenon DEF TaskInv

\* A routing request's step that does not save the task.
LEMMA QuietRouter ==
    ASSUME Inv, NEW r \in Routers, NEW row \in RouterRows, rt' = [rt EXCEPT ![r] = row],
           rt[r].pc # "done", UNCHANGED <<task, models, ex>>, UNCHANGED runtimeVars,
           decisions' \in [Routers -> Seq(Targets) \cup {<<None>>}],
           \A s \in Routers : s # r => decisions'[s] = decisions[s],
           fit' \in [Routers -> Views],
           RouterOK(r)'
    PROVE  Inv'
  <1>1. /\ RuntimeInv /\ TypeOK /\ RoutersInv /\ ExecutorsInv /\ TaskInv
        /\ \A c \in TaskRows : CopyOK(c) => CopyOK(c)'
    BY StayKeepsCopies DEF Inv
  <1>2. /\ rt' \in [Routers -> RouterRows] /\ rt'[r] = row
        /\ \A s \in Routers : s # r => rt'[s] = rt[s] /\ RouterOK(s)'
    BY <1>1, OneRouter, Zenon
  <1>3. task.route # None =>
          /\ task.route \in Routers /\ task.route # r
          /\ rt'[task.route].pc = "done" /\ decisions'[task.route] = decisions[task.route]
    BY <1>1, <1>2, Zenon DEF TypeOK, TaskRows, TaskInv
  <1>4. Onward
    BY <1>1, <1>3, Zenon DEF Onward, TaskInv
  <1>5. run' = run
    BY Zenon DEF runtimeVars
  <1>6. ExecutorsInv'
    BY <1>1, <1>4, <1>5, OtherExecutor, Zenon DEF ExecutorsInv
  <1>7. TaskInv'
    BY <1>1, <1>3, <1>5, TaskStays, Zenon
  <1>8. RoutersInv' /\ TypeOK'
    BY <1>1, <1>2, Zenon DEF RoutersInv, TypeOK
  <1> QED
    BY <1>1, <1>6, <1>7, <1>8, RuntimeStays, Zenon DEF Inv

\* A routing request that saves the task, before it is executed.
LEMMA SavingRouter ==
    ASSUME Inv, NEW r \in Routers, NEW row \in RouterRows, rt' = [rt EXCEPT ![r] = row],
           rt[r].pc # "done", UNCHANGED <<decisions, models, ex, fit>>, UNCHANGED runtimeVars,
           task.status \notin Routed, task' \in TaskRows, task'.version = task.version + 1,
           task'.status \in {"PLANNING", "ROUTING"},
           task'.status = "PLANNING" => task'.route = None,
           \/ task'.route = task.route
           \/ task'.route = r /\ row.pc = "done" /\ decisions[r] \in Seq(Targets),
           RouterOK(r)'
    PROVE  Inv'
  <1>1. /\ RuntimeInv /\ TypeOK /\ RoutersInv /\ ExecutorsInv /\ TaskInv /\ task \in TaskRows
        /\ \A c \in TaskRows : CopyOK(c) => CopyOK(c)'
    BY SaveKeepsCopies DEF Inv, TypeOK
  <1>2. /\ rt' \in [Routers -> RouterRows] /\ rt'[r] = row
        /\ \A s \in Routers : s # r => rt'[s] = rt[s] /\ RouterOK(s)'
    BY <1>1, OneRouter, Zenon
  <1>3. Onward
    BY <1>1 DEF Onward, Routed
  <1>4. run' = run
    BY Zenon DEF runtimeVars
  <1>5. ExecutorsInv'
    BY <1>1, <1>3, <1>4, OtherExecutor, Zenon DEF ExecutorsInv
  <1>6. task.route # None => task.route \in Routers /\ task.route # r
    BY <1>1, Zenon DEF TaskRows, TaskInv
  <1>7. task'.route # None =>
          rt'[task'.route].pc = "done" /\ decisions'[task'.route] \in Seq(Targets)
    BY <1>1, <1>2, <1>6, Zenon DEF TaskInv
  <1>8. task'.version > 0
    BY <1>1 DEF TaskRows
  <1>9. TaskInv'
    BY <1>7, <1>8, Zenon DEF TaskInv, Routed
  <1>10. RoutersInv' /\ TypeOK'
    BY <1>1, <1>2 DEF RoutersInv, TypeOK
  <1> QED
    BY <1>1, <1>5, <1>9, <1>10, RuntimeStays, Zenon DEF Inv

-----------------------------------------------------------------------------
\* The routing requests.

\* A request that answers is done.
LEMMA AnswerRow ==
    ASSUME TypeOK, NEW r \in Routers, NEW a \in {"conflict", "error", "unavailable", "created"}
    PROVE  /\ Reply(r, a) \in RouterRows /\ Reply(r, a).pc = "done"
           /\ Reply(r, a).eligible = rt[r].eligible /\ Reply(r, a).listed = rt[r].listed
           /\ Reply(r, a).req = rt[r].req
  BY ZenonT(30) DEF TypeOK, Reply, RouterRows, Active

LEMMA AnswerOK ==
    ASSUME NEW r \in Routers, RouterOK(r), NEW row, row.pc = "done",
           row.eligible = rt[r].eligible, row.listed = rt[r].listed, row.req = rt[r].req,
           rt'[r] = row
    PROVE  RouterOK(r)'
  BY DEF RouterOK, Active, Deciding

\* What is noted for a request: models of the catalog with modes of its rows.
LEMMA FitsTypes ==
    ASSUME NEW req, NEW rows \in [Models -> CatalogRows], NEW records
    PROVE  Fits(req, rows, records) \in Views
  <1> DEFINE row == {<<m, rows[m].mode>> : m \in {n \in Models : Evaluate(rows[n], req) = {}}}
             allowed == {c \in Models \X Modes : Stands(c[2], records[c[1]])}
  <1>1. Fits(req, rows, records) = [row |-> row, evidence |-> allowed]
    BY DEF Fits
  <1>2. \A m \in Models : rows[m].mode \in Modes
    BY DEF Modes
  <1>3. row \in SUBSET (Models \X Modes)
    BY <1>2
  <1>4. allowed \in SUBSET (Models \X Modes)
    OBVIOUS
  <1> HIDE DEF row, allowed
  <1> QED
    BY <1>1, <1>3, <1>4 DEF Views

LEMMA RouteLoadStep == ASSUME Inv, NEW r \in Routers, RouteLoad(r) PROVE Inv'
  <1>1. PICK req \in RouteRequests :
          LET loaded == [rt[r] EXCEPT !.copy = task, !.req = DefaultClass(req)]
          IN  /\ rt' = [rt EXCEPT ![r] =
                       CASE task.status = "CREATED"  -> [loaded EXCEPT !.pc = "plan"]
                         [] task.status = "PLANNING" -> [loaded EXCEPT !.pc = "route"]
                         [] task.status = "ROUTING"  -> [loaded EXCEPT !.pc = "list"]
                         [] OTHER -> Reply(r, "conflict")]
              /\ fit' = [fit EXCEPT ![r] = Fits(DefaultClass(req), models, evidence)]
    BY Zenon DEF RouteLoad
  <1>2. /\ rt[r].pc = "idle" /\ UNCHANGED <<task, decisions, models, ex>> /\ UNCHANGED runtimeVars
    BY DEF RouteLoad, taskVars, catalogVars
  <1>3. /\ TypeOK /\ RouterOK(r) /\ rt[r] \in RouterRows /\ task \in TaskRows
        /\ rt \in [Routers -> RouterRows] /\ decisions \in [Routers -> Seq(Targets) \cup {<<None>>}]
        /\ fit \in [Routers -> Views] /\ models \in [Models -> CatalogRows]
    BY DEF Inv, TypeOK, RoutersInv
  <1> DEFINE q == DefaultClass(req)
             load(p) == [[rt[r] EXCEPT !.copy = task, !.req = q] EXCEPT !.pc = p]
             row == CASE task.status = "CREATED"  -> load("plan")
                      [] task.status = "PLANNING" -> load("route")
                      [] task.status = "ROUTING"  -> load("list")
                      [] OTHER -> Reply(r, "conflict")
  <1>4. q \in Requests
    BY DEF Requests
  <1>5. rt' = [rt EXCEPT ![r] = row] /\ fit' = [fit EXCEPT ![r] = Fits(q, models, evidence)]
    BY <1>1
  <1>6. fit' \in [Routers -> Views]
    BY <1>3, <1>5, FitsTypes
  <1> HIDE DEF q
  <1>7. ASSUME NEW p \in {"plan", "route", "list"}
        PROVE  /\ load(p) \in RouterRows /\ load(p).pc = p /\ load(p).copy = task
               /\ load(p).req = q /\ load(p).eligible = rt[r].eligible
    BY <1>3, <1>4, Zenon DEF RouterRows, Active, Deciding
  <1>8. /\ Reply(r, "conflict") \in RouterRows /\ Reply(r, "conflict").pc = "done"
        /\ Reply(r, "conflict").eligible = rt[r].eligible
    BY <1>3, AnswerRow, Zenon
  <1>9. rt[r].eligible = {} /\ decisions[r] = <<None>> /\ CopyOK(task)
    BY <1>2, <1>3, FreshCopy, Zenon DEF RouterOK
  <1> HIDE DEF load
  <1>10. /\ row \in RouterRows /\ row.eligible = {}
         /\ \/ row.pc = "plan" /\ row.copy = task /\ row.req = q /\ task.status = "CREATED"
            \/ row.pc = "route" /\ row.copy = task /\ row.req = q /\ task.status = "PLANNING"
            \/ row.pc = "list" /\ row.copy = task /\ row.req = q /\ task.status = "ROUTING"
            \/ row.pc = "done"
    <2>1. CASE task.status = "CREATED"
      BY <2>1, <1>7, <1>9
    <2>2. CASE task.status = "PLANNING"
      BY <2>2, <1>7, <1>9
    <2>3. CASE task.status = "ROUTING"
      BY <2>3, <1>7, <1>9
    <2>4. CASE task.status \notin {"CREATED", "PLANNING", "ROUTING"}
      BY <2>4, <1>8, <1>9, Zenon
    <2> QED
      BY <2>1, <2>2, <2>3, <2>4
  <1> HIDE DEF row
  <1>11. rt'[r] = row /\ CopyOK(task)' /\ decisions'[r] = <<None>>
    BY <1>2, <1>3, <1>5, <1>9, Zenon DEF CopyOK
  <1>12. RouterOK(r)'
    <2>1. row.pc # "done" => CopyOK(rt[r].copy)'
      BY <1>2, <1>10, <1>11 DEF CopyOK
    <2>2. IsFiniteSet({})
      BY FS_EmptySet
    <2> QED
      BY <2>1, <2>2, <1>2, <1>4, <1>10, <1>11, Zenon DEF RouterOK, CopyOK, Active, Deciding
  <1> QED
    BY <1>2, <1>3, <1>5, <1>6, <1>10, <1>12, QuietRouter, Zenon

\* A copy that may be saved is the stored row as far as status and route go.
LEMMA CurrentCopy ==
    ASSUME NEW c, CopyOK(c), Current(c)
    PROVE  c.version = task.version /\ c.status = task.status /\ c.route = task.route
  BY DEF CopyOK, Current

\* A refused save ends the request.
LEMMA RefusedRouter ==
    ASSUME Inv, NEW r \in Routers, rt[r].pc # "done", NEW a \in {"error", "unavailable"},
           rt' = [rt EXCEPT ![r] = Reply(r, a)],
           UNCHANGED <<task, decisions, models, ex, fit>>, UNCHANGED runtimeVars
    PROVE  Inv'
  <1> DEFINE row == Reply(r, a)
  <1>1. /\ TypeOK /\ RouterOK(r) /\ rt \in [Routers -> RouterRows]
        /\ decisions \in [Routers -> Seq(Targets) \cup {<<None>>}]
        /\ fit \in [Routers -> Views]
    BY DEF Inv, TypeOK, RoutersInv
  <1>2. /\ row \in RouterRows /\ row.pc = "done" /\ row.eligible = rt[r].eligible
        /\ row.listed = rt[r].listed /\ row.req = rt[r].req
    BY <1>1, AnswerRow
  <1>3. rt' = [rt EXCEPT ![r] = row]
    OBVIOUS
  <1> HIDE DEF row
  <1>4. rt'[r] = row
    BY <1>1, <1>3
  <1>5. RouterOK(r)'
    BY <1>1, <1>2, <1>4, AnswerOK, Zenon
  <1> QED
    BY <1>1, <1>2, <1>3, <1>5, QuietRouter, Zenon

LEMMA RouteMoveStep ==
    ASSUME Inv, NEW r \in Routers, NEW from, NEW to, NEW then, RouteMove(r, from, to, then),
           \/ from = "plan" /\ to = "PLANNING" /\ then = "route"
           \/ from = "route" /\ to = "ROUTING" /\ then = "list"
    PROVE  Inv'
  <1>1. /\ rt[r].pc = from /\ from \in {"plan", "route"} /\ rt[r].pc # "done"
        /\ UNCHANGED <<decisions, models, ex, fit>> /\ UNCHANGED runtimeVars
        /\ to \in Statuses
    BY DEF RouteMove, catalogVars, Statuses
  <1>2. CASE ~Current(rt[r].copy)
    BY <1>1, <1>2, RefusedRouter DEF RouteMove
  <1>3. CASE Current(rt[r].copy)
    <2> DEFINE c == rt[r].copy
               row == [rt[r] EXCEPT !.pc = then, !.copy = task']
    <2>1. task' = Moved(c, to) /\ rt' = [rt EXCEPT ![r] = row]
      BY <1>3, Zenon DEF RouteMove
    <2>2. /\ TypeOK /\ RouterOK(r) /\ rt[r] \in RouterRows /\ rt \in [Routers -> RouterRows]
          /\ c \in TaskRows /\ TaskInv
      BY Zenon DEF Inv, TypeOK, RoutersInv, RouterRows
    <2>3. /\ CopyOK(c) /\ rt[r].req \in Requests /\ rt[r].eligible = {} /\ decisions[r] = <<None>>
          /\ from = "plan" => c.status = "CREATED"
          /\ from = "route" => c.status = "PLANNING"
      BY <1>1, <2>2, Zenon DEF RouterOK, Active
    <2>4. c.version = task.version /\ c.status = task.status /\ c.route = task.route
      BY SMTT(30), <1>3, <2>3, CurrentCopy
    <2>5. task.status \in {"CREATED", "PLANNING"} /\ task.route = None
      BY <1>1, <2>2, <2>3, <2>4 DEF TaskInv
    <2>6. /\ task' \in TaskRows /\ task'.status = to /\ task'.version = task.version + 1
          /\ task'.route = task.route
      BY <1>1, <2>1, <2>2, <2>4, SavedRow, Zenon
    <2>7. /\ row \in RouterRows /\ row.pc = then /\ row.copy = task' /\ row.req = rt[r].req
          /\ row.eligible = {}
      BY <2>2, <2>3, <2>6, Zenon DEF RouterRows, Active, Deciding
    <2> HIDE DEF c, row
    <2>8. rt'[r] = row /\ decisions'[r] = <<None>>
      BY <1>1, <2>1, <2>2, <2>3, Zenon
    <2>9. CopyOK(rt[r].copy)'
      BY <2>6, <2>7, <2>8 DEF CopyOK, TaskRows
    <2>10. IsFiniteSet({})
      BY FS_EmptySet, Zenon
    <2>11. RouterOK(r)'
      BY <2>3, <2>6, <2>7, <2>8, <2>9, <2>10, Zenon DEF RouterOK, Active, Deciding
    <2>12. /\ task.status \notin Routed /\ to \in {"PLANNING", "ROUTING"}
           /\ task'.status = "PLANNING" => task'.route = None
      BY <2>5, <2>6 DEF Routed
    <2> QED
      BY <1>1, <2>1, <2>6, <2>7, <2>11, <2>12, SavingRouter, Zenon
  <1> QED
    BY <1>2, <1>3

LEMMA ListModelsStep == ASSUME Inv, NEW r \in Routers, ListModels(r) PROVE Inv'
  <1> DEFINE row == IF rt[r].req.class = "deterministic"
                    THEN [rt[r] EXCEPT !.pc = "persist"]
                    ELSE [rt[r] EXCEPT !.pc = "check", !.listed = models, !.left = ModelOrder]
  <1>1. rt[r].pc = "list" /\ rt' = [rt EXCEPT ![r] = row]
    BY Zenon DEF ListModels
  <1>2. UNCHANGED <<task, decisions, models, ex, fit>> /\ UNCHANGED runtimeVars
    BY DEF ListModels, taskVars, catalogVars
  <1>3. /\ TypeOK /\ RouterOK(r) /\ rt[r] \in RouterRows /\ rt \in [Routers -> RouterRows]
        /\ decisions \in [Routers -> Seq(Targets) \cup {<<None>>}]
        /\ fit \in [Routers -> Views]
        /\ models \in [Models -> CatalogRows]
    BY Zenon DEF Inv, TypeOK, RoutersInv
  <1>4. ModelOrder \in Seq(Models)
    BY ControlConstants DEF Models
  <1>5. /\ row \in RouterRows /\ row.pc \in {"persist", "check"} /\ row.copy = rt[r].copy
        /\ row.req = rt[r].req /\ row.eligible = rt[r].eligible
        /\ row.pc = "check" => row.listed = models
    BY <1>3, <1>4, Zenon DEF RouterRows, Active, Deciding
  <1> HIDE DEF row
  <1>6. rt'[r] = row /\ decisions'[r] = decisions[r]
    BY <1>1, <1>2, <1>3, Zenon
  <1>7. /\ CopyOK(rt[r].copy) /\ rt[r].req \in Requests /\ rt[r].copy.status = "ROUTING"
        /\ rt[r].eligible = {} /\ decisions[r] = <<None>>
    BY <1>1, <1>3, Zenon DEF RouterOK, Active, Deciding
  <1>8. CopyOK(rt[r].copy)'
    BY <1>2, <1>5, <1>6, <1>7, Zenon DEF CopyOK
  <1>9. IsFiniteSet({})
    BY FS_EmptySet
  <1>10. RouterOK(r)'
    BY <1>3, <1>5, <1>6, <1>7, <1>8, <1>9, Zenon DEF RouterOK, Active, Deciding
  <1> QED
    BY <1>1, <1>2, <1>3, <1>5, <1>10, QuietRouter, Zenon

\* One model's admission is checked; it becomes a candidate if it is allowed.
LEMMA CheckedRow ==
    ASSUME Inv, NEW r \in Routers, CheckAdmission(r)
    PROVE  \E row \in RouterRows, m \in Models :
             /\ rt' = [rt EXCEPT ![r] = row] /\ m = Head(rt[r].left)
             /\ row.pc \in {"check", "persist"} /\ row.copy = rt[r].copy /\ row.req = rt[r].req
             /\ row.listed = rt[r].listed
             /\ \/ row.eligible = rt[r].eligible
                \/ /\ row.eligible = rt[r].eligible \cup {CandidateOf(m, rt[r].listed[m], rt[r].req)}
                   /\ Evaluate(rt[r].listed[m], rt[r].req) = {}
                   /\ Check(rt[r].listed[m].approval, rt[r].listed[m].mode, evidence[m])
  <1> DEFINE m == Head(rt[r].left)
             listed == rt[r].listed[m]
             p == IF Tail(rt[r].left) = <<>> THEN "persist" ELSE "check"
             rest == [rt[r] EXCEPT !.left = Tail(@), !.pc = p]
             allowed == /\ Evaluate(listed, rt[r].req) = {}
                        /\ Check(listed.approval, listed.mode, evidence[m])
             c == CandidateOf(m, listed, rt[r].req)
             row == IF allowed THEN [rest EXCEPT !.eligible = @ \cup {c}] ELSE rest
  <1>1. Candidate(r, m) = c
    BY DEF Candidate, CandidateOf
  <1>2. /\ rt[r].pc = "check" /\ rt[r].left # <<>>
        /\ rt' = [rt EXCEPT ![r] = row]
    BY <1>1, Zenon DEF CheckAdmission
  <1>3. /\ RouterOK(r) /\ rt[r] \in RouterRows /\ rt[r].left \in Seq(Models)
        /\ rt[r].eligible \subseteq CandidateRows
    BY Zenon DEF Inv, TypeOK, RoutersInv, RouterRows
  <1>4. m \in Models /\ Tail(rt[r].left) \in Seq(Models) /\ p \in {"check", "persist"}
    BY <1>2, <1>3
  <1>5. rt[r].listed \in [Models -> CatalogRows] /\ rt[r].req \in Requests
    BY <1>2, <1>3 DEF RouterOK, Active, Deciding
  <1>6. c \in CandidateRows
    BY <1>4, <1>5 DEF CandidateRows
  <1> HIDE DEF m, listed, c, p, allowed
  <1>7. /\ rest \in RouterRows /\ rest.pc = p /\ rest.copy = rt[r].copy /\ rest.req = rt[r].req
        /\ rest.listed = rt[r].listed /\ rest.eligible = rt[r].eligible
    BY <1>3, <1>4, Zenon DEF RouterRows, Active, Deciding
  <1> HIDE DEF rest
  <1>8. /\ row \in RouterRows /\ row.pc = p /\ row.copy = rt[r].copy /\ row.req = rt[r].req
        /\ row.listed = rt[r].listed
        /\ row.eligible = IF allowed THEN rt[r].eligible \cup {c} ELSE rt[r].eligible
    BY <1>3, <1>6, <1>7, SMTT(30) DEF RouterRows
  <1> HIDE DEF row
  <1>9. \/ row.eligible = rt[r].eligible
        \/ /\ row.eligible = rt[r].eligible \cup {CandidateOf(m, rt[r].listed[m], rt[r].req)}
           /\ Evaluate(rt[r].listed[m], rt[r].req) = {}
           /\ Check(rt[r].listed[m].approval, rt[r].listed[m].mode, evidence[m])
    BY <1>8 DEF allowed, c, listed
  <1> QED
    BY <1>2, <1>4, <1>8, <1>9, Zenon DEF m

LEMMA CheckAdmissionStep == ASSUME Inv, NEW r \in Routers, CheckAdmission(r) PROVE Inv'
  <1>1. PICK row \in RouterRows, m \in Models :
             /\ rt' = [rt EXCEPT ![r] = row]
             /\ row.pc \in {"check", "persist"} /\ row.copy = rt[r].copy /\ row.req = rt[r].req
             /\ row.listed = rt[r].listed
             /\ \/ row.eligible = rt[r].eligible
                \/ row.eligible = rt[r].eligible \cup {CandidateOf(m, rt[r].listed[m], rt[r].req)}
    BY CheckedRow
  <1>2. /\ rt[r].pc = "check" /\ UNCHANGED <<task, decisions, models, ex, fit>>
        /\ UNCHANGED runtimeVars
    BY DEF CheckAdmission, taskVars, catalogVars
  <1>3. /\ TypeOK /\ RouterOK(r) /\ rt[r] \in RouterRows /\ rt \in [Routers -> RouterRows]
        /\ decisions \in [Routers -> Seq(Targets) \cup {<<None>>}]
        /\ fit \in [Routers -> Views]
    BY Zenon DEF Inv, TypeOK, RoutersInv
  <1>4. rt'[r] = row /\ decisions'[r] = decisions[r]
    BY SMTT(30), <1>1, <1>2, <1>3
  <1>5. /\ CopyOK(rt[r].copy) /\ rt[r].req \in Requests /\ rt[r].copy.status = "ROUTING"
        /\ rt[r].listed \in [Models -> CatalogRows] /\ IsFiniteSet(rt[r].eligible)
        /\ decisions[r] = <<None>>
        /\ \A c \in rt[r].eligible : c = CandidateOf(c.target, rt[r].listed[c.target], rt[r].req)
    BY <1>2, <1>3, Zenon DEF RouterOK, Active, Deciding
  <1>6. CopyOK(rt[r].copy)'
    BY <1>1, <1>2, <1>4, <1>5, SMTT(30) DEF CopyOK
  <1>7. IsFiniteSet(row.eligible)
    BY SMTT(30), <1>1, <1>5, FS_AddElement
  <1>8. \A c \in row.eligible : c = CandidateOf(c.target, row.listed[c.target], row.req)
    <2>1. CandidateOf(m, rt[r].listed[m], rt[r].req).target = m
      BY SMTT(30) DEF CandidateOf
    <2> QED
      BY <2>1, <1>1, <1>5, Zenon
  <1>9. RouterOK(r)'
    BY <1>1, <1>4, <1>5, <1>6, <1>7, <1>8, Zenon DEF RouterOK, Active, Deciding
  <1> QED
    BY <1>1, <1>2, <1>3, <1>9, QuietRouter, ZenonT(30)

LEMMA PersistStep == ASSUME Inv, NEW r \in Routers, Persist(r) PROVE Inv'
  <1>1. /\ rt[r].pc = "persist" /\ UNCHANGED <<task, models, ex, fit>> /\ UNCHANGED runtimeVars
    BY DEF Persist, catalogVars
  <1>2. /\ TypeOK /\ RouterOK(r) /\ rt[r] \in RouterRows /\ rt \in [Routers -> RouterRows]
        /\ decisions \in [Routers -> Seq(Targets) \cup {<<None>>}]
        /\ fit \in [Routers -> Views]
    BY DEF Inv, TypeOK, RoutersInv
  <1>3. CASE rt' = [rt EXCEPT ![r] = Reply(r, "unavailable")] /\ UNCHANGED decisions
    BY <1>1, <1>3, RefusedRouter, Zenon
  <1>4. ASSUME NEW chain \in Chains(rt[r].eligible),
               decisions' = [decisions EXCEPT ![r] = chain], rt' = [rt EXCEPT ![r].pc = "update"]
        PROVE  Inv'
    <2> DEFINE row == [rt[r] EXCEPT !.pc = "update"]
    <2>1. rt' = [rt EXCEPT ![r] = row] /\ decisions' = [decisions EXCEPT ![r] = chain]
      BY <1>4, ZenonT(30)
    <2>2. /\ rt[r].eligible \in SUBSET CandidateRows /\ IsFiniteSet(rt[r].eligible)
          /\ \A c \in rt[r].eligible : c = CandidateOf(c.target, rt[r].listed[c.target], rt[r].req)
      BY <1>2 DEF RouterRows, RouterOK
    <2>3. chain \in Seq(Targets)
      BY <1>4, <2>2, ChainOf, ZenonT(30)
    <2>4. /\ row \in RouterRows /\ row.pc = "update" /\ row.copy = rt[r].copy
          /\ row.req = rt[r].req /\ row.eligible = rt[r].eligible /\ row.listed = rt[r].listed
      BY <1>2, Zenon DEF RouterRows, Active, Deciding
    <2> HIDE DEF row
    <2>5. /\ rt'[r] = row /\ decisions'[r] = chain
          /\ decisions' \in [Routers -> Seq(Targets) \cup {<<None>>}]
          /\ \A s \in Routers : s # r => decisions'[s] = decisions[s]
      BY <1>2, <2>1, <2>3
    <2>6. CopyOK(rt[r].copy) /\ rt[r].req \in Requests /\ rt[r].copy.status = "ROUTING"
      BY <1>1, <1>2, SMTT(30) DEF RouterOK, Active, Deciding
    <2>7. CopyOK(rt[r].copy)'
      BY <1>1, <2>4, <2>5, <2>6 DEF CopyOK
    <2>8. RouterOK(r)'
      BY <2>2, <2>3, <2>4, <2>5, <2>6, <2>7, Zenon DEF RouterOK, Active, Deciding
    <2> QED
      BY <1>1, <1>2, <2>1, <2>4, <2>5, <2>8, QuietRouter, Zenon
  <1> QED
    BY <1>3, <1>4, Zenon DEF Persist

LEMMA UpdateRouteStep == ASSUME Inv, NEW r \in Routers, UpdateRoute(r) PROVE Inv'
  <1>1. /\ rt[r].pc = "update" /\ UNCHANGED <<decisions, models, ex, fit>>
        /\ UNCHANGED runtimeVars
    BY DEF UpdateRoute, catalogVars
  <1>2. CASE ~Current(rt[r].copy)
    BY <1>1, <1>2, RefusedRouter DEF UpdateRoute
  <1>3. CASE Current(rt[r].copy)
    <2> DEFINE c == rt[r].copy
               row == Reply(r, "created")
    <2>1. task' = Saved([c EXCEPT !.route = r]) /\ rt' = [rt EXCEPT ![r] = row]
      BY <1>3, Zenon DEF UpdateRoute
    <2>2. /\ TypeOK /\ RouterOK(r) /\ rt \in [Routers -> RouterRows] /\ c \in TaskRows
      BY Zenon DEF Inv, TypeOK, RoutersInv, RouterRows
    <2>3. CopyOK(c) /\ c.status = "ROUTING" /\ decisions[r] \in Seq(Targets)
      BY <1>1, <2>2, Zenon DEF RouterOK, Active, Deciding
    <2>4. c.version = task.version /\ c.status = task.status
      BY <1>3, <2>3, CurrentCopy
    <2>5. /\ task' \in TaskRows /\ task'.status = "ROUTING" /\ task'.version = task.version + 1
          /\ task'.route = r
      BY <2>1, <2>2, <2>3, <2>4, RoutedRow
    <2>6. /\ row \in RouterRows /\ row.pc = "done" /\ row.eligible = rt[r].eligible
          /\ row.listed = rt[r].listed /\ row.req = rt[r].req
      BY <2>2, AnswerRow
    <2> HIDE DEF c, row
    <2>7. rt'[r] = row
      BY <2>1, <2>2, Zenon
    <2>8. RouterOK(r)'
      BY <2>2, <2>6, <2>7, AnswerOK, Zenon
    <2>9. task.status \notin Routed
      BY <2>3, <2>4 DEF Routed
    <2> QED
      BY <1>1, <2>1, <2>3, <2>5, <2>6, <2>8, <2>9, SavingRouter, Zenon
  <1> QED
    BY <1>2, <1>3

LEMMA RouteStepInv == ASSUME Inv, NEW r \in Routers, RouteStep(r) PROVE Inv'
  BY SMTT(30), RouteLoadStep, RouteMoveStep, ListModelsStep, CheckAdmissionStep, PersistStep, UpdateRouteStep
  DEF RouteStep

-----------------------------------------------------------------------------
\* The executing requests.

LEMMA OneExecutor ==
    ASSUME TypeOK, ExecutorsInv, Onward, NEW e \in Executors, NEW row \in ExecutorRows,
           ex' = [ex EXCEPT ![e] = row], \A f \in Executors : f # e => run'[f] = run[f]
    PROVE  /\ ex' \in [Executors -> ExecutorRows] /\ ex'[e] = row
           /\ \A f \in Executors : f # e => ex'[f] = ex[f] /\ ExecutorOK(f)'
  <1>1. /\ ex' \in [Executors -> ExecutorRows] /\ ex'[e] = row
        /\ \A f \in Executors : f # e => ex'[f] = ex[f]
    BY DEF TypeOK
  <1> QED
    BY <1>1, OtherExecutor, Zenon DEF ExecutorsInv

\* An executing request's step that does not save the task.
LEMMA QuietExecutor ==
    ASSUME Inv, NEW e \in Executors, NEW row \in ExecutorRows, ex' = [ex EXCEPT ![e] = row],
           UNCHANGED <<task, decisions, models, rt, fit>>, RuntimeInv',
           \A f \in Executors : f # e => run'[f] = run[f],
           ex[e].pc \in {"complete", "done"} =>
             row.pc \in {"complete", "done"} /\ run'[e] = run[e],
           ExecutorOK(e)'
    PROVE  Inv'
  <1>1. /\ TypeOK /\ RoutersInv /\ ExecutorsInv /\ TaskInv
        /\ \A c \in TaskRows : CopyOK(c) => CopyOK(c)'
    BY StayKeepsCopies, Zenon DEF Inv
  <1>2. Onward
    BY <1>1 DEF Onward
  <1>3. /\ ex' \in [Executors -> ExecutorRows] /\ ex'[e] = row
        /\ \A f \in Executors : f # e => ex'[f] = ex[f] /\ ExecutorOK(f)'
    BY <1>1, <1>2, OneExecutor, Zenon
  <1>4. ExecutorsInv'
    BY <1>3, Zenon DEF ExecutorsInv
  <1>5. RoutersInv'
    BY <1>1, IdleRouters, Zenon
  <1>6. \A f \in Executors : ex[f].pc \in {"complete", "done"} =>
          ex'[f].pc \in {"complete", "done"} /\ run'[f] = run[f]
    BY <1>3, Zenon
  <1>7. task.route # None =>
          rt'[task.route].pc = "done" /\ decisions'[task.route] = decisions[task.route]
    BY <1>1, SMTT(30) DEF TaskInv
  <1>8. TaskInv'
    BY SMTT(30), <1>1, <1>6, <1>7, TaskStays
  <1>9. TypeOK'
    BY <1>1, <1>3, Zenon DEF TypeOK
  <1> QED
    BY <1>4, <1>5, <1>8, <1>9, Zenon DEF Inv

\* An executing request that saves the task.
LEMMA SavingExecutor ==
    ASSUME Inv, NEW e \in Executors, NEW row \in ExecutorRows, ex' = [ex EXCEPT ![e] = row],
           UNCHANGED <<decisions, models, rt, fit>>, RuntimeInv',
           \A f \in Executors : f # e => run'[f] = run[f],
           task.status \in {"ROUTING", "EXECUTING", "VALIDATING"}, task.route # None,
           task' \in TaskRows, task'.version = task.version + 1, task'.route = task.route,
           task'.status \in Routed,
           task'.status # "EXECUTING" =>
             /\ Paid(e, task)' /\ row.pc \in {"complete", "done"}
             /\ (run'[e].outcome = "ok") <=> (task'.status # "FAILED"),
           ExecutorOK(e)'
    PROVE  Inv'
  <1>1. /\ TypeOK /\ RoutersInv /\ ExecutorsInv /\ TaskInv /\ task \in TaskRows
        /\ \A c \in TaskRows : CopyOK(c) => CopyOK(c)'
    BY SaveKeepsCopies, Zenon DEF Inv, TypeOK
  <1>2. Onward
    BY <1>1 DEF Onward
  <1>3. /\ ex' \in [Executors -> ExecutorRows] /\ ex'[e] = row
        /\ \A f \in Executors : f # e => ex'[f] = ex[f] /\ ExecutorOK(f)'
    BY <1>1, <1>2, OneExecutor, Zenon
  <1>4. ExecutorsInv'
    BY <1>3, Zenon DEF ExecutorsInv
  <1>5. RoutersInv'
    BY <1>1, IdleRouters, Zenon
  <1>6. task'.version > 0 /\ task'.status \notin {"ABSENT", "CREATED", "PLANNING"}
    BY <1>1, SMTT(30) DEF TaskRows, Routed
  <1>7. rt'[task'.route].pc = "done" /\ decisions'[task'.route] \in Seq(Targets)
    BY <1>1, Zenon DEF TaskInv
  <1>8. task'.status \in {"VALIDATING", "COMPLETED", "FAILED"} =>
          \E f \in Executors :
            /\ Paid(f, task)'
            /\ ex'[f].pc \in {"complete", "done"}
            /\ (run'[f].outcome = "ok") <=> (task'.status # "FAILED")
    BY SMTT(30), <1>3
  <1>9. TaskInv'
    BY <1>6, <1>7, <1>8, SMTT(30) DEF TaskInv
  <1>10. TypeOK'
    BY <1>1, <1>3 DEF TypeOK
  <1> QED
    BY <1>4, <1>5, <1>9, <1>10, Zenon DEF Inv

\* A refused request ends.
LEMMA RefusedExecutor ==
    ASSUME Inv, NEW e \in Executors, NEW a \in {"conflict", "error"},
           ex' = [ex EXCEPT ![e] = Refuse(e, a)],
           UNCHANGED <<task, decisions, models, rt, fit, run>>, RuntimeInv'
    PROVE  Inv'
  <1> DEFINE row == Refuse(e, a)
  <1>1. ex[e] \in ExecutorRows /\ ex \in [Executors -> ExecutorRows]
    BY DEF Inv, TypeOK
  <1>2. row \in ExecutorRows /\ row.pc = "done" /\ row.answer = a
    BY <1>1, Zenon DEF Refuse, ExecutorRows
  <1>3. ex' = [ex EXCEPT ![e] = row]
    OBVIOUS
  <1> HIDE DEF row
  <1>4. ex'[e] = row
    BY <1>1, <1>3, Zenon
  <1>5. ExecutorOK(e)'
    BY <1>2, <1>4 DEF ExecutorOK, Executing
  <1> QED
    BY <1>2, <1>3, <1>5, QuietExecutor, Zenon

LEMMA ExecuteLoadStep == ASSUME Inv, NEW e \in Executors, ExecuteLoad(e) PROVE Inv'
  <1>1. /\ ex[e].pc = "idle"
        /\ UNCHANGED <<task, decisions, models, rt, fit, breaker, costs, failed, storeFaults>>
    BY DEF ExecuteLoad, taskVars, catalogVars
  <1>2. /\ RuntimeInv /\ TypeOK /\ TaskInv /\ ExecutorOK(e) /\ task \in TaskRows
        /\ ex[e] \in ExecutorRows /\ ex \in [Executors -> ExecutorRows]
    BY DEF Inv, TypeOK, ExecutorsInv
  <1>4. UNCHANGED run => RuntimeInv'
    BY <1>1, <1>2, RuntimeStays DEF runtimeVars
  <1>5. CASE ex' = [ex EXCEPT ![e] = Refuse(e, "conflict")] /\ UNCHANGED run
    BY <1>1, <1>4, <1>5, RefusedExecutor, Zenon
  <1> DEFINE load(p) == [[ex[e] EXCEPT !.copy = task] EXCEPT !.pc = p]
  <1>6. ASSUME NEW p \in {"begin", "running"}
        PROVE  /\ load(p) \in ExecutorRows /\ load(p).pc = p /\ load(p).copy = task
               /\ load(p).answer = ex[e].answer
    BY <1>2, Zenon DEF ExecutorRows, Executing
  <1>7. /\ CopyOK(task) /\ run[e].pc = "off"
        /\ ex[e].answer \in {"ok", "failed"} =>
             task.status \in {"COMPLETED", "FAILED"} /\ task.result.by = e
    BY <1>1, <1>2, FreshCopy DEF ExecutorOK
  <1>8. CASE /\ task.status = "ROUTING" /\ task.route # None /\ UNCHANGED run
             /\ ex' = [ex EXCEPT ![e] = load("begin")]
    <2> DEFINE row == load("begin")
    <2>1. /\ row \in ExecutorRows /\ row.pc = "begin" /\ row.copy = task
          /\ row.answer = ex[e].answer
      BY <1>6
    <2>2. ex' = [ex EXCEPT ![e] = row]
      BY <1>8
    <2> HIDE DEF row
    <2>3. ex'[e] = row /\ task.route \in Routers
      BY <1>2, <1>8, <2>2, Zenon DEF TaskRows
    <2>4. CopyOK(ex[e].copy)'
      BY <1>1, <1>7, <2>1, <2>3, Zenon DEF CopyOK
    <2>5. ExecutorOK(e)'
      BY <1>1, <1>7, <1>8, <2>1, <2>3, <2>4, Zenon DEF ExecutorOK, Executing
    <2> QED
      BY <1>1, <1>4, <1>8, <2>1, <2>2, <2>5, QuietExecutor, Zenon
  <1>9. CASE /\ task.status = "EXECUTING" /\ task.route # None
             /\ ex' = [ex EXCEPT ![e] = load("running")]
             /\ run' = [run EXCEPT ![e] = StartRun(decisions[task.route])]
    <2> DEFINE row == load("running")
    <2>1. /\ row \in ExecutorRows /\ row.pc = "running" /\ row.copy = task
          /\ row.answer = ex[e].answer
      BY <1>6
    <2>2. ex' = [ex EXCEPT ![e] = row]
      BY <1>9
    <2> HIDE DEF row
    <2>3. ex'[e] = row /\ decisions[task.route] \in Seq(Targets)
      BY <1>2, <1>9, <2>2 DEF TaskInv
    <2>4. /\ RuntimeInv' /\ run'[e].chain = decisions[task.route]
          /\ \A f \in Executors : f # e => run'[f] = run[f]
      BY <1>1, <1>2, <1>7, <1>9, <2>3, StartKept, ZenonT(30)
    <2>5. CopyOK(ex[e].copy)'
      BY <1>1, <1>7, <2>1, <2>3, Zenon DEF CopyOK
    <2>6. ExecutorOK(e)'
      BY <1>1, <1>7, <1>9, <2>1, <2>3, <2>4, <2>5, Zenon DEF ExecutorOK, Executing, Routed
    <2> QED
      BY <1>1, <2>1, <2>2, <2>4, <2>6, QuietExecutor, Zenon
  <1> QED
    BY <1>5, <1>8, <1>9, Zenon DEF ExecuteLoad

LEMMA BeginExecutingStep == ASSUME Inv, NEW e \in Executors, BeginExecuting(e) PROVE Inv'
  <1>1. /\ ex[e].pc = "begin"
        /\ UNCHANGED <<decisions, models, rt, fit, breaker, costs, failed, storeFaults>>
    BY DEF BeginExecuting, catalogVars
  <1>2. /\ RuntimeInv /\ TypeOK /\ TaskInv /\ ExecutorOK(e) /\ ex[e].copy \in TaskRows
        /\ ex[e] \in ExecutorRows /\ ex \in [Executors -> ExecutorRows]
    BY DEF Inv, TypeOK, ExecutorsInv, ExecutorRows
  <1>3. CASE ~Current(ex[e].copy)
    <2>1. ex' = [ex EXCEPT ![e] = Refuse(e, "error")] /\ UNCHANGED <<task, run>>
      BY <1>3 DEF BeginExecuting
    <2>2. RuntimeInv'
      BY <1>1, <1>2, <2>1, RuntimeStays, Zenon DEF runtimeVars
    <2> QED
      BY <1>1, <2>1, <2>2, RefusedExecutor, Zenon
  <1>4. CASE Current(ex[e].copy)
    <2> DEFINE c == ex[e].copy
               row == [ex[e] EXCEPT !.pc = "running", !.copy = task']
    <2>1. /\ task' = Moved(c, "EXECUTING") /\ ex' = [ex EXCEPT ![e] = row]
          /\ run' = [run EXCEPT ![e] = StartRun(decisions[c.route])]
      BY <1>4, ZenonT(30) DEF BeginExecuting
    <2>2. /\ CopyOK(c) /\ run[e].pc = "off" /\ c.status = "ROUTING" /\ c.route \in Routers
          /\ ex[e].answer \in {"ok", "failed"} => task.status \in {"COMPLETED", "FAILED"}
      BY <1>1, <1>2, SMTT(30) DEF ExecutorOK
    <2>3. c.version = task.version /\ c.status = task.status /\ c.route = task.route
      BY SMTT(30), <1>4, <2>2, CurrentCopy
    <2>4. /\ task.route # None /\ decisions[task.route] \in Seq(Targets)
          /\ ex[e].answer \notin {"ok", "failed"}
      BY <1>2, <2>2, <2>3, ControlConstants, Zenon DEF TaskInv
    <2>5. /\ task' \in TaskRows /\ task'.status = "EXECUTING"
          /\ task'.version = task.version + 1 /\ task'.route = task.route
      BY <1>2, <2>1, <2>3, SavedRow DEF Statuses, Routed
    <2>6. /\ row \in ExecutorRows /\ row.pc = "running" /\ row.copy = task'
          /\ row.answer = ex[e].answer
      BY <1>2, <2>5, Zenon DEF ExecutorRows, Executing
    <2> HIDE DEF c, row
    <2>7. /\ RuntimeInv' /\ run'[e].chain = decisions[task.route]
          /\ \A f \in Executors : f # e => run'[f] = run[f]
      BY <1>1, <1>2, <2>1, <2>2, <2>3, <2>4, StartKept, ZenonT(30)
    <2>8. ex'[e] = row
      BY <1>2, <2>1, Zenon
    <2>9. CopyOK(ex[e].copy)'
      BY <2>5, <2>6, <2>8 DEF CopyOK, TaskRows
    <2>10. ExecutorOK(e)'
      BY <1>1, <2>4, <2>5, <2>6, <2>7, <2>8, <2>9, Zenon DEF ExecutorOK, Executing, Routed
    <2>11. task.status = "ROUTING" /\ task'.status \in Routed
      BY <2>2, <2>3, <2>5 DEF Routed
    <2> QED
      BY <1>1, <2>1, <2>4, <2>5, <2>6, <2>7, <2>10, <2>11, SavingExecutor, Zenon
  <1> QED
    BY <1>3, <1>4

LEMMA RunningStep ==
    ASSUME Inv, NEW e \in Executors, ex[e].pc = "running", ExecuteStep(e), UNCHANGED controlVars
    PROVE  Inv'
  <1>1. UNCHANGED <<task, decisions, models, rt, ex, fit>>
    BY DEF controlVars
  <1>2. RuntimeInv /\ ExecutorOK(e) /\ ex[e] \in ExecutorRows /\ ex \in [Executors -> ExecutorRows]
    BY DEF Inv, TypeOK, ExecutorsInv
  <1>3. /\ RuntimeInv' /\ run'[e].chain = run[e].chain
        /\ \A f \in Executors : f # e => run'[f] = run[f]
    BY <1>2, ExecuteStepKept, Zenon DEF RuntimeKept
  <1>4. ex' = [ex EXCEPT ![e] = ex[e]] /\ ex'[e] = ex[e]
    BY SMTT(30), <1>1, <1>2
  <1>5. CopyOK(ex[e].copy) => CopyOK(ex[e].copy)'
    BY <1>1 DEF CopyOK
  <1>6. ExecutorOK(e)'
    BY <1>1, <1>2, <1>3, <1>4, <1>5, Zenon DEF ExecutorOK, Executing
  <1> QED
    BY <1>1, <1>2, <1>3, <1>4, <1>6, QuietExecutor, ZenonT(30)

LEMMA ReturnedStep == ASSUME Inv, NEW e \in Executors, Returned(e) PROVE Inv'
  <1> DEFINE p == IF run[e].outcome = "ok" THEN "validate" ELSE "fail"
             result == [by |-> e, outcome |-> run[e].outcome]
             copy == [ex[e].copy EXCEPT !.result = result, !.actual = costs]
             row == [ex[e] EXCEPT !.pc = p, !.copy = copy]
  <1>1. ex[e].pc = "running" /\ run[e].pc = "done"
    BY DEF Returned
  <1>2. /\ UNCHANGED <<task, decisions, models, rt, fit>> /\ UNCHANGED runtimeVars
    BY Zenon DEF Returned, taskVars, catalogVars
  <1>3. /\ RuntimeInv /\ TypeOK /\ ExecutorOK(e) /\ ex[e].copy \in TaskRows
        /\ ex[e] \in ExecutorRows /\ ex \in [Executors -> ExecutorRows]
        /\ run[e] \in RunRows /\ RunOK(e) /\ costs \subseteq Events
    BY DEF Inv, TypeOK, ExecutorsInv, ExecutorRows, RuntimeInv, RuntimeTypeOK, RunsInv
  <1>4. ex' = [ex EXCEPT ![e] = row]
    BY <1>3, Zenon DEF Returned, AggregateTask, ExecutorRows, TaskRows
  <1>5. p \in {"validate", "fail"} /\ result \in Results
    BY <1>3, Zenon DEF RunRows, Results
  <1> HIDE DEF p, result
  <1>6. /\ copy \in TaskRows /\ copy.status = ex[e].copy.status /\ copy.route = ex[e].copy.route
        /\ copy.version = ex[e].copy.version /\ copy.result = result /\ copy.actual = costs
    BY <1>3, <1>5, Zenon DEF TaskRows
  <1> HIDE DEF copy
  <1>7. /\ row \in ExecutorRows /\ row.pc = p /\ row.copy = copy /\ row.answer = ex[e].answer
    BY <1>3, <1>5, <1>6, Zenon DEF ExecutorRows, Executing
  <1> HIDE DEF row
  <1>8. ex'[e] = row /\ run' = run /\ costs' = costs /\ RuntimeInv'
    BY <1>2, <1>3, <1>4, RuntimeStays, Zenon DEF runtimeVars
  <1>9. run[e].outcome = "ok" /\ run[e].chain # <<>> =>
          {CostEvent(e, Components[j]) : j \in DOMAIN Components} \subseteq costs
    <2>1. DOMAIN Components = 1..Len(Components)
      BY RuntimeConstants
    <2> QED
      BY <2>1, <1>1, <1>3, Zenon DEF RunOK, Charged
  <1>10. \A c : CostEvent(e, c)' = CostEvent(e, c)
    BY <1>8, Zenon DEF CostEvent, Target
  <1>11. Paid(e, ex[e].copy)'
    BY <1>1, <1>6, <1>7, <1>8, <1>9, <1>10, Zenon DEF Paid, result
  <1>12. CopyOK(ex[e].copy)'
    BY <1>1, <1>2, <1>3, <1>6, <1>7, <1>8, Zenon DEF CopyOK, ExecutorOK, Executing
  <1>13. ExecutorOK(e)'
    BY <1>1, <1>2, <1>3, <1>5, <1>6, <1>7, <1>8, <1>11, <1>12, Zenon DEF ExecutorOK, Executing, p
  <1> QED
    BY <1>1, <1>2, <1>4, <1>7, <1>8, <1>13, QuietExecutor, Zenon

LEMMA ExecuteMoveStep ==
    ASSUME Inv, NEW e \in Executors, NEW from, NEW to, NEW then, NEW answer,
           ExecuteMove(e, from, to, then, answer),
           \/ from = "fail" /\ to = "FAILED" /\ then = "done" /\ answer = "failed"
           \/ from = "validate" /\ to = "VALIDATING" /\ then = "complete" /\ answer = None
           \/ from = "complete" /\ to = "COMPLETED" /\ then = "done" /\ answer = "ok"
    PROVE  Inv'
  <1>1. /\ ex[e].pc = from /\ from \in {"fail", "validate", "complete"} /\ to \in Routed
        /\ to # "EXECUTING" /\ UNCHANGED <<decisions, models, rt, fit>>
        /\ UNCHANGED runtimeVars
    BY Zenon DEF ExecuteMove, catalogVars, Routed
  <1>2. /\ RuntimeInv /\ TypeOK /\ TaskInv /\ ExecutorOK(e) /\ ex[e].copy \in TaskRows
        /\ ex[e] \in ExecutorRows /\ ex \in [Executors -> ExecutorRows]
    BY DEF Inv, TypeOK, ExecutorsInv, ExecutorRows
  <1>3. RuntimeInv' /\ run' = run
    BY <1>1, <1>2, RuntimeStays DEF runtimeVars
  <1>4. CASE ~Current(ex[e].copy)
    <2>1. ex' = [ex EXCEPT ![e] = Refuse(e, "error")] /\ UNCHANGED task
      BY <1>4 DEF ExecuteMove
    <2> QED
      BY <1>1, <1>3, <2>1, RefusedExecutor, Zenon
  <1>5. CASE Current(ex[e].copy)
    <2> DEFINE c == ex[e].copy
               row == [ex[e] EXCEPT !.pc = then, !.copy = task', !.answer = answer]
    <2>1. task' = Moved(c, to) /\ ex' = [ex EXCEPT ![e] = row]
      BY <1>5, ZenonT(30) DEF ExecuteMove
    <2>2. /\ CopyOK(c) /\ Paid(e, c) /\ run[e].chain = decisions[task.route]
          /\ from \in {"fail", "validate"} => c.status = "EXECUTING"
          /\ from = "complete" => c.status = "VALIDATING"
          /\ from \in {"validate", "complete"} => run[e].outcome = "ok"
          /\ from = "fail" => run[e].outcome # "ok"
      BY <1>1, <1>2, Zenon DEF ExecutorOK, Executing
    <2>3. c.version = task.version /\ c.status = task.status /\ c.route = task.route
      BY <1>5, <2>2, CurrentCopy, ZenonT(30)
    <2>4. task.status \in {"EXECUTING", "VALIDATING"} /\ task.route # None
      BY <1>1, <1>2, <2>2, <2>3, Zenon DEF TaskInv, Routed
    <2>5. /\ task' \in TaskRows /\ task'.status = to
          /\ task'.version = task.version + 1 /\ task'.route = task.route
          /\ task'.result = c.result /\ task'.actual = c.actual
      BY <1>1, <1>2, <2>1, <2>3, SavedRow DEF Statuses
    <2>6. /\ row \in ExecutorRows /\ row.pc = then /\ row.copy = task' /\ row.answer = answer
      BY <1>2, <2>5, Zenon DEF ExecutorRows, Executing
    <2>7. /\ c.result = [by |-> e, outcome |-> run'[e].outcome] /\ run'[e].pc = "done"
          /\ run'[e].outcome = "ok" /\ run'[e].chain # <<>> =>
               {CostEvent(e, Components[j])' : j \in DOMAIN Components} \subseteq c.actual
      BY <1>3, <2>2, PaidStays, Zenon
    <2> HIDE DEF c, row
    <2>8. ex'[e] = row
      BY SMTT(30), <1>2, <2>1
    <2>9. Paid(e, task)' /\ Paid(e, ex[e].copy)'
      BY <2>5, <2>6, <2>7, <2>8, SMTT(30) DEF Paid
    <2>10. CopyOK(ex[e].copy)'
      BY <2>5, <2>6, <2>8 DEF CopyOK, TaskRows
    <2>11. (run'[e].outcome = "ok") <=> (task'.status # "FAILED")
      BY SMTT(30), <1>3, <2>2, <2>5
    <2>12. task'.result.by = e
      BY <2>5, <2>7
    <2>13. ExecutorOK(e)'
      <3>1. CASE from = "validate"
        BY <3>1, <1>1, <1>3, <2>2, <2>5, <2>6, <2>8, <2>9, <2>10, Zenon
        DEF ExecutorOK, Executing, Routed, None
      <3>2. CASE from \in {"fail", "complete"}
        BY <3>2, <2>5, <2>6, <2>8, <2>12, Zenon DEF ExecutorOK, Executing
      <3> QED
        BY <3>1, <3>2, <1>1, Zenon
    <2> QED
      BY <1>1, <1>3, <2>1, <2>4, <2>5, <2>6, <2>9, <2>11, <2>13, SavingExecutor, Zenon
  <1> QED
    BY <1>4, <1>5

LEMMA ExecutorStepInv == ASSUME Inv, NEW e \in Executors, ExecutorStep(e) PROVE Inv'
  BY ExecuteLoadStep, BeginExecutingStep, RunningStep, ReturnedStep, ExecuteMoveStep, Zenon
  DEF ExecutorStep

-----------------------------------------------------------------------------
\* The other steps.

LEMMA CreateTaskStep == ASSUME Inv, CreateTask PROVE Inv'
  <1>1. /\ task.status = "ABSENT" /\ task' = NewTask(NoTask)
        /\ UNCHANGED <<decisions, models, rt, ex, fit>> /\ UNCHANGED runtimeVars
    BY DEF CreateTask, catalogVars
  <1>2. RuntimeInv /\ TypeOK /\ RoutersInv /\ ExecutorsInv /\ TaskInv /\ task \in TaskRows
    BY Zenon DEF Inv, TypeOK
  <1>3. /\ task.version = 0 /\ task' \in TaskRows /\ task'.version = 1
        /\ task'.status = "CREATED" /\ task'.route = None
    BY <1>1, <1>2, NoTaskRow, Zenon DEF TaskInv
  <1>4. task'.version = task.version + 1
    BY <1>3
  <1>5. \A c \in TaskRows : CopyOK(c) => CopyOK(c)'
    BY <1>2, <1>4, SaveKeepsCopies, Zenon
  <1>6. Onward
    BY <1>1, <1>5, Zenon DEF Onward, Routed
  <1>7. run' = run /\ RuntimeInv'
    BY <1>1, <1>2, RuntimeStays, Zenon DEF runtimeVars
  <1>8. RoutersInv'
    BY <1>1, <1>2, <1>5, IdleRouters, Zenon
  <1>9. ExecutorsInv'
    BY <1>1, <1>2, <1>6, <1>7, OtherExecutor, Zenon DEF ExecutorsInv
  <1>10. TypeOK'
    BY <1>1, <1>2, <1>3, Zenon DEF TypeOK
  <1>11. TaskInv'
    BY <1>3 DEF TaskInv, Routed
  <1> QED
    BY <1>7, <1>8, <1>9, <1>10, <1>11, Zenon DEF Inv

\* A step that leaves the task and the requests alone.
LEMMA ElsewhereStep ==
    ASSUME Inv, UNCHANGED <<task, decisions, rt, ex, run>>, RuntimeInv',
           models' \in [Models -> CatalogRows],
           fit' \in [Routers -> Views]
    PROVE  Inv'
  <1>1. TypeOK /\ RoutersInv /\ ExecutorsInv /\ TaskInv
    BY DEF Inv
  <1>2. \A c \in TaskRows : CopyOK(c) => CopyOK(c)'
    BY StayKeepsCopies, Zenon
  <1>3. Onward
    BY <1>2 DEF Onward
  <1>4. RoutersInv'
    BY <1>1, <1>2, IdleRouters, Zenon
  <1>5. ExecutorsInv'
    BY <1>1, <1>3, OtherExecutor, Zenon DEF ExecutorsInv
  <1>6. task.route # None =>
          rt'[task.route].pc = "done" /\ decisions'[task.route] = decisions[task.route]
    BY <1>1, Zenon DEF TaskInv
  <1>7. TaskInv'
    BY <1>1, <1>6, TaskStays, Zenon
  <1>8. TypeOK'
    BY <1>1, Zenon DEF TypeOK
  <1> QED
    BY <1>4, <1>5, <1>7, <1>8, Zenon DEF Inv

LEMMA ObserveTypes ==
    ASSUME NEW rows \in [Models -> CatalogRows], NEW records, Observe(rows, records),
           fit \in [Routers -> Views]
    PROVE  fit' \in [Routers -> Views]
  <1> SUFFICES ASSUME NEW r \in Routers
               PROVE  fit'[r] \in Views
    BY Zenon DEF Observe
  <1> DEFINE now == Fits(rt[r].req, rows, records)
  <1>1. now \in Views
    BY FitsTypes, Zenon
  <1>2. fit'[r] = IF rt[r].pc \in {"absent", "idle", "done"} THEN fit[r]
                  ELSE [row |-> fit[r].row \cup now.row, evidence |-> fit[r].evidence \cup now.evidence]
    BY DEF Observe
  <1> HIDE DEF now
  <1> QED
    BY <1>1, <1>2 DEF Views

LEMMA UpdateModelStep == ASSUME Inv, NEW m \in Models, UpdateModel(m) PROVE Inv'
  <1>1. PICK row \in ModelRows : models' = [models EXCEPT ![m] = ApplyDefaults(row)]
    BY Zenon DEF UpdateModel
  <1>2. /\ Observe(models', evidence) /\ UNCHANGED <<task, decisions, rt, ex>>
        /\ UNCHANGED runtimeVars
    BY DEF UpdateModel, taskVars
  <1>3. /\ RuntimeInv /\ models \in [Models -> CatalogRows]
        /\ fit \in [Routers -> Views]
    BY DEF Inv, TypeOK
  <1>4. ApplyDefaults(row) \in CatalogRows
    BY DEF CatalogRows
  <1>5. models' \in [Models -> CatalogRows]
    BY <1>1, <1>3, <1>4, Zenon
  <1>6. fit' \in [Routers -> Views]
    BY <1>2, <1>3, <1>5, ObserveTypes, Zenon
  <1>7. RuntimeInv' /\ UNCHANGED run
    BY <1>2, <1>3, RuntimeStays, Zenon DEF runtimeVars
  <1> QED
    BY <1>2, <1>5, <1>6, <1>7, ElsewhereStep, Zenon

LEMMA AppendStep == ASSUME Inv, NEW m \in Models, AppendAdmissionEvidence(m) PROVE Inv'
  <1>1. /\ Observe(models, evidence') /\ UNCHANGED <<task, decisions, models, rt, ex>>
        /\ UNCHANGED runtimeVars
    BY DEF AppendAdmissionEvidence, taskVars
  <1>2. /\ RuntimeInv /\ models \in [Models -> CatalogRows]
        /\ fit \in [Routers -> Views]
    BY DEF Inv, TypeOK
  <1>3. fit' \in [Routers -> Views]
    BY <1>1, <1>2, ObserveTypes, Zenon
  <1>4. RuntimeInv' /\ UNCHANGED run
    BY <1>1, <1>2, RuntimeStays, Zenon DEF runtimeVars
  <1> QED
    BY SMTT(30), <1>1, <1>2, <1>3, <1>4, ElsewhereStep

LEMMA NextInv ==
    ASSUME Inv, [ControlNext]_<<runtimeVars, controlVars>>
    PROVE  Inv'
  <1>1. /\ RuntimeInv /\ models \in [Models -> CatalogRows]
        /\ fit \in [Routers -> Views]
    BY DEF Inv, TypeOK
  <1>2. CASE UNCHANGED <<runtimeVars, controlVars>>
    <2>1. UNCHANGED <<task, decisions, models, rt, ex, fit>> /\ UNCHANGED runtimeVars
      BY <1>2 DEF controlVars
    <2>2. RuntimeInv' /\ UNCHANGED run
      BY <1>1, <2>1, RuntimeStays, Zenon DEF runtimeVars
    <2> QED
      BY <1>1, <2>1, <2>2, ElsewhereStep, Zenon
  <1>3. ASSUME NEW k \in Targets, CoolDown(k), UNCHANGED controlVars
        PROVE  Inv'
    <2>1. UNCHANGED <<task, decisions, models, rt, ex, fit>>
      BY <1>3 DEF controlVars
    <2>2. RuntimeInv' /\ UNCHANGED run
      BY <1>1, <1>3, CoolDownStep, Zenon
    <2> QED
      BY <1>1, <2>1, <2>2, ElsewhereStep, Zenon
  <1> QED
    BY <1>2, <1>3, CreateTaskStep, UpdateModelStep, AppendStep, RouteStepInv, ExecutorStepInv, Zenon
    DEF ControlNext

LEMMA InitInv == ASSUME RuntimeInit, ControlInit PROVE Inv
  <1>1. PICK load \in Loads :
          /\ rt = [r \in Routers |->
                 [pc |-> Arrival(load, r), copy |-> NoTask, req |-> None, listed |-> <<>>,
                  left |-> <<>>, eligible |-> {}, answer |-> None]]
          /\ ex = [e \in Executors |-> [pc |-> Arrival(load, e), copy |-> NoTask, answer |-> None]]
    BY Zenon DEF ControlInit
  <1>2. \A x : Arrival(load, x) \in {"idle", "absent"}
    BY Zenon DEF Arrival
  <1>3. \A r \in Routers : rt[r] \in RouterRows
    <2> SUFFICES ASSUME NEW r \in Routers PROVE rt[r] \in RouterRows
      BY Zenon
    <2>1. rt[r] = [pc |-> Arrival(load, r), copy |-> NoTask, req |-> None, listed |-> <<>>,
                   left |-> <<>>, eligible |-> {}, answer |-> None]
      BY <1>1
    <2>2. NoTask \in TaskRows /\ <<>> \in Seq(Models) /\ {} \in SUBSET CandidateRows
      BY NoTaskRow
    <2> QED
      BY <1>2, <2>1, <2>2 DEF RouterRows
  <1>4. \A e \in Executors : ex[e] \in ExecutorRows
    BY <1>1, <1>2, NoTaskRow, Zenon DEF ExecutorRows
  <1>5. /\ rt \in [Routers -> RouterRows] /\ ex \in [Executors -> ExecutorRows]
    BY <1>1, <1>3, <1>4, Zenon
  <1>6. TypeOK
    <2>1. /\ decisions \in [Routers -> Seq(Targets) \cup {<<None>>}]
          /\ models \in [Models -> CatalogRows]
          /\ fit \in [Routers -> Views]
          /\ task \in TaskRows
      BY NoTaskRow, ControlConstants, Zenon DEF ControlInit, Views
    <2> QED
      BY <1>5, <2>1 DEF TypeOK
  <1>7. IsFiniteSet({})
    BY FS_EmptySet
  <1>8. RoutersInv
    <2> SUFFICES ASSUME NEW r \in Routers PROVE RouterOK(r)
      BY DEF RoutersInv
    <2>1. rt[r].pc \in {"idle", "absent"} /\ rt[r].eligible = {} /\ decisions[r] = <<None>>
      BY <1>1, <1>2, ZenonT(30) DEF ControlInit
    <2> QED
      BY <1>7, <2>1, Zenon DEF RouterOK, Active, Deciding
  <1>9. ExecutorsInv
    <2> SUFFICES ASSUME NEW e \in Executors PROVE ExecutorOK(e)
      BY DEF ExecutorsInv
    <2>1. ex[e].pc \in {"idle", "absent"} /\ ex[e].answer = None /\ run[e].pc = "off"
      BY <1>1, <1>2 DEF RuntimeInit, NotRun
    <2> QED
      BY <2>1, Zenon DEF ExecutorOK, Executing, None
  <1>10. TaskInv
    BY NoTaskRow, Zenon DEF TaskInv, ControlInit, Routed
  <1> QED
    BY <1>6, <1>8, <1>9, <1>10, InitRuntime, Zenon DEF Inv

\* The invariant holds in every reachable state.
THEOREM InvHolds == ControlSpec => []Inv
  <1>1. RuntimeInit /\ ControlInit => Inv
    BY InitInv
  <1>2. Inv /\ [ControlNext]_<<runtimeVars, controlVars>> => Inv'
    BY NextInv
  <1> QED
    BY <1>1, <1>2, PTL DEF ControlSpec, ControlStart

\* A circuit opens on Threshold recoverable failures at least, and its counter
\* never runs ahead of them, although Breaker.Allow and Breaker.Failure read and
\* write in two critical sections and lose each other's updates.
THEOREM OpensOnFailures == ControlSpec => []OpenedByFailures
  <1>1. Inv => OpenedByFailures
    <2> SUFFICES ASSUME Inv, NEW k \in Targets
                 PROVE  /\ breaker[k].failures <= failed[k]
                        /\ breaker[k].state = "OPEN" => failed[k] >= Threshold
      BY DEF OpenedByFailures
    <2>1. /\ breaker[k].failures \in Nat /\ failed[k] \in Nat /\ Cardinality(Pending(k)) \in Nat
      BY PendingFinite, Zenon DEF Inv, RuntimeInv, RuntimeTypeOK, Circuits
    <2>2. /\ breaker[k].failures + Cardinality(Pending(k)) <= failed[k]
          /\ breaker[k].state # "CLOSED" => failed[k] >= Threshold
      BY DEF Inv, RuntimeInv, BreakerInv, Accounted
    <2> QED
      BY <2>1, <2>2
  <1> QED
    BY <1>1, InvHolds, PTL

\* An execution walks the decision the task references, whoever else routes the
\* task or executes it: MemoryTasks.Update refuses every save of an older copy.
THEOREM ExecutesReferencedRoute == ControlSpec => []ExecutedRouteIsReferenced
  <1>1. Inv => ExecutedRouteIsReferenced
    BY SMTT(30) DEF Inv, ExecutorsInv, ExecutorOK, Executing, Routed, ExecutedRouteIsReferenced
  <1> QED
    BY <1>1, InvHolds, PTL

\* The outcome a task keeps is that of one execution, the only one that was
\* answered with it, and a success is charged in full: Execute appends every cost
\* event before it returns and AggregateTask adds them up after that.
THEOREM KeptOutcomeIsPaid == ControlSpec => []OutcomeIsPaid
  <1>1. Inv => OutcomeIsPaid
    <2> SUFFICES ASSUME Inv, task.status \in {"VALIDATING", "COMPLETED", "FAILED"}
                 PROVE  OutcomeIsPaid
      BY Zenon DEF OutcomeIsPaid
    <2>1. PICK e \in Executors : /\ Paid(e, task)
                                 /\ (run[e].outcome = "ok") <=> (task.status # "FAILED")
      BY Zenon DEF Inv, TaskInv
    <2>2. /\ task.result.by = e /\ task.result.outcome = run[e].outcome /\ run[e].pc = "done"
      BY <2>1 DEF Paid
    <2>3. \A f \in Executors : ex[f].answer \in {"ok", "failed"} => f = e
      BY <2>2 DEF Inv, ExecutorsInv, ExecutorOK
    <2>4. run[e].outcome = "ok" /\ run[e].chain # <<>> =>
            /\ \A j \in 1..run[e].i : (run[e].tried[j].status = "SUCCEEDED") <=> (j = run[e].i)
            /\ {CostEvent(e, Components[j]) : j \in DOMAIN Components} \subseteq task.actual
      BY <2>1, <2>2, Zenon DEF Inv, RuntimeInv, RunsInv, RunOK, Progress, Paid
    <2> QED
      BY <2>1, <2>2, <2>3, <2>4, SMTT(30) DEF OutcomeIsPaid
  <1> QED
    BY <1>1, InvHolds, PTL

-----------------------------------------------------------------------------
\* What routing requests see of the catalog.

\* Evidence that Check accepts stands.
LEMMA CheckedStands ==
    ASSUME NEW R, NEW records \in Seq(R), NEW mode, NEW approval, Check(approval, mode, records)
    PROVE  Stands(mode, records)
  <1> DEFINE decisive == {i \in DOMAIN records : Decisive(records[i])}
             i == Max(decisive)
  <1>1. /\ decisive # {} /\ records[i].status # "revoked" /\ ValidateEvidence(mode, records[i])
    BY Zenon DEF Check
  <1>2. DOMAIN records = 1..Len(records) /\ Len(records) \in Nat
    OBVIOUS
  <1>3. decisive \in SUBSET (1..Len(records))
    BY <1>2
  <1> HIDE DEF decisive, i
  <1>4. i \in decisive /\ \A j \in decisive : i >= j
    BY <1>1, <1>2, <1>3, MaxOf, Zenon DEF i
  <1>5. i \in DOMAIN records /\ Decisive(records[i])
    BY <1>4, Zenon DEF decisive
  <1>6. records[i].status \in {"approved", "restricted"}
    BY <1>1, <1>5, Zenon DEF Decisive
  <1>7. \A j \in DOMAIN records : j > i => ~Decisive(records[j])
    <2> SUFFICES ASSUME NEW j \in DOMAIN records, j > i, Decisive(records[j]) PROVE FALSE
      OBVIOUS
    <2>1. j \in decisive
      BY DEF decisive
    <2>2. i >= j /\ i \in Nat /\ j \in Nat
      BY <2>1, <1>2, <1>3, <1>4
    <2> QED
      BY <2>2
  <1> QED
    BY <1>1, <1>5, <1>6, <1>7, Zenon DEF Stands

LEMMA SeenMoves ==
    ASSUME NEW r \in Routers, SeenOK(r), NEW row, rt'[r] = row,
           row.req = rt[r].req, row.listed = rt[r].listed, row.eligible = rt[r].eligible,
           row.pc \in Active => rt[r].pc \in Active, row.pc = "check" => rt[r].pc = "check",
           decisions'[r] = decisions[r], fit'[r] = fit[r], UNCHANGED <<models, evidence>>
    PROVE  SeenOK(r)'
  <1>1. Seen(r) => Seen(r)'
    BY Zenon DEF Seen
  <1> QED
    BY <1>1, Zenon DEF SeenOK, Routable, Decided

\* Only the moving request's view has to be looked at.
LEMMA SeenByOthers ==
    ASSUME TypeOK, SeenInv, NEW r \in Routers, NEW row, rt' = [rt EXCEPT ![r] = row],
           \A s \in Routers : s # r => decisions'[s] = decisions[s] /\ fit'[s] = fit[s],
           UNCHANGED <<models, evidence>>, SeenOK(r)'
    PROVE  SeenInv'
  <1>1. ASSUME NEW s \in Routers, s # r
        PROVE  SeenOK(s)'
    <2>1. rt'[s] = rt[s] /\ SeenOK(s)
      BY <1>1, Zenon DEF TypeOK, SeenInv
    <2> QED
      BY SMTT(30), <1>1, <2>1, SeenMoves
  <1> QED
    BY <1>1, Zenon DEF SeenInv

LEMMA SeenElsewhere ==
    ASSUME SeenInv, UNCHANGED <<rt, decisions, fit, models, evidence>>
    PROVE  SeenInv'
  <1> SUFFICES ASSUME NEW r \in Routers PROVE SeenOK(r)'
    BY DEF SeenInv
  <1>1. rt'[r] = rt[r] /\ SeenOK(r)
    BY Zenon DEF SeenInv
  <1> QED
    BY <1>1, SeenMoves

LEMMA FitsSeen ==
    ASSUME NEW req, NEW rows, NEW records
    PROVE  /\ \A m \in Models : Evaluate(rows[m], req) = {} =>
                               <<m, rows[m].mode>> \in Fits(req, rows, records).row
           /\ \A m \in Models, mode \in Modes :
                Stands(mode, records[m]) => <<m, mode>> \in Fits(req, rows, records).evidence
  <1> DEFINE row == {<<m, rows[m].mode>> : m \in {n \in Models : Evaluate(rows[n], req) = {}}}
             allowed == {c \in Models \X Modes : Stands(c[2], records[c[1]])}
  <1>1. Fits(req, rows, records).row = row /\ Fits(req, rows, records).evidence = allowed
    BY DEF Fits
  <1>2. ASSUME NEW m \in Models, NEW mode \in Modes, Stands(mode, records[m])
        PROVE  <<m, mode>> \in allowed
    <2>1. <<m, mode>> \in Models \X Modes /\ <<m, mode>>[1] = m /\ <<m, mode>>[2] = mode
      OBVIOUS
    <2> QED
      BY <1>2, <2>1, Zenon
  <1>3. ASSUME NEW m \in Models, Evaluate(rows[m], req) = {} PROVE <<m, rows[m].mode>> \in row
    BY <1>3, Zenon
  <1> HIDE DEF row, allowed
  <1> QED
    BY SMTT(30), <1>1, <1>2, <1>3

\* Administrators' changes are seen by every request under way.
LEMMA SeenObserve ==
    ASSUME TypeOK, SeenInv, UNCHANGED <<rt, decisions>>, Observe(models', evidence'),
           evidence' \in [Models -> Seq({FirstRecord} \cup EvidenceRecords)]
    PROVE  SeenInv'
  <1> SUFFICES ASSUME NEW r \in Routers PROVE SeenOK(r)'
    BY SMTT(30) DEF SeenInv
  <1> DEFINE now == Fits(rt[r].req, models', evidence')
  <1>1. /\ \A m \in Models : Evaluate(models'[m], rt[r].req) = {} => <<m, models'[m].mode>> \in now.row
        /\ \A m \in Models, mode \in Modes : Stands(mode, evidence'[m]) => <<m, mode>> \in now.evidence
    BY FitsSeen
  <1>2. fit'[r] = IF rt[r].pc \in {"absent", "idle", "done"} THEN fit[r]
                  ELSE [row |-> fit[r].row \cup now.row, evidence |-> fit[r].evidence \cup now.evidence]
    BY ZenonT(30) DEF Observe
  <1> HIDE DEF now
  <1>3. fit[r].row \subseteq fit'[r].row /\ fit[r].evidence \subseteq fit'[r].evidence
    <2>1. CASE rt[r].pc \in {"absent", "idle", "done"}
      <3>1. fit'[r] = fit[r]
        BY <1>2, <2>1, Zenon
      <3> QED
        BY <3>1, Zenon
    <2>2. CASE rt[r].pc \notin {"absent", "idle", "done"}
      <3>1. fit'[r] = [row |-> fit[r].row \cup now.row, evidence |-> fit[r].evidence \cup now.evidence]
        BY <1>2, <2>2, Zenon
      <3>2. fit'[r].row = fit[r].row \cup now.row /\ fit'[r].evidence = fit[r].evidence \cup now.evidence
        BY <3>1
      <3> QED
        BY <3>2, Zenon
    <2> QED
      BY <2>1, <2>2, Zenon
  <1>4. rt[r].pc \in Active => now.row \subseteq fit'[r].row /\ now.evidence \subseteq fit'[r].evidence
    BY <1>2 DEF Active, Deciding
  <1>5. rt[r].pc \in Active => Seen(r)'
    BY <1>1, <1>4, Zenon DEF Seen
  <1>6. SeenOK(r)
    BY DEF SeenInv
  <1> QED
    BY <1>3, <1>5, <1>6, Zenon DEF SeenOK, Routable, Decided

LEMMA SeenCreate == ASSUME SeenInv, CreateTask PROVE SeenInv'
  BY SeenElsewhere DEF CreateTask, catalogVars

LEMMA SeenUpdate == ASSUME Inv, SeenInv, NEW m \in Models, UpdateModel(m) PROVE SeenInv'
  <1>1. Observe(models', evidence) /\ UNCHANGED <<rt, decisions, evidence>>
    BY DEF UpdateModel, taskVars
  <1>2. Observe(models', evidence')
    BY <1>1
  <1> QED
    BY <1>1, <1>2, SeenObserve, Zenon DEF Inv, SeenInv

LEMMA SeenAppend ==
    ASSUME Inv, SeenInv, NEW m \in Models, AppendAdmissionEvidence(m)
    PROVE  SeenInv'
  <1>1. PICK record \in EvidenceRecords : evidence' = [evidence EXCEPT ![m] = Append(evidence[m], record)]
    BY Zenon DEF AppendAdmissionEvidence
  <1>2. Observe(models, evidence') /\ UNCHANGED <<rt, decisions, models>>
    BY DEF AppendAdmissionEvidence, taskVars
  <1>3. Observe(models', evidence')
    BY <1>2
  <1>4. evidence \in [Models -> Seq({FirstRecord} \cup EvidenceRecords)]
    BY DEF SeenInv
  <1>5. Append(evidence[m], record) \in Seq({FirstRecord} \cup EvidenceRecords)
    BY <1>4
  <1>6. evidence' \in [Models -> Seq({FirstRecord} \cup EvidenceRecords)]
    BY <1>1, <1>4, <1>5
  <1> QED
    BY <1>2, <1>3, <1>6, SeenObserve, Zenon DEF Inv

LEMMA SeenLoad == ASSUME Inv, SeenInv, NEW r \in Routers, RouteLoad(r) PROVE SeenInv'
  <1>1. PICK req \in RouteRequests :
          LET loaded == [rt[r] EXCEPT !.copy = task, !.req = DefaultClass(req)]
          IN  /\ rt' = [rt EXCEPT ![r] =
                       CASE task.status = "CREATED"  -> [loaded EXCEPT !.pc = "plan"]
                         [] task.status = "PLANNING" -> [loaded EXCEPT !.pc = "route"]
                         [] task.status = "ROUTING"  -> [loaded EXCEPT !.pc = "list"]
                         [] OTHER -> Reply(r, "conflict")]
              /\ fit' = [fit EXCEPT ![r] = Fits(DefaultClass(req), models, evidence)]
    BY Zenon DEF RouteLoad
  <1>2. rt[r].pc = "idle" /\ UNCHANGED <<decisions, models, evidence>>
    BY DEF RouteLoad, taskVars, catalogVars
  <1>3. /\ TypeOK /\ RouterOK(r) /\ rt[r] \in RouterRows /\ rt \in [Routers -> RouterRows]
        /\ fit \in [Routers -> Views]
    BY DEF Inv, TypeOK, RoutersInv
  <1> DEFINE q == DefaultClass(req)
             load(p) == [[rt[r] EXCEPT !.copy = task, !.req = q] EXCEPT !.pc = p]
             row == CASE task.status = "CREATED"  -> load("plan")
                      [] task.status = "PLANNING" -> load("route")
                      [] task.status = "ROUTING"  -> load("list")
                      [] OTHER -> Reply(r, "conflict")
  <1>4. rt' = [rt EXCEPT ![r] = row] /\ fit' = [fit EXCEPT ![r] = Fits(q, models, evidence)]
    BY <1>1
  <1> HIDE DEF q
  <1>5. ASSUME NEW p \in {"plan", "route", "list"}
        PROVE  load(p).pc = p /\ load(p).req = q /\ load(p).eligible = rt[r].eligible
    BY <1>3, Zenon DEF RouterRows
  <1>6. Reply(r, "conflict").pc = "done" /\ Reply(r, "conflict").eligible = rt[r].eligible
    BY <1>3, AnswerRow
  <1>7. rt[r].eligible = {} /\ decisions[r] = <<None>>
    BY <1>2, <1>3, Zenon DEF RouterOK
  <1> HIDE DEF load
  <1>8. /\ row.eligible = {} /\ row.pc # "check"
        /\ row.pc = "done" \/ row.req = q
    <2>1. CASE task.status = "CREATED"
      BY <2>1, <1>5, <1>7, Zenon
    <2>2. CASE task.status = "PLANNING"
      BY <2>2, <1>5, <1>7, Zenon
    <2>3. CASE task.status = "ROUTING"
      BY <2>3, <1>5, <1>7, Zenon
    <2>4. CASE task.status \notin {"CREATED", "PLANNING", "ROUTING"}
      BY <2>4, <1>6, <1>7, Zenon
    <2> QED
      BY <2>1, <2>2, <2>3, <2>4, Zenon
  <1> HIDE DEF row
  <1>9. /\ rt'[r] = row /\ decisions'[r] = <<None>>
        /\ fit'[r] = Fits(q, models, evidence)
        /\ \A s \in Routers : s # r => fit'[s] = fit[s]
    BY <1>2, <1>3, <1>4, <1>7, Zenon
  <1>10. SeenOK(r)'
    <2>1. row.pc \in Active => Seen(r)'
      <3>1. ASSUME row.pc \in Active PROVE rt'[r].req = q
        BY <3>1, <1>8, <1>9, Zenon DEF Active, Deciding
      <3> QED
        BY <1>2, <1>9, <3>1, FitsSeen, Zenon DEF Seen
    <2> QED
      BY <2>1, <1>8, <1>9, Zenon DEF SeenOK, Decided
  <1> QED
    BY <1>2, <1>3, <1>4, <1>9, <1>10, SeenByOthers, Zenon

\* Saving the task and answering change nothing a request has seen.
LEMMA SeenSave ==
    ASSUME Inv, SeenInv, NEW r \in Routers, NEW row, rt' = [rt EXCEPT ![r] = row],
           row.req = rt[r].req, row.listed = rt[r].listed, row.eligible = rt[r].eligible,
           row.pc \in Active => rt[r].pc \in Active, row.pc # "check",
           UNCHANGED <<decisions, fit, models, evidence>>
    PROVE  SeenInv'
  <1>1. TypeOK /\ rt'[r] = row /\ SeenOK(r)
    BY Zenon DEF Inv, TypeOK, SeenInv
  <1>2. SeenOK(r)'
    BY <1>1, SeenMoves
  <1> QED
    BY <1>1, <1>2, SeenByOthers, Zenon

LEMMA SeenMove ==
    ASSUME Inv, SeenInv, NEW r \in Routers, NEW from, NEW to, NEW then,
           RouteMove(r, from, to, then),
           \/ from = "plan" /\ to = "PLANNING" /\ then = "route"
           \/ from = "route" /\ to = "ROUTING" /\ then = "list"
    PROVE  SeenInv'
  <1>1. rt[r].pc \in Active /\ UNCHANGED <<decisions, fit, models, evidence>> /\ then # "check"
    BY DEF RouteMove, catalogVars, Active
  <1>2. rt[r] \in RouterRows /\ TypeOK
    BY DEF Inv, TypeOK
  <1>3. CASE rt' = [rt EXCEPT ![r] = Reply(r, "error")]
    BY <1>1, <1>2, <1>3, AnswerRow, SeenSave, Zenon DEF Active
  <1>4. CASE rt' = [rt EXCEPT ![r] = [rt[r] EXCEPT !.pc = then, !.copy = task']]
    <2> DEFINE row == [rt[r] EXCEPT !.pc = then, !.copy = task']
    <2>1. /\ row.pc = then /\ row.req = rt[r].req /\ row.listed = rt[r].listed
          /\ row.eligible = rt[r].eligible
      BY <1>2 DEF RouterRows
    <2>2. rt' = [rt EXCEPT ![r] = row]
      BY <1>4
    <2> HIDE DEF row
    <2> QED
      BY <1>1, <2>1, <2>2, SeenSave, Zenon
  <1> QED
    BY <1>3, <1>4, Zenon DEF RouteMove

LEMMA SeenUpdateRoute == ASSUME Inv, SeenInv, NEW r \in Routers, UpdateRoute(r) PROVE SeenInv'
  <1>1. /\ UNCHANGED <<decisions, fit, models, evidence>> /\ TypeOK
        /\ \E a \in {"created", "error"} : rt' = [rt EXCEPT ![r] = Reply(r, a)]
    BY DEF UpdateRoute, catalogVars, Inv
  <1> QED
    BY <1>1, AnswerRow, SeenSave, Zenon DEF Active, Deciding

LEMMA SeenList ==
    ASSUME Inv, SeenInv, NEW r \in Routers, ListModels(r)
    PROVE  SeenInv'
  <1> DEFINE row == IF rt[r].req.class = "deterministic"
                    THEN [rt[r] EXCEPT !.pc = "persist"]
                    ELSE [rt[r] EXCEPT !.pc = "check", !.listed = models, !.left = ModelOrder]
  <1>1. rt[r].pc = "list" /\ rt' = [rt EXCEPT ![r] = row]
    BY Zenon DEF ListModels
  <1>2. UNCHANGED <<decisions, models, evidence, fit>>
    BY DEF ListModels, taskVars, catalogVars
  <1>3. /\ TypeOK /\ SeenOK(r) /\ rt[r] \in RouterRows /\ rt \in [Routers -> RouterRows]
    BY DEF Inv, TypeOK, SeenInv
  <1>4. /\ row.pc \in {"persist", "check"} /\ row.req = rt[r].req /\ row.eligible = rt[r].eligible
        /\ row.pc = "check" => row.listed = models
    BY <1>3, Zenon DEF RouterRows
  <1> HIDE DEF row
  <1>5. rt'[r] = row /\ decisions'[r] = decisions[r] /\ fit'[r] = fit[r]
    BY SMTT(30), <1>1, <1>2, <1>3
  <1>6. Seen(r)
    BY <1>1, <1>3, SMTT(30) DEF SeenOK, Active, Deciding
  <1>7. Seen(r)'
    BY <1>2, <1>4, <1>5, <1>6, Zenon DEF Seen
  <1>8. SeenOK(r)'
    BY <1>2, <1>3, <1>4, <1>5, <1>6, <1>7, Zenon DEF SeenOK, Seen, Routable, Decided
  <1> QED
    BY <1>1, <1>2, <1>3, <1>8, SeenByOthers, Zenon

LEMMA SeenCheck ==
    ASSUME Inv, SeenInv, NEW r \in Routers, CheckAdmission(r)
    PROVE  SeenInv'
  <1>1. PICK row \in RouterRows, m \in Models :
             /\ rt' = [rt EXCEPT ![r] = row]
             /\ row.pc \in {"check", "persist"} /\ row.req = rt[r].req /\ row.listed = rt[r].listed
             /\ \/ row.eligible = rt[r].eligible
                \/ /\ row.eligible = rt[r].eligible \cup {CandidateOf(m, rt[r].listed[m], rt[r].req)}
                   /\ Evaluate(rt[r].listed[m], rt[r].req) = {}
                   /\ Check(rt[r].listed[m].approval, rt[r].listed[m].mode, evidence[m])
    BY CheckedRow, Zenon
  <1>2. rt[r].pc = "check" /\ UNCHANGED <<decisions, models, evidence, fit>>
    BY Zenon DEF CheckAdmission, taskVars, catalogVars
  <1>3. /\ TypeOK /\ SeenOK(r) /\ rt \in [Routers -> RouterRows]
        /\ evidence \in [Models -> Seq({FirstRecord} \cup EvidenceRecords)]
    BY DEF Inv, TypeOK, SeenInv
  <1>4. rt'[r] = row /\ decisions'[r] = decisions[r] /\ fit'[r] = fit[r]
    BY <1>1, <1>2, <1>3, Zenon
  <1>5. Seen(r) /\ Seen(r)'
    <2>1. Seen(r)
      BY <1>2, <1>3, Zenon DEF SeenOK, Active, Deciding
    <2> QED
      BY <2>1, <1>1, <1>2, <1>4, Zenon DEF Seen
  <1>6. \A c \in row.eligible : Routable(r, c.target)
    <2>1. \A c \in rt[r].eligible : Routable(r, c.target)
      BY <1>3, Zenon DEF SeenOK
    <2>2. CandidateOf(m, rt[r].listed[m], rt[r].req).target = m
      BY DEF CandidateOf
    <2>3. ASSUME Evaluate(rt[r].listed[m], rt[r].req) = {},
                 Check(rt[r].listed[m].approval, rt[r].listed[m].mode, evidence[m])
          PROVE  Routable(r, m)
      <3>1. <<m, rt[r].listed[m].mode>> \in fit[r].row
        BY <1>2, <1>3, <2>3, Zenon DEF SeenOK
      <3>2. rt[r].listed[m].mode \in Modes
        BY <1>2, Zenon DEF Inv, RoutersInv, RouterOK, Modes
      <3>3. evidence[m] \in Seq({FirstRecord} \cup EvidenceRecords)
        BY <1>3
      <3>4. Stands(rt[r].listed[m].mode, evidence[m])
        BY <2>3, <3>3, CheckedStands, Zenon
      <3> QED
        BY <1>5, <3>1, <3>2, <3>4, Zenon DEF Seen, Routable
    <2> QED
      BY <1>1, <2>1, <2>2, <2>3, Zenon
  <1>7. SeenOK(r)'
    BY <1>1, <1>2, <1>3, <1>4, <1>5, <1>6, Zenon DEF SeenOK, Routable, Decided
  <1> QED
    BY <1>1, <1>2, <1>3, <1>7, SeenByOthers, Zenon

LEMMA SeenPersist == ASSUME Inv, SeenInv, NEW r \in Routers, Persist(r) PROVE SeenInv'
  <1>1. rt[r].pc = "persist" /\ UNCHANGED <<models, evidence, fit>>
    BY DEF Persist, catalogVars
  <1>2. /\ TypeOK /\ RouterOK(r) /\ SeenOK(r) /\ rt[r] \in RouterRows
        /\ rt \in [Routers -> RouterRows]
        /\ decisions \in [Routers -> Seq(Targets) \cup {<<None>>}]
    BY DEF Inv, TypeOK, RoutersInv, SeenInv
  <1>3. CASE rt' = [rt EXCEPT ![r] = Reply(r, "unavailable")] /\ UNCHANGED decisions
    BY <1>1, <1>2, <1>3, AnswerRow, SeenSave, Zenon DEF Active, Deciding
  <1>4. ASSUME NEW chain \in Chains(rt[r].eligible),
               decisions' = [decisions EXCEPT ![r] = chain], rt' = [rt EXCEPT ![r].pc = "update"]
        PROVE  SeenInv'
    <2> DEFINE row == [rt[r] EXCEPT !.pc = "update"]
    <2>1. rt' = [rt EXCEPT ![r] = row] /\ decisions' = [decisions EXCEPT ![r] = chain]
      BY <1>4, Zenon
    <2>2. /\ rt[r].eligible \in SUBSET CandidateRows /\ IsFiniteSet(rt[r].eligible)
          /\ \A c \in rt[r].eligible : c = CandidateOf(c.target, rt[r].listed[c.target], rt[r].req)
      BY <1>2, Zenon DEF RouterRows, RouterOK
    <2>3. \A i \in DOMAIN chain : \E c \in rt[r].eligible : chain[i] = c.target
      BY <1>4, <2>2, ChainOf, ZenonT(30)
    <2>4. \A i \in DOMAIN chain : Routable(r, chain[i])
      BY <1>2, <2>3, Zenon DEF SeenOK
    <2>5. /\ row.pc = "update" /\ row.req = rt[r].req /\ row.eligible = rt[r].eligible
      BY <1>2, Zenon DEF RouterRows
    <2> HIDE DEF row
    <2>6. /\ rt'[r] = row /\ decisions'[r] = chain /\ fit'[r] = fit[r]
          /\ \A s \in Routers : s # r => decisions'[s] = decisions[s]
      BY <1>1, <1>2, <2>1, Zenon
    <2>7. Seen(r)'
      BY <1>1, <1>2, <2>5, <2>6, Zenon DEF SeenOK, Seen, Active, Deciding
    <2>8. SeenOK(r)'
      BY <1>1, <1>2, <2>4, <2>5, <2>6, <2>7, Zenon DEF SeenOK, Routable, Decided
    <2> QED
      BY <1>1, <1>2, <2>1, <2>6, <2>8, SeenByOthers, Zenon
  <1> QED
    BY <1>3, <1>4, Zenon DEF Persist

LEMMA SeenExecutor == ASSUME SeenInv, NEW e \in Executors, ExecutorStep(e) PROVE SeenInv'
  <1>1. UNCHANGED <<rt, decisions, fit, models, evidence>>
    BY DEF ExecutorStep, ExecuteLoad, BeginExecuting, Returned, ExecuteMove, controlVars,
           taskVars, catalogVars
  <1> QED
    BY <1>1, SeenElsewhere, Zenon

LEMMA SeenNext ==
    ASSUME Inv, SeenInv, [ControlNext]_<<runtimeVars, controlVars>>
    PROVE  SeenInv'
  <1>1. ASSUME UNCHANGED controlVars PROVE SeenInv'
    BY <1>1, SeenElsewhere, Zenon DEF controlVars
  <1>2. ASSUME NEW r \in Routers, RouteStep(r) PROVE SeenInv'
    BY <1>2, SeenLoad, SeenMove, SeenList, SeenCheck, SeenPersist, SeenUpdateRoute, Zenon DEF RouteStep
  <1> QED
    BY <1>1, <1>2, SeenCreate, SeenUpdate, SeenAppend, SeenExecutor, Zenon DEF ControlNext

LEMMA SeenInit == ASSUME ControlInit PROVE SeenInv
  <1>1. evidence \in [Models -> Seq({FirstRecord} \cup EvidenceRecords)]
    <2>1. <<FirstRecord>> \in Seq({FirstRecord} \cup EvidenceRecords)
      OBVIOUS
    <2>2. evidence = [m \in Models |-> <<FirstRecord>>]
      BY SMTT(30) DEF ControlInit
    <2> QED
      BY <2>1, <2>2
  <1>2. ASSUME NEW r \in Routers PROVE SeenOK(r)
    <2>1. rt[r].pc \in {"idle", "absent"} /\ rt[r].eligible = {} /\ decisions[r] = <<None>>
      <3>1. PICK load \in Loads :
              rt = [q \in Routers |->
                     [pc |-> Arrival(load, q), copy |-> NoTask, req |-> None, listed |-> <<>>,
                      left |-> <<>>, eligible |-> {}, answer |-> None]]
        BY ZenonT(30) DEF ControlInit
      <3>2. Arrival(load, r) \in {"idle", "absent"}
        BY Zenon DEF Arrival
      <3> QED
        BY <3>1, <3>2, ZenonT(30) DEF ControlInit
    <2> QED
      BY <2>1, ZenonT(30) DEF SeenOK, Active, Deciding, Decided
  <1> QED
    BY <1>1, <1>2 DEF SeenInv

\* Every candidate of a decision, the fallbacks included, was allowed by its row,
\* and by its admission evidence for the mode of that row, during the request:
\* Decide lists the models once and Check reads the evidence of one model after
\* the other while administrators change both.
THEOREM DecidesOnRoutableModels == ControlSpec => []RoutedWasRoutable
  <1>1. RuntimeInit /\ ControlInit => SeenInv
    BY SeenInit
  <1>2. Inv /\ SeenInv /\ [ControlNext]_<<runtimeVars, controlVars>> => SeenInv'
    BY SeenNext
  <1>3. SeenInv => RoutedWasRoutable
    BY Zenon DEF SeenInv, SeenOK, Routable, RoutedWasRoutable
  <1> QED
    BY <1>1, <1>2, <1>3, InvHolds, PTL DEF ControlSpec, ControlStart
=============================================================================
