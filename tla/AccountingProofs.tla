-------------------------- MODULE AccountingProofs --------------------------
(***************************************************************************)
(* Proofs about what is counted and charged.                               *)
(*                                                                         *)
(* BudgetLedger: the counters are folds over the reservations; a fold over *)
(* a finite set is a sum that moves with one element.  The callers may     *)
(* reserve, settle and release in any order, with any amounts.             *)
(*                                                                         *)
(* Supervisor: a node's reservation follows the node from hand to hand     *)
(* (Owned), and until a node is retried no selection meets a name that is  *)
(* taken (SelectionOK).                                                    *)
(*                                                                         *)
(* Pricing: a plan has one candidate per deployment it has quoted, and a   *)
(* policy was found for each that it may select; policies are only ever    *)
(* added, so the trigger finds one too (PlanOK).                           *)
(***************************************************************************)
EXTENDS Supervisor, Pricing, FiniteSetTheorems, WellFoundedInduction, TLAPS

\* Induction, from the well-foundedness of the naturals.

LEMMA LeastOf == ASSUME NEW T, T \subseteq Nat, T # {} PROVE \E x \in T : \A y \in T : x <= y
  <1> DEFINE R == OpToRel(<, Nat)
  <1>1. IsWellFoundedOn(R, Nat)
    BY NatLessThanWellFounded, Zenon
  <1>2. \A x, y \in Nat : y < x => <<y, x>> \in R
    BY DEF OpToRel
  <1> HIDE DEF R
  <1>3. PICK x \in T : \A y \in T : <<y, x>> \notin R
    BY <1>1, WFMin, Zenon
  <1>4. x \in Nat /\ \A y \in T : y \in Nat /\ ~(y < x)
    BY <1>2, <1>3, Zenon
  <1>5. \A y \in T : x <= y
    BY <1>4
  <1> QED
    BY <1>5

LEMMA Induction ==
    ASSUME NEW T, 0 \in T, \A n \in Nat : n \in T => n + 1 \in T
    PROVE  Nat \subseteq T
  <1> DEFINE U == Nat \ T
  <1>1. SUFFICES ASSUME U # {} PROVE FALSE
    OBVIOUS
  <1>2. PICK x \in U : \A y \in U : x <= y
    BY <1>1, LeastOf, Zenon
  <1>3. x - 1 \in Nat /\ x - 1 \notin U
    BY <1>2
  <1> QED
    BY <1>2, <1>3

(* A family of sets that holds every set all of whose subsets with one     *)
(* element less it holds, holds every finite one.                          *)
LEMMA SetInduction ==
    ASSUME NEW S, IsFiniteSet(S), NEW T,
           \A s \in SUBSET S : (\A x \in s : s \ {x} \in T) => s \in T
    PROVE  SUBSET S \subseteq T
  <1> DEFINE U == {n \in Nat : \A s \in SUBSET S : Cardinality(s) = n => s \in T}
  <1>1. \A s \in SUBSET S : IsFiniteSet(s) /\ Cardinality(s) \in Nat
    BY FS_Subset, FS_CardinalityType
  <1>2. \A s \in SUBSET S : \A x \in s : Cardinality(s \ {x}) = Cardinality(s) - 1
    BY <1>1, FS_RemoveElement, Zenon
  <1>3. 0 \in U
    <2> SUFFICES ASSUME NEW s \in SUBSET S, Cardinality(s) = 0 PROVE s \in T
      OBVIOUS
    <2>1. s = {}
      BY <1>1, FS_EmptySet
    <2> QED
      BY <2>1
  <1>4. ASSUME NEW n \in Nat, n \in U PROVE n + 1 \in U
    <2> SUFFICES ASSUME NEW s \in SUBSET S, Cardinality(s) = n + 1 PROVE s \in T
      OBVIOUS
    <2>1. ASSUME NEW x \in s PROVE s \ {x} \in T
      <3>1. Cardinality(s \ {x}) = n
        BY <1>2
      <3> QED
        BY <1>4, <3>1
    <2> QED
      BY <2>1
  <1> HIDE DEF U
  <1>5. Nat \subseteq U
    BY <1>3, <1>4, Induction
  <1> QED
    BY <1>1, <1>5 DEF U

Chosen(s) == CHOOSE x \in s : TRUE

FoldStep(g, S, f) ==
  [s \in SUBSET S |-> IF s = {} THEN 0 ELSE g[Chosen(s)] + f[s \ {Chosen(s)}]]

(* A function on an initial segment of the naturals is a sequence.         *)
LEMMA ListIsSeq == ASSUME NEW C, NEW n \in Nat, NEW s \in [1..n -> C] PROVE s \in Seq(C)
  OBVIOUS

-----------------------------------------------------------------------------
\* Sums over finite sets.

(* What the fold of the library computes.                                  *)
Total(g, S) == (CHOOSE f : f = FoldStep(g, S, f))[S]

LEMMA ChosenIn == ASSUME NEW s, s # {} PROVE Chosen(s) \in s
BY DEF Chosen

(* The recursion has a solution over a finite set, ...                     *)
LEMMA FoldExists ==
    ASSUME NEW S, IsFiniteSet(S), NEW g \in [S -> Int]
    PROVE  \E f \in [SUBSET S -> Int] : f = FoldStep(g, S, f)
  <1> DEFINE Small(n) == {s \in SUBSET S : Cardinality(s) <= n}
             Solves(n, f) == \A s \in Small(n) :
                               f[s] = IF s = {} THEN 0 ELSE g[Chosen(s)] + f[s \ {Chosen(s)}]
             U == {n \in Nat : \E f \in [Small(n) -> Int] : Solves(n, f)}
  <1>1. \A s \in SUBSET S : IsFiniteSet(s) /\ Cardinality(s) \in Nat /\ Cardinality(s) <= Cardinality(S)
    BY FS_Subset, FS_CardinalityType
  <1>2. \A s \in SUBSET S : s # {} => /\ Chosen(s) \in S
                                      /\ s \ {Chosen(s)} \in SUBSET S
                                      /\ Cardinality(s \ {Chosen(s)}) = Cardinality(s) - 1
    BY <1>1, ChosenIn, FS_RemoveElement
  <1>3. 0 \in U
    <2> DEFINE f == [s \in Small(0) |-> 0]
    <2>1. \A s \in Small(0) : s = {}
      BY <1>1, FS_EmptySet
    <2>2. f \in [Small(0) -> Int] /\ Solves(0, f)
      BY <2>1
    <2> QED
      BY <2>2, Zenon
  <1>4. ASSUME NEW n \in Nat, n \in U PROVE n + 1 \in U
    <2>1. PICK f \in [Small(n) -> Int] : Solves(n, f)
      BY <1>4, Zenon
    <2>2. \A s \in Small(n + 1) : s # {} => s \ {Chosen(s)} \in Small(n)
      BY <1>1, <1>2
    <2> DEFINE h == [s \in Small(n + 1) |-> IF s = {} THEN 0 ELSE g[Chosen(s)] + f[s \ {Chosen(s)}]]
    <2>3. h \in [Small(n + 1) -> Int]
      BY <1>2, <2>2
    <2>4. \A s \in Small(n) : s \in Small(n + 1) /\ h[s] = f[s]
      BY <1>1, <2>1
    <2>5. Solves(n + 1, h)
      BY <2>2, <2>4, Zenon
    <2>6. n + 1 \in Nat
      OBVIOUS
    <2> HIDE DEF h, Solves, Small
    <2> QED
      BY <2>3, <2>5, <2>6
  <1>5. Nat \subseteq U
    <2> HIDE DEF U
    <2> QED
      BY <1>3, <1>4, Induction
  <1>6. PICK f \in [Small(Cardinality(S)) -> Int] : Solves(Cardinality(S), f)
    BY <1>1, <1>5, FS_CardinalityType, Zenon
  <1>7. Small(Cardinality(S)) = SUBSET S
    BY <1>1
  <1>8. f \in [SUBSET S -> Int] /\ f = FoldStep(g, S, f)
    BY <1>6, <1>7, SMTT(30) DEF FoldStep
  <1> QED
    BY <1>8

(* ... and only one, whatever finite set it is taken over.                 *)
LEMMA FoldUnique ==
    ASSUME NEW S, IsFiniteSet(S), NEW V, NEW W, S \subseteq V, S \subseteq W, NEW g,
           NEW f, f = FoldStep(g, V, f), NEW h, h = FoldStep(g, W, h)
    PROVE  f[S] = h[S]
  <1> DEFINE T == {s \in SUBSET S : f[s] = h[s]}
  <1>1. ASSUME NEW s \in SUBSET S, \A x \in s : s \ {x} \in T PROVE s \in T
    <2>1. /\ f[s] = IF s = {} THEN 0 ELSE g[Chosen(s)] + f[s \ {Chosen(s)}]
          /\ h[s] = IF s = {} THEN 0 ELSE g[Chosen(s)] + h[s \ {Chosen(s)}]
      BY Zenon DEF FoldStep
    <2>2. s # {} => s \ {Chosen(s)} \in T
      BY <1>1, ChosenIn
    <2> QED
      BY <2>1, <2>2
  <1> HIDE DEF T
  <1>2. SUBSET S \subseteq T
    BY <1>1, SetInduction, Zenon
  <1> QED
    BY <1>2 DEF T

LEMMA TotalStep ==
    ASSUME NEW S, IsFiniteSet(S), NEW g \in [S -> Int], NEW s \in SUBSET S
    PROVE  /\ Total(g, s) \in Int
           /\ Total(g, s) = IF s = {} THEN 0 ELSE g[Chosen(s)] + Total(g, s \ {Chosen(s)})
  <1>1. PICK f \in [SUBSET S -> Int] : f = FoldStep(g, S, f)
    BY SMTT(30), FoldExists
  <1>2. ASSUME NEW t \in SUBSET S PROVE Total(g, t) = f[t]
    <2>1. IsFiniteSet(t)
      BY FS_Subset
    <2> DEFINE k == [x \in t |-> g[x]]
    <2>2. \A F : FoldStep(k, t, F) = FoldStep(g, t, F)
      <3> SUFFICES ASSUME NEW F, NEW u \in SUBSET t, u # {} PROVE k[Chosen(u)] = g[Chosen(u)]
        BY DEF FoldStep
      <3> QED
        BY ChosenIn
    <2>3. \E F : F = FoldStep(g, t, F)
      <3>1. k \in [t -> Int]
        OBVIOUS
      <3> HIDE DEF k
      <3>2. PICK F \in [SUBSET t -> Int] : F = FoldStep(k, t, F)
        BY <2>1, <3>1, FoldExists, Zenon
      <3>3. F = FoldStep(g, t, F)
        BY <2>2, <3>2, Zenon
      <3> QED
        BY <3>3
    <2> DEFINE h == CHOOSE F : F = FoldStep(g, t, F)
    <2>4. h = FoldStep(g, t, h)
      BY <2>3
    <2>5. Total(g, t) = h[t]
      BY DEF Total
    <2> HIDE DEF h
    <2> QED
      BY <1>1, <2>1, <2>4, <2>5, FoldUnique
  <1>3. f[s] = IF s = {} THEN 0 ELSE g[Chosen(s)] + f[s \ {Chosen(s)}]
    BY <1>1, Zenon DEF FoldStep
  <1> QED
    BY <1>1, <1>2, <1>3

(* Any element may be taken out of a sum.                                  *)
LEMMA TotalWithout ==
    ASSUME NEW S, IsFiniteSet(S), NEW g \in [S -> Int], NEW s \in SUBSET S, NEW x \in s
    PROVE  Total(g, s) = g[x] + Total(g, s \ {x})
  <1> DEFINE T == {t \in SUBSET S : \A y \in t : Total(g, t) = g[y] + Total(g, t \ {y})}
  <1>1. ASSUME NEW t \in SUBSET S, \A y \in t : t \ {y} \in T, NEW y \in t
        PROVE  Total(g, t) = g[y] + Total(g, t \ {y})
    <2> DEFINE c == Chosen(t)
    <2>1. c \in t
      BY ChosenIn
    <2>2. Total(g, t) = g[c] + Total(g, t \ {c})
      BY TotalStep
    <2> HIDE DEF c
    <2>3. CASE y = c
      BY <2>2, <2>3
    <2>4. CASE y # c
      <3>1. Total(g, t \ {c}) = g[y] + Total(g, (t \ {c}) \ {y})
        BY <1>1, <2>1, <2>4
      <3>2. Total(g, t \ {y}) = g[c] + Total(g, (t \ {y}) \ {c})
        BY <1>1, <2>1, <2>4
      <3>3. (t \ {c}) \ {y} = (t \ {y}) \ {c}
        OBVIOUS
      <3>4. g[c] \in Int /\ g[y] \in Int /\ Total(g, (t \ {y}) \ {c}) \in Int
        BY <2>1, TotalStep, Zenon
      <3>5. \A i, j, k \in Int : i + (j + k) = j + (i + k)
        OBVIOUS
      <3>6. g[c] + (g[y] + Total(g, (t \ {y}) \ {c})) = g[y] + (g[c] + Total(g, (t \ {y}) \ {c}))
        BY <3>4, <3>5, Zenon
      <3> QED
        BY <2>2, <3>1, <3>2, <3>3, <3>6, Zenon
    <2> QED
      BY <2>3, <2>4
  <1>2. ASSUME NEW t \in SUBSET S, \A y \in t : t \ {y} \in T PROVE t \in T
    BY <1>1, <1>2
  <1> HIDE DEF T
  <1>3. SUBSET S \subseteq T
    BY <1>2, SetInduction, Zenon
  <1> QED
    BY <1>3 DEF T

(* A sum depends on its summands only.                                     *)
LEMMA TotalSame ==
    ASSUME NEW S, NEW g, NEW h, \A x \in S : g[x] = h[x]
    PROVE  Total(g, S) = Total(h, S)
  <1>1. \A F : FoldStep(g, S, F) = FoldStep(h, S, F)
    <2> SUFFICES ASSUME NEW F, NEW u \in SUBSET S, u # {} PROVE g[Chosen(u)] = h[Chosen(u)]
      BY DEF FoldStep
    <2> QED
      BY ChosenIn
  <1> QED
    BY <1>1, Zenon DEF Total

LEMMA TotalOf ==
    ASSUME NEW R, NEW g \in [R -> Int], NEW S \in SUBSET R, IsFiniteSet(S)
    PROVE  /\ Total(g, S) \in Int
           /\ S = {} => Total(g, S) = 0
           /\ \A x \in S : Total(g, S) = g[x] + Total(g, S \ {x})
           /\ \A x \in R \ S : Total(g, S \cup {x}) = g[x] + Total(g, S)
  <1>1. ASSUME NEW U \in SUBSET R, IsFiniteSet(U)
        PROVE  /\ Total(g, U) \in Int
               /\ U = {} => Total(g, U) = 0
               /\ \A x \in U : Total(g, U) = g[x] + Total(g, U \ {x})
    <2> DEFINE k == [x \in U |-> g[x]]
    <2>1. k \in [U -> Int] /\ \A x \in U : k[x] = g[x]
      OBVIOUS
    <2> HIDE DEF k
    <2>2. Total(k, U) = Total(g, U) /\ \A x \in U : Total(k, U \ {x}) = Total(g, U \ {x})
      BY <2>1, TotalSame
    <2>3. Total(k, U) \in Int /\ (U = {} => Total(k, U) = 0)
      BY <1>1, <2>1, TotalStep, Zenon
    <2>4. \A x \in U : Total(k, U) = k[x] + Total(k, U \ {x})
      BY <1>1, <2>1, TotalWithout
    <2> QED
      BY <2>1, <2>2, <2>3, <2>4
  <1>2. ASSUME NEW x \in R \ S PROVE Total(g, S \cup {x}) = g[x] + Total(g, S)
    <2>1. IsFiniteSet(S \cup {x}) /\ S \cup {x} \in SUBSET R
      BY FS_AddElement
    <2>2. (S \cup {x}) \ {x} = S
      OBVIOUS
    <2>3. Total(g, S \cup {x}) = g[x] + Total(g, (S \cup {x}) \ {x})
      BY <1>1, <2>1
    <2> QED
      BY <2>2, <2>3
  <1> QED
    BY <1>1, <1>2

(* A summand that changes outside the set summed over changes nothing; the *)
(* element added brings its new value, the element removed its old one.    *)
LEMMA TotalMoves ==
    ASSUME NEW R, NEW g \in [R -> Int], NEW h \in [R -> Int], NEW S \in SUBSET R,
           IsFiniteSet(S), NEW x \in R, \A y \in R \ {x} : h[y] = g[y]
    PROVE  /\ x \notin S => Total(h, S) = Total(g, S)
           /\ x \notin S => Total(h, S \cup {x}) = Total(g, S) + h[x]
           /\ x \in S => Total(h, S \ {x}) = Total(g, S) - g[x]
  <1>1. x \notin S => Total(h, S) = Total(g, S)
    BY TotalSame
  <1>2. ASSUME x \notin S PROVE Total(h, S \cup {x}) = Total(g, S) + h[x]
    <2>1. Total(h, S \cup {x}) = h[x] + Total(h, S) /\ h[x] \in Int /\ Total(g, S) \in Int
      BY <1>2, TotalOf
    <2> QED
      BY <1>1, <1>2, <2>1
  <1>3. ASSUME x \in S PROVE Total(h, S \ {x}) = Total(g, S) - g[x]
    <2>1. Total(h, S \ {x}) = Total(g, S \ {x})
      BY TotalSame
    <2>2. Total(g, S) = g[x] + Total(g, S \ {x})
      BY <1>3, TotalOf
    <2>3. IsFiniteSet(S \ {x}) /\ S \ {x} \in SUBSET R
      BY FS_RemoveElement
    <2>4. Total(g, S \ {x}) \in Int /\ g[x] \in Int
      BY <2>3, TotalOf
    <2> QED
      BY <2>1, <2>2, <2>4
  <1> QED
    BY <1>1, <1>2, <1>3

-----------------------------------------------------------------------------
\* The budget ledger.

Amounts == [Dimensions -> Nat]

ReservationRows ==
    [status : {"NONE", "OPEN", "SETTLED", "RELEASED"}, estimate : Amounts, actual : Amounts]

Estimates(d) == [id \in Reservations |-> reservations[id].estimate[d]]

Actuals(d) == [id \in Reservations |-> reservations[id].actual[d]]

BudgetTypes ==
    /\ reserved \in [Dimensions -> Int]
    /\ consumed \in [Dimensions -> Int]
    /\ overrun \in Amounts
    /\ reservations \in [Reservations -> ReservationRows]

(* The inductive invariant of the ledger: finitely many reservations are   *)
(* open or settled, the counters are their sums, and only overruns lie     *)
(* beyond a limit.                                                         *)
BudgetInv ==
    /\ BudgetTypes
    /\ IsFiniteSet(InStatus("OPEN")) /\ IsFiniteSet(InStatus("SETTLED"))
    /\ \A d \in Dimensions : /\ reserved[d] = Total(Estimates(d), InStatus("OPEN"))
                             /\ consumed[d] = Total(Actuals(d), InStatus("SETTLED"))
    /\ \A d \in Dimensions :
          Limit[d] > 0 => reserved[d] + consumed[d] <= Limit[d] + overrun[d]

LEMMA SummandTypes ==
    ASSUME BudgetTypes, NEW d \in Dimensions
    PROVE  Estimates(d) \in [Reservations -> Int] /\ Actuals(d) \in [Reservations -> Int]
BY DEF BudgetTypes, ReservationRows, Amounts, Estimates, Actuals

(* The library's sums are the ones above.                                  *)
LEMMA SumsAreTotals ==
    ASSUME NEW d
    PROVE  /\ MapThenSumSet(LAMBDA id : reservations[id].estimate[d], InStatus("OPEN"))
              = Total(Estimates(d), InStatus("OPEN"))
           /\ MapThenSumSet(LAMBDA id : reservations[id].actual[d], InStatus("SETTLED"))
              = Total(Actuals(d), InStatus("SETTLED"))
  <1>1. \A S \in SUBSET Reservations : \A u \in SUBSET S : u # {} => Chosen(u) \in Reservations
    BY ChosenIn
  <1>2. InStatus("OPEN") \in SUBSET Reservations /\ InStatus("SETTLED") \in SUBSET Reservations
    BY DEF InStatus
  <1>3. MapThenSumSet(LAMBDA id : reservations[id].estimate[d], InStatus("OPEN"))
        = Total(Estimates(d), InStatus("OPEN"))
    <2> DEFINE S == InStatus("OPEN")
               F(f) == [u \in SUBSET S |-> IF u = {} THEN 0
                          ELSE reservations[Chosen(u)].estimate[d] + f[u \ {Chosen(u)}]]
    <2>1. \A f : FoldStep(Estimates(d), S, f) = F(f)
      BY <1>1, <1>2, Zenon DEF FoldStep, Estimates
    <2>2. MapThenSumSet(LAMBDA id : reservations[id].estimate[d], S) = (CHOOSE f : f = F(f))[S]
      BY DEF MapThenSumSet, MapThenFoldSet, Chosen
    <2> HIDE DEF S, F
    <2> QED
      BY <2>1, <2>2, Zenon DEF Total, S
  <1>4. MapThenSumSet(LAMBDA id : reservations[id].actual[d], InStatus("SETTLED"))
        = Total(Actuals(d), InStatus("SETTLED"))
    <2> DEFINE S == InStatus("SETTLED")
               F(f) == [u \in SUBSET S |-> IF u = {} THEN 0
                          ELSE reservations[Chosen(u)].actual[d] + f[u \ {Chosen(u)}]]
    <2>1. \A f : FoldStep(Actuals(d), S, f) = F(f)
      BY <1>1, <1>2, Zenon DEF FoldStep, Actuals
    <2>2. MapThenSumSet(LAMBDA id : reservations[id].actual[d], S) = (CHOOSE f : f = F(f))[S]
      BY DEF MapThenSumSet, MapThenFoldSet, Chosen
    <2> HIDE DEF S, F
    <2> QED
      BY <2>1, <2>2, Zenon DEF Total, S
  <1> QED
    BY <1>3, <1>4

(* One reservation moves from one status to another.                       *)
LEMMA StatusMoves ==
    ASSUME BudgetTypes, NEW id \in Reservations, NEW row \in ReservationRows,
           reservations' = [reservations EXCEPT ![id] = row], NEW status,
           IsFiniteSet(InStatus(status))
    PROVE  /\ InStatus(status)' = IF row.status = status THEN InStatus(status) \cup {id}
                                                         ELSE InStatus(status) \ {id}
           /\ IsFiniteSet(InStatus(status)')
  <1>1. InStatus(status)' = IF row.status = status THEN InStatus(status) \cup {id}
                                                   ELSE InStatus(status) \ {id}
    BY DEF BudgetTypes, InStatus
  <1> QED
    BY <1>1, FS_AddElement, FS_RemoveElement

(* The sums move with it: into the open ones with an estimate, out of them *)
(* by the same estimate, into the settled ones with what was used.         *)
LEMMA SumsMove ==
    ASSUME BudgetInv, NEW id \in Reservations, NEW row \in ReservationRows,
           reservations' = [reservations EXCEPT ![id] = row], reservations[id].status # "SETTLED",
           ~(Open(id) /\ row.status = "OPEN")
    PROVE  /\ reservations' \in [Reservations -> ReservationRows]
           /\ IsFiniteSet(InStatus("OPEN")') /\ IsFiniteSet(InStatus("SETTLED")')
           /\ \A d \in Dimensions :
                /\ Total(Estimates(d)', InStatus("OPEN")') =
                     IF Open(id) THEN reserved[d] - reservations[id].estimate[d]
                     ELSE IF row.status = "OPEN" THEN reserved[d] + row.estimate[d] ELSE reserved[d]
                /\ Total(Actuals(d)', InStatus("SETTLED")') =
                     IF row.status = "SETTLED" THEN consumed[d] + row.actual[d] ELSE consumed[d]
  <1>5. /\ BudgetTypes /\ reservations' \in [Reservations -> ReservationRows]
        /\ IsFiniteSet(InStatus("OPEN")) /\ IsFiniteSet(InStatus("SETTLED"))
    BY DEF BudgetInv, BudgetTypes
  <1>6. InStatus("OPEN")' = IF row.status = "OPEN" THEN InStatus("OPEN") \cup {id}
                                                   ELSE InStatus("OPEN") \ {id}
    BY <1>5, StatusMoves, Zenon
  <1>7. InStatus("SETTLED")' = IF row.status = "SETTLED" THEN InStatus("SETTLED") \cup {id}
                                                         ELSE InStatus("SETTLED") \ {id}
    BY <1>5, StatusMoves, Zenon
  <1>1. /\ BudgetTypes /\ reservations' \in [Reservations -> ReservationRows]
        /\ IsFiniteSet(InStatus("OPEN")) /\ IsFiniteSet(InStatus("SETTLED"))
        /\ IsFiniteSet(InStatus("OPEN")') /\ IsFiniteSet(InStatus("SETTLED")')
    BY <1>5, StatusMoves, Zenon
  <1>2. /\ InStatus("OPEN") \in SUBSET Reservations /\ InStatus("SETTLED") \in SUBSET Reservations
        /\ id \in InStatus("OPEN") <=> Open(id)
        /\ id \notin InStatus("SETTLED")
    BY DEF InStatus, Open
  <1>3. ASSUME NEW d \in Dimensions
        PROVE  Total(Estimates(d)', InStatus("OPEN")') =
                 IF Open(id) THEN reserved[d] - reservations[id].estimate[d]
                 ELSE IF row.status = "OPEN" THEN reserved[d] + row.estimate[d] ELSE reserved[d]
    <2>8. /\ Estimates(d) \in [Reservations -> Int] /\ Estimates(d)' \in [Reservations -> Int]
          /\ InStatus("OPEN") \in SUBSET Reservations /\ InStatus("OPEN")' \in SUBSET Reservations
      BY <1>1, <1>2 DEF BudgetTypes, ReservationRows, Amounts, Estimates, InStatus
    <2>1. PICK g \in [Reservations -> Int], h \in [Reservations -> Int], S \in SUBSET Reservations,
               V \in SUBSET Reservations :
            /\ g = Estimates(d) /\ h = Estimates(d)'
            /\ S = InStatus("OPEN") /\ V = InStatus("OPEN")'
      BY <2>8
    <2>2. IsFiniteSet(S)
      BY <1>1, <2>1
    <2>3. /\ \A k \in Reservations \ {id} : h[k] = g[k]
          /\ h[id] = row.estimate[d] /\ g[id] = reservations[id].estimate[d]
          /\ V = IF row.status = "OPEN" THEN S \cup {id} ELSE S \ {id}
      BY <1>1, <1>6, <2>1 DEF Estimates, BudgetTypes
    <2>4. /\ id \notin S => Total(h, S) = Total(g, S)
          /\ id \notin S => Total(h, S \cup {id}) = Total(g, S) + h[id]
          /\ id \in S => Total(h, S \ {id}) = Total(g, S) - g[id]
      <3>1. \A y \in Reservations \ {id} : h[y] = g[y]
        BY <2>3
      <3> QED
        BY <2>1, <2>2, <3>1, TotalMoves, SMTT(40)
    <2>5. reserved[d] = Total(g, S)
      BY <2>1 DEF BudgetInv
    <2>6. id \notin S => S \ {id} = S
      OBVIOUS
    <2> QED
      BY <1>2, <2>1, <2>3, <2>4, <2>5, <2>6, Zenon
  <1>4. ASSUME NEW d \in Dimensions
        PROVE  Total(Actuals(d)', InStatus("SETTLED")') =
                 IF row.status = "SETTLED" THEN consumed[d] + row.actual[d] ELSE consumed[d]
    <2>8. /\ Actuals(d) \in [Reservations -> Int] /\ Actuals(d)' \in [Reservations -> Int]
          /\ InStatus("SETTLED") \in SUBSET Reservations /\ InStatus("SETTLED")' \in SUBSET Reservations
      BY <1>1, <1>2 DEF BudgetTypes, ReservationRows, Amounts, Actuals, InStatus
    <2>1. PICK g \in [Reservations -> Int], h \in [Reservations -> Int], S \in SUBSET Reservations,
               V \in SUBSET Reservations :
            /\ g = Actuals(d) /\ h = Actuals(d)'
            /\ S = InStatus("SETTLED") /\ V = InStatus("SETTLED")'
      BY <2>8
    <2>2. IsFiniteSet(S)
      BY <1>1, <2>1
    <2>3. /\ \A k \in Reservations \ {id} : h[k] = g[k]
          /\ h[id] = row.actual[d]
          /\ V = IF row.status = "SETTLED" THEN S \cup {id} ELSE S \ {id}
      BY <1>1, <1>7, <2>1 DEF Actuals, BudgetTypes
    <2>4. /\ Total(h, S) = Total(g, S)
          /\ Total(h, S \cup {id}) = Total(g, S) + h[id]
      <3>1. \A y \in Reservations \ {id} : h[y] = g[y]
        BY <2>3
      <3>2. /\ id \notin S => Total(h, S) = Total(g, S)
            /\ id \notin S => Total(h, S \cup {id}) = Total(g, S) + h[id]
            /\ id \in S => Total(h, S \ {id}) = Total(g, S) - g[id]
        BY <2>1, <2>2, <3>1, TotalMoves, SMTT(40)
      <3> QED
        BY <1>2, <2>1, <3>2
    <2>5. consumed[d] = Total(g, S)
      BY <2>1 DEF BudgetInv
    <2>6. S \ {id} = S
      BY <1>2, <2>1
    <2> QED
      BY <1>2, <2>1, <2>3, <2>4, <2>5, <2>6, Zenon
  <1> QED
    BY <1>1, <1>3, <1>4

LEMMA ReserveStep ==
    ASSUME BudgetInv, NEW id \in Reservations, NEW estimate \in Amounts, Reserve(id, estimate)
    PROVE  BudgetInv'
  <1> DEFINE row == [status |-> "OPEN", estimate |-> estimate, actual |-> Zero]
  <1>1. /\ row \in ReservationRows
        /\ row.status = "OPEN" /\ row.estimate = estimate
    BY DEF ReservationRows, Zero, Amounts
  <1>2. /\ reservations' = [reservations EXCEPT ![id] = row]
        /\ reservations[id].status = "NONE" /\ ~Open(id)
        /\ reserved' = Plus(reserved, estimate) /\ consumed' = consumed /\ overrun' = overrun
        /\ WithinLimit(Plus(Plus(reserved, consumed), estimate))
    BY DEF Reserve, Reservable, Open
  <1> HIDE DEF row
  <1>3. /\ reservations' \in [Reservations -> ReservationRows]
        /\ IsFiniteSet(InStatus("OPEN")') /\ IsFiniteSet(InStatus("SETTLED")')
        /\ \A d \in Dimensions :
             /\ Total(Estimates(d)', InStatus("OPEN")') = reserved[d] + estimate[d]
             /\ Total(Actuals(d)', InStatus("SETTLED")') = consumed[d]
    BY <1>1, <1>2, SumsMove, Zenon
  <1>4. /\ reserved \in [Dimensions -> Int] /\ consumed \in [Dimensions -> Int]
        /\ overrun \in Amounts
    BY DEF BudgetInv, BudgetTypes
  <1>5. BudgetTypes'
    BY <1>2, <1>3, <1>4 DEF BudgetTypes, Plus, Amounts
  <1>6. \A d \in Dimensions : reserved'[d] = reserved[d] + estimate[d]
    BY <1>2 DEF Plus
  <1>7. ASSUME NEW d \in Dimensions, Limit[d] > 0
        PROVE  reserved'[d] + consumed'[d] <= Limit[d] + overrun'[d]
    <2>1. reserved[d] + consumed[d] + estimate[d] <= Limit[d]
      BY <1>2, <1>7 DEF WithinLimit, Plus
    <2>2. /\ reserved[d] \in Int /\ consumed[d] \in Int /\ estimate[d] \in Nat
          /\ overrun[d] \in Nat /\ Limit[d] \in Nat
      BY <1>4, BudgetConstants DEF Amounts
    <2> QED
      BY <1>2, <1>6, <2>1, <2>2
  <1>8. \A d \in Dimensions : /\ reserved'[d] = Total(Estimates(d)', InStatus("OPEN")')
                              /\ consumed'[d] = Total(Actuals(d)', InStatus("SETTLED")')
    BY <1>2, <1>3, <1>6
  <1> QED
    BY <1>3, <1>5, <1>7, <1>8 DEF BudgetInv

LEMMA SettleStep ==
    ASSUME BudgetInv, NEW id \in Reservations, NEW actual \in Amounts, Settle(id, actual)
    PROVE  BudgetInv'
  <1> DEFINE row == [reservations[id] EXCEPT !.status = "SETTLED", !.actual = actual]
             estimate == reservations[id].estimate
  <1>1. /\ reserved \in [Dimensions -> Int] /\ consumed \in [Dimensions -> Int]
        /\ overrun \in Amounts /\ reservations \in [Reservations -> ReservationRows]
    BY DEF BudgetInv, BudgetTypes
  <1>2. /\ row \in ReservationRows /\ estimate \in Amounts
        /\ row.status = "SETTLED" /\ row.actual = actual
    BY <1>1, Zenon DEF ReservationRows
  <1>3. /\ reservations' = [reservations EXCEPT ![id] = row]
        /\ Open(id) /\ reservations[id].status # "SETTLED"
        /\ reserved' = Minus(reserved, estimate) /\ consumed' = Plus(consumed, actual)
        /\ overrun' = Plus(overrun, Excess(estimate, actual))
    BY <1>1, Zenon DEF Settle, Open
  <1> HIDE DEF row
  <1>4. /\ reservations' \in [Reservations -> ReservationRows]
        /\ IsFiniteSet(InStatus("OPEN")') /\ IsFiniteSet(InStatus("SETTLED")')
        /\ \A d \in Dimensions :
             /\ Total(Estimates(d)', InStatus("OPEN")') = reserved[d] - estimate[d]
             /\ Total(Actuals(d)', InStatus("SETTLED")') = consumed[d] + actual[d]
    BY <1>2, <1>3, SumsMove, Zenon
  <1> HIDE DEF estimate
  <1>5. ASSUME NEW d \in Dimensions
        PROVE  /\ reserved[d] \in Int /\ consumed[d] \in Int /\ overrun[d] \in Nat
               /\ estimate[d] \in Nat /\ actual[d] \in Nat /\ Limit[d] \in Nat
               /\ reserved'[d] = reserved[d] - estimate[d] /\ consumed'[d] = consumed[d] + actual[d]
               /\ overrun'[d] = overrun[d] + (IF actual[d] > estimate[d] THEN actual[d] - estimate[d] ELSE 0)
    BY <1>1, <1>2, <1>3, BudgetConstants DEF Amounts, Plus, Minus, Excess
  <1>6. BudgetTypes'
    <2>1. overrun' = [d \in Dimensions |-> overrun'[d]] /\ \A d \in Dimensions : overrun'[d] \in Nat
      BY <1>3, <1>5 DEF Plus
    <2>2. /\ reserved' \in [Dimensions -> Int] /\ consumed' \in [Dimensions -> Int]
      BY <1>3, <1>5 DEF Plus, Minus
    <2> QED
      BY <1>4, <2>1, <2>2 DEF BudgetTypes, Amounts
  <1>7. ASSUME NEW d \in Dimensions, Limit[d] > 0
        PROVE  reserved'[d] + consumed'[d] <= Limit[d] + overrun'[d]
    <2>1. reserved[d] + consumed[d] <= Limit[d] + overrun[d]
      BY <1>7 DEF BudgetInv
    <2> QED
      BY <1>5, <2>1
  <1>8. \A d \in Dimensions : /\ reserved'[d] = Total(Estimates(d)', InStatus("OPEN")')
                              /\ consumed'[d] = Total(Actuals(d)', InStatus("SETTLED")')
    BY <1>4, <1>5
  <1> QED
    BY <1>4, <1>6, <1>7, <1>8 DEF BudgetInv

LEMMA ReleaseStep ==
    ASSUME BudgetInv, NEW id \in Reservations, Release(id)
    PROVE  BudgetInv'
  <1> DEFINE row == [reservations[id] EXCEPT !.status = "RELEASED"]
             estimate == reservations[id].estimate
  <1>1. /\ reserved \in [Dimensions -> Int] /\ consumed \in [Dimensions -> Int]
        /\ overrun \in Amounts /\ reservations \in [Reservations -> ReservationRows]
    BY DEF BudgetInv, BudgetTypes
  <1>2. row \in ReservationRows /\ estimate \in Amounts /\ row.status = "RELEASED"
    BY <1>1 DEF ReservationRows
  <1>3. /\ reservations' = [reservations EXCEPT ![id] = row]
        /\ Open(id) /\ reservations[id].status # "SETTLED"
        /\ reserved' = Minus(reserved, estimate) /\ consumed' = consumed /\ overrun' = overrun
    BY <1>1 DEF Release, Open
  <1> HIDE DEF row
  <1>4. /\ reservations' \in [Reservations -> ReservationRows]
        /\ IsFiniteSet(InStatus("OPEN")') /\ IsFiniteSet(InStatus("SETTLED")')
        /\ \A d \in Dimensions :
             /\ Total(Estimates(d)', InStatus("OPEN")') = reserved[d] - estimate[d]
             /\ Total(Actuals(d)', InStatus("SETTLED")') = consumed[d]
    BY <1>2, <1>3, SumsMove, Zenon
  <1> HIDE DEF estimate
  <1>5. ASSUME NEW d \in Dimensions
        PROVE  /\ reserved[d] \in Int /\ consumed[d] \in Int /\ overrun[d] \in Nat
               /\ estimate[d] \in Nat /\ Limit[d] \in Nat
               /\ reserved'[d] = reserved[d] - estimate[d]
    BY <1>1, <1>2, <1>3, BudgetConstants DEF Amounts, Minus
  <1>6. BudgetTypes'
    BY <1>1, <1>3, <1>4, <1>5 DEF BudgetTypes, Minus
  <1>7. ASSUME NEW d \in Dimensions, Limit[d] > 0
        PROVE  reserved'[d] + consumed'[d] <= Limit[d] + overrun'[d]
    <2>1. reserved[d] + consumed[d] <= Limit[d] + overrun[d]
      BY <1>7 DEF BudgetInv
    <2> QED
      BY <1>3, <1>5, <2>1
  <1>8. \A d \in Dimensions : /\ reserved'[d] = Total(Estimates(d)', InStatus("OPEN")')
                              /\ consumed'[d] = Total(Actuals(d)', InStatus("SETTLED")')
    BY <1>3, <1>4, <1>5
  <1> QED
    BY <1>4, <1>6, <1>7, <1>8 DEF BudgetInv

LEMMA BudgetStep == ASSUME BudgetInv, BudgetNext PROVE BudgetInv'
  <1>1. ASSUME NEW id \in Reservations, NEW estimate \in Amounts, Reserve(id, estimate) PROVE BudgetInv'
    BY <1>1, ReserveStep
  <1>2. ASSUME NEW id \in Reservations, NEW actual \in Amounts, Settle(id, actual) PROVE BudgetInv'
    BY <1>2, SettleStep
  <1>3. ASSUME NEW id \in Reservations, Release(id) PROVE BudgetInv'
    BY <1>3, ReleaseStep
  <1> QED
    BY <1>1, <1>2, <1>3 DEF BudgetNext, Amounts

LEMMA BudgetStays == ASSUME BudgetInv, UNCHANGED budgetVars PROVE BudgetInv'
  <1>1. /\ \A d : Estimates(d)' = Estimates(d) /\ Actuals(d)' = Actuals(d)
        /\ \A status : InStatus(status)' = InStatus(status)
        /\ reserved' = reserved /\ consumed' = consumed /\ overrun' = overrun
        /\ reservations' = reservations
    BY DEF budgetVars, Estimates, Actuals, InStatus
  <1> QED
    BY <1>1 DEF BudgetInv, BudgetTypes

LEMMA BudgetStarts == ASSUME BudgetInit PROVE BudgetInv
  <1>1. Zero \in Amounts /\ \A d \in Dimensions : Zero[d] = 0
    BY DEF Zero, Amounts
  <1>2. BudgetTypes
    BY <1>1 DEF BudgetInit, BudgetTypes, ReservationRows, Amounts
  <1>3. InStatus("OPEN") = {} /\ InStatus("SETTLED") = {}
    BY DEF BudgetInit, InStatus
  <1>4. IsFiniteSet({})
    BY FS_EmptySet
  <1>5. ASSUME NEW d \in Dimensions
        PROVE  Total(Estimates(d), {}) = 0 /\ Total(Actuals(d), {}) = 0
    BY <1>2, <1>4, SummandTypes, TotalOf
  <1>6. \A d \in Dimensions : reserved[d] = 0 /\ consumed[d] = 0 /\ overrun[d] = 0 /\ Limit[d] \in Nat
    BY <1>1, BudgetConstants DEF BudgetInit
  <1> QED
    BY <1>2, <1>3, <1>4, <1>5, <1>6 DEF BudgetInv

LEMMA BudgetMeans == ASSUME BudgetInv PROVE CountersAreSums /\ OverspendIsOverrun
  <1>1. CountersAreSums
    BY SumsAreTotals, Zenon DEF BudgetInv, CountersAreSums, ReservedIsOpenEstimates, ConsumedIsSettledActuals
  <1>2. ASSUME Exhausted PROVE \E d \in Dimensions : overrun[d] > 0
    <2>1. PICK d \in Dimensions : Limit[d] > 0 /\ ~(Plus(reserved, consumed)[d] <= Limit[d])
      BY <1>2 DEF Exhausted, WithinLimit
    <2>2. /\ Plus(reserved, consumed)[d] = reserved[d] + consumed[d]
          /\ reserved[d] \in Int /\ consumed[d] \in Int /\ overrun[d] \in Nat /\ Limit[d] \in Nat
          /\ reserved[d] + consumed[d] <= Limit[d] + overrun[d]
      BY <2>1, BudgetConstants DEF Plus, BudgetInv, BudgetTypes, Amounts
    <2>3. overrun[d] > 0
      BY <2>1, <2>2
    <2> QED
      BY <2>3
  <1> QED
    BY <1>1, <1>2 DEF BudgetInv, OverspendIsOverrun

(* Whatever its callers do, the counters of the ledger are the sums of     *)
(* what its reservations say.                                              *)
THEOREM LedgerCountersAreSums == BudgetSpec => []CountersAreSums
  <1>1. BudgetInv /\ [BudgetNext]_budgetVars => BudgetInv'
    BY BudgetStep, BudgetStays
  <1> QED
    BY <1>1, BudgetStarts, BudgetMeans, PTL DEF BudgetSpec

(* Whatever its callers do, a limit is exceeded only by what attempts used *)
(* beyond their estimates.                                                 *)
THEOREM LedgerOverspendIsOverrun == BudgetSpec => []OverspendIsOverrun
  <1>1. BudgetInv /\ [BudgetNext]_budgetVars => BudgetInv'
    BY BudgetStep, BudgetStays
  <1> QED
    BY <1>1, BudgetStarts, BudgetMeans, PTL DEF BudgetSpec

-----------------------------------------------------------------------------
\* The supervisor.

SupervisorTypes ==
  /\ phase \in {"PLANNING", "READY", "RUNNING", "FAILED", "CANCELLED"}
  /\ nodeState \in [PlanNodes -> {"PENDING", "READY", "RUNNING", "SUCCEEDED", "FAILED"}]
  /\ round \in [pc : {"idle", "reserve", "ErrPlanNotReady"}, left : SUBSET PlanNodes, conditions : SUBSET PlanNodes]
  /\ held \subseteq PlanNodes
  /\ invoked \in [PlanNodes -> {"no", "calling", "ok", "failed"}]
  /\ retries \in Nat

(* As long as nothing was retried, a selection in progress finds the names *)
(* of the nodes it has still to reserve unused.                            *)
Unused(n) == reservations[n].status = "NONE"

SelectionOK ==
  /\ round.pc = "reserve" =>
       /\ phase \in {"READY", "RUNNING"}
       /\ round.left \cap held = {}
       /\ \A n \in round.left : nodeState[n] \in {"PENDING", "READY"}
  /\ retries = 0 /\ phase # "CANCELLED" =>
       \A n \in PlanNodes \ held : nodeState[n] \in {"PENDING", "READY"} => Unused(n)

Owned(n) == n \in held \/ n \in dropped \/ (n \in PlanNodes /\ invoked[n] = "calling")

SupervisorInv ==
  /\ BudgetInv /\ SupervisorTypes /\ SelectionOK
  /\ \A n \in Reservations : reservations[n].status = "OPEN" => Owned(n)
  /\ dropped # {} => retries > 0

(* A step of the caller that leaves the ledger alone.                      *)
LEMMA CallerStep ==
  ASSUME SupervisorInv, UNCHANGED budgetVars, SupervisorTypes', SelectionOK',
         \A n \in PlanNodes : Owned(n) => Owned(n)', UNCHANGED dropped, retries' >= retries
  PROVE  SupervisorInv'
  <1>1. BudgetInv'
    BY BudgetStays DEF SupervisorInv
  <1>2. ASSUME NEW n \in Reservations, reservations'[n].status = "OPEN" PROVE Owned(n)'
    <2>1. reservations' = reservations /\ Owned(n)
      BY <1>2 DEF SupervisorInv, budgetVars
    <2> QED
      BY <2>1 DEF Owned, SupervisorInv, SupervisorTypes
  <1>3. (dropped # {} => retries > 0)'
    BY DEF SupervisorInv, SupervisorTypes
  <1> QED
    BY <1>1, <1>2, <1>3 DEF SupervisorInv

LEMMA AcceptPlanStep == ASSUME SupervisorInv, AcceptPlan PROVE SupervisorInv'
  <1>1. /\ phase = "PLANNING" /\ phase' \in {"READY", "FAILED"} /\ UNCHANGED budgetVars
        /\ reservations' = reservations /\ nodeState' = nodeState /\ round' = round /\ held' = held
        /\ invoked' = invoked /\ retries' = retries /\ dropped' = dropped
    BY DEF AcceptPlan, budgetVars
  <1>2. SupervisorTypes' /\ SelectionOK'
    BY <1>1 DEF SupervisorInv, SupervisorTypes, SelectionOK, Unused
  <1>3. \A n \in PlanNodes : Owned(n) => Owned(n)'
    BY <1>1 DEF Owned
  <1> QED
    BY <1>1, <1>2, <1>3, CallerStep DEF SupervisorInv, SupervisorTypes

LEMMA PrepareStep == ASSUME SupervisorInv, PrepareRunnable PROVE SupervisorInv'
  <1>1. /\ held = {} /\ phase \in {"READY", "RUNNING"} /\ phase' = phase /\ UNCHANGED budgetVars
        /\ reservations' = reservations /\ nodeState' = nodeState /\ held' = held
        /\ invoked' = invoked /\ retries' = retries /\ dropped' = dropped
    BY DEF PrepareRunnable, budgetVars
  <1>2. round' \in [pc : {"idle", "reserve", "ErrPlanNotReady"}, left : SUBSET Candidates, conditions : SUBSET PlanNodes]
    BY DEF PrepareRunnable, Candidates
  <1>3. \A n \in Candidates : n \in PlanNodes /\ nodeState[n] \in {"PENDING", "READY"}
    BY DEF Candidates
  <1>4. SupervisorTypes' /\ SelectionOK'
    BY <1>1, <1>2, <1>3 DEF SupervisorInv, SupervisorTypes, SelectionOK, Unused
  <1>5. \A n \in PlanNodes : Owned(n) => Owned(n)'
    BY <1>1 DEF Owned
  <1> QED
    BY <1>1, <1>4, <1>5, CallerStep DEF SupervisorInv, SupervisorTypes

LEMMA RunStep == ASSUME SupervisorInv, NEW n \in PlanNodes, Run(n) PROVE SupervisorInv'
  <1>1. /\ round.pc # "reserve" /\ n \in held /\ held' = held \ {n} /\ phase' = "RUNNING"
        /\ nodeState' = [nodeState EXCEPT ![n] = "RUNNING"]
        /\ invoked' = [invoked EXCEPT ![n] = "calling"] /\ UNCHANGED budgetVars
        /\ reservations' = reservations /\ round' = round /\ retries' = retries /\ dropped' = dropped
    BY DEF Run, budgetVars
  <1>2. phase # "CANCELLED"
    BY DEF Run, CanTransitionExecution, NextPhases
  <1>3. SupervisorTypes'
    BY <1>1 DEF SupervisorInv, SupervisorTypes
  <1>4. SelectionOK'
    BY <1>1, <1>2 DEF SupervisorInv, SupervisorTypes, SelectionOK, Unused
  <1>5. \A m \in PlanNodes : Owned(m) => Owned(m)'
    BY <1>1 DEF Owned, SupervisorInv, SupervisorTypes
  <1> QED
    BY <1>1, <1>3, <1>4, <1>5, CallerStep DEF SupervisorInv, SupervisorTypes

LEMMA ApplyResultStep == ASSUME SupervisorInv, NEW n \in PlanNodes, ApplyResult(n) PROVE SupervisorInv'
  <1>1. /\ round.pc # "reserve" /\ UNCHANGED budgetVars /\ reservations' = reservations
        /\ \E state \in {"SUCCEEDED", "FAILED"} : nodeState' = [nodeState EXCEPT ![n] = state]
        /\ phase' = phase /\ round' = round /\ held' = held /\ invoked' = invoked
        /\ retries' = retries /\ dropped' = dropped
    BY Zenon DEF ApplyResult, budgetVars
  <1>2. SupervisorTypes' /\ SelectionOK'
    BY <1>1 DEF SupervisorInv, SupervisorTypes, SelectionOK, Unused
  <1>3. \A m \in PlanNodes : Owned(m) => Owned(m)'
    BY <1>1 DEF Owned
  <1> QED
    BY <1>1, <1>2, <1>3, CallerStep DEF SupervisorInv, SupervisorTypes

LEMMA RetryStep == ASSUME SupervisorInv, NEW n \in PlanNodes, Retry(n) PROVE SupervisorInv'
  <1>1. /\ UNCHANGED budgetVars /\ nodeState' = [nodeState EXCEPT ![n] = "READY"]
        /\ retries' = retries + 1 /\ round' = [round EXCEPT !.pc = "idle"]
        /\ phase' = phase /\ held' = held /\ invoked' = invoked /\ dropped' = dropped
    BY DEF Retry
  <1>2. retries' # 0 /\ retries' >= retries /\ SupervisorTypes'
    BY <1>1 DEF SupervisorInv, SupervisorTypes
  <1>3. SelectionOK'
    BY <1>1, <1>2 DEF SupervisorInv, SupervisorTypes, SelectionOK
  <1>4. \A m \in PlanNodes : Owned(m) => Owned(m)'
    BY <1>1 DEF Owned
  <1> QED
    BY <1>1, <1>2, <1>3, <1>4, CallerStep

LEMMA CancelStep == ASSUME SupervisorInv, Cancel PROVE SupervisorInv'
  <1>1. /\ round.pc # "reserve" /\ phase' = "CANCELLED" /\ UNCHANGED budgetVars
        /\ nodeState' = nodeState /\ round' = round /\ held' = held
        /\ invoked' = invoked /\ retries' = retries /\ dropped' = dropped
    BY DEF Cancel
  <1>2. SupervisorTypes' /\ SelectionOK'
    BY <1>1 DEF SupervisorInv, SupervisorTypes, SelectionOK
  <1>3. \A n \in PlanNodes : Owned(n) => Owned(n)'
    BY <1>1 DEF Owned
  <1> QED
    BY <1>1, <1>2, <1>3, CallerStep DEF SupervisorInv, SupervisorTypes

LEMMA EstimateOf == ASSUME NEW n \in PlanNodes PROVE n \in Reservations /\ Estimated[n] \in Amounts
BY SupervisorConstants DEF Amounts

LEMMA ActualOf ==
  ASSUME NEW n \in PlanNodes, NEW cost \in 0..MaxCost
  PROVE  ActualBudgetForInvocation(n, cost) \in Amounts
  <1>1. cost \in Nat
    BY SupervisorConstants
  <1>2. \A d \in Dimensions : ActualBudgetForInvocation(n, cost)[d] \in Nat
    BY <1>1 DEF ActualBudgetForInvocation
  <1> QED
    BY <1>2 DEF ActualBudgetForInvocation, Amounts

(* The loop reserves a node, which is then held ...                        *)
LEMMA SelectedStep ==
  ASSUME SupervisorInv, NEW n \in round.left, round.pc = "reserve", Reserve(n, Estimated[n]),
         held' = held \cup {n}, NEW next \in {"idle", "reserve"},
         round' = [round EXCEPT !.left = round.left \ {n}, !.pc = next],
         UNCHANGED <<phase, nodeState, invoked, retries, dropped>>
  PROVE  SupervisorInv'
  <1>1. n \in PlanNodes
    BY DEF SupervisorInv, SupervisorTypes
  <1>2. BudgetInv'
    <2>1. n \in Reservations /\ Estimated[n] \in Amounts
      BY <1>1, EstimateOf
    <2>2. BudgetNext
      BY <2>1 DEF BudgetNext, Amounts
    <2> QED
      BY <2>2, BudgetStep DEF SupervisorInv
  <1>3. \A m \in Reservations \ {n} : reservations'[m] = reservations[m]
    BY DEF Reserve, SupervisorInv, BudgetInv, BudgetTypes
  <1>4. SupervisorTypes'
    BY <1>1, Zenon DEF SupervisorInv, SupervisorTypes
  <1>5. SelectionOK'
    <2>1. round'.left = round.left \ {n}
      BY DEF SupervisorInv, SupervisorTypes
    <2>2. \A m \in PlanNodes \ held' : Unused(m)' <=> Unused(m)
      BY <1>3, SupervisorConstants DEF Unused
    <2> QED
      BY <2>1, <2>2 DEF SupervisorInv, SelectionOK
  <1>6. \A m \in Reservations : reservations'[m].status = "OPEN" => Owned(m)'
    BY <1>3 DEF SupervisorInv, Owned
  <1> QED
    BY <1>2, <1>4, <1>5, <1>6 DEF SupervisorInv

(* ... or it gives up, which takes a name that is used ...                 *)
LEMMA DroppedStep ==
  ASSUME SupervisorInv, NEW n \in round.left, round.pc = "reserve", ~Reservable(n),
         held' = {}, dropped' = dropped \cup held,
         round' = [round EXCEPT !.left = {}, !.pc = "idle"],
         UNCHANGED <<budgetVars, phase, nodeState, invoked, retries>>
  PROVE  SupervisorInv'
  <1>1. BudgetInv' /\ reservations' = reservations
    BY BudgetStays DEF SupervisorInv, budgetVars
  <1>2. SupervisorTypes'
    BY Zenon DEF SupervisorInv, SupervisorTypes
  <1>3. retries # 0
    BY DEF SupervisorInv, SupervisorTypes, SelectionOK, Unused, Reservable
  <1>4. SelectionOK'
    BY <1>3 DEF SupervisorInv, SupervisorTypes, SelectionOK
  <1>5. \A m \in Reservations : reservations'[m].status = "OPEN" => Owned(m)'
    BY <1>1 DEF SupervisorInv, Owned
  <1> QED
    BY <1>1, <1>2, <1>3, <1>4, <1>5 DEF SupervisorInv, SupervisorTypes

(* ... or it passes over a node that the budget does not admit.            *)
LEMMA PassedStep ==
  ASSUME SupervisorInv, NEW n \in round.left, round.pc = "reserve", NEW next \in {"idle", "reserve"},
         round' = [round EXCEPT !.left = round.left \ {n}, !.pc = next, !.conditions = @ \cup {n}],
         UNCHANGED <<budgetVars, phase, nodeState, invoked, retries, held, dropped>>
  PROVE  SupervisorInv'
  <1>1. SupervisorTypes'
    <2>1. round' \in [pc : {"idle", "reserve", "ErrPlanNotReady"}, left : SUBSET PlanNodes, conditions : SUBSET PlanNodes]
      <3>1. round \in [pc : {"idle", "reserve", "ErrPlanNotReady"}, left : SUBSET PlanNodes, conditions : SUBSET PlanNodes]
        BY DEF SupervisorInv, SupervisorTypes
      <3> QED
        BY <3>1, Zenon
    <2> QED
      BY <2>1 DEF SupervisorInv, SupervisorTypes
  <1>2. reservations' = reservations /\ round'.left = round.left \ {n}
    BY DEF budgetVars, SupervisorInv, SupervisorTypes
  <1>3. SelectionOK'
    BY <1>2 DEF SupervisorInv, SelectionOK, Unused
  <1>4. \A m \in PlanNodes : Owned(m) => Owned(m)'
    BY DEF Owned
  <1> QED
    BY <1>1, <1>3, <1>4, CallerStep DEF SupervisorTypes, SupervisorInv

LEMMA SelectStep == ASSUME SupervisorInv, SelectRunnable PROVE SupervisorInv'
  <1>1. PICK n \in round.left, next \in {"idle", "reserve"} :
          \/ /\ Reserve(n, Estimated[n])
             /\ held' = held \cup {n}
             /\ round' = [round EXCEPT !.left = round.left \ {n}, !.pc = next]
             /\ UNCHANGED dropped
          \/ /\ ~Reservable(n)
             /\ held' = {} /\ dropped' = dropped \cup held
             /\ round' = [round EXCEPT !.left = {}, !.pc = "idle"]
             /\ UNCHANGED budgetVars
          \/ /\ round' = [round EXCEPT !.left = round.left \ {n}, !.pc = next, !.conditions = @ \cup {n}]
             /\ UNCHANGED <<budgetVars, held, dropped>>
    BY Zenon DEF SelectRunnable
  <1>2. round.pc = "reserve" /\ UNCHANGED <<phase, nodeState, invoked, retries>>
    BY DEF SelectRunnable
  <1> QED
    BY <1>1, <1>2, SelectedStep, DroppedStep, PassedStep, Zenon

(* An attempt settles what it used, and is over.                           *)
LEMMA SettleInvocationStep ==
  ASSUME SupervisorInv, NEW n \in PlanNodes, SettleInvocation(n) PROVE SupervisorInv'
  <1>1. PICK cost \in 0..MaxCost, outcome \in {"ok", "failed"} :
          /\ Settle(n, ActualBudgetForInvocation(n, cost))
          /\ invoked' = [invoked EXCEPT ![n] = outcome]
    BY Zenon DEF SettleInvocation
  <1>2. UNCHANGED <<phase, nodeState, round, held, retries, dropped>>
    BY DEF SettleInvocation
  <1>3. BudgetInv'
    <2>1. n \in Reservations /\ ActualBudgetForInvocation(n, cost) \in Amounts
      BY EstimateOf, ActualOf
    <2>2. BudgetNext
      BY <1>1, <2>1 DEF BudgetNext, Amounts
    <2> QED
      BY <2>2, BudgetStep DEF SupervisorInv
  <1>4. /\ reservations[n].status = "OPEN" /\ reservations'[n].status = "SETTLED"
        /\ \A m \in Reservations \ {n} : reservations'[m] = reservations[m]
    BY <1>1, EstimateOf DEF Settle, Open, SupervisorInv, BudgetInv, BudgetTypes, ReservationRows
  <1>5. SupervisorTypes'
    BY <1>1, <1>2 DEF SupervisorInv, SupervisorTypes
  <1>6. SelectionOK'
    <2>1. \A m \in PlanNodes : Unused(m) => Unused(m)'
      BY <1>4, SupervisorConstants DEF Unused
    <2> QED
      BY <1>2, <2>1 DEF SupervisorInv, SelectionOK
  <1>7. \A m \in Reservations : reservations'[m].status = "OPEN" => Owned(m)'
    BY <1>1, <1>2, <1>4 DEF SupervisorInv, SupervisorTypes, Owned
  <1> QED
    BY <1>2, <1>3, <1>5, <1>6, <1>7 DEF SupervisorInv

LEMMA GiveBackStep == ASSUME SupervisorInv, NEW n \in PlanNodes, GiveBack(n) PROVE SupervisorInv'
  <1>1. /\ Release(n) /\ phase = "CANCELLED" /\ held' = held \ {n}
        /\ UNCHANGED <<phase, nodeState, round, invoked, retries, dropped>>
    BY DEF GiveBack
  <1>2. BudgetInv'
    <2>1. BudgetNext
      BY <1>1, EstimateOf DEF BudgetNext
    <2> QED
      BY <2>1, BudgetStep DEF SupervisorInv
  <1>3. /\ reservations'[n].status = "RELEASED"
        /\ \A m \in Reservations \ {n} : reservations'[m] = reservations[m]
    BY <1>1, EstimateOf DEF Release, SupervisorInv, BudgetInv, BudgetTypes, ReservationRows
  <1>4. SupervisorTypes'
    BY <1>1 DEF SupervisorInv, SupervisorTypes
  <1>5. SelectionOK'
    BY <1>1 DEF SupervisorInv, SelectionOK
  <1>6. \A m \in Reservations : reservations'[m].status = "OPEN" => Owned(m)'
    BY <1>1, <1>3 DEF SupervisorInv, Owned
  <1> QED
    BY <1>1, <1>2, <1>4, <1>5, <1>6 DEF SupervisorInv

LEMMA SupervisorStarts == ASSUME BudgetInit, SupervisorInit PROVE SupervisorInv
  <1>1. BudgetInv
    BY BudgetStarts
  <1>2. \A n \in Reservations : reservations[n].status = "NONE"
    BY DEF BudgetInit
  <1>3. SupervisorTypes
    BY DEF SupervisorInit, SupervisorTypes
  <1>4. SelectionOK
    BY <1>2, SupervisorConstants DEF SupervisorInit, SelectionOK, Unused
  <1> QED
    BY <1>1, <1>2, <1>3, <1>4 DEF SupervisorInv, SupervisorInit

(* Whatever the caller of the supervisor does between two selections, an   *)
(* open reservation belongs to a node that is held, called, or was dropped *)
(* by a selection that failed, and none fails so before a node is retried. *)
THEOREM ReservationsAreOwned == SupervisorSpec => []OpenIsOwned
  <1>1. SupervisorInv /\ [SupervisorNext]_<<budgetVars, supervisorVars>> => SupervisorInv'
    <2> SUFFICES ASSUME SupervisorInv, [SupervisorNext]_<<budgetVars, supervisorVars>> PROVE SupervisorInv'
      OBVIOUS
    <2>1. ASSUME SupervisorNext PROVE SupervisorInv'
      BY <2>1, AcceptPlanStep, PrepareStep, SelectStep, CancelStep, RunStep, SettleInvocationStep,
         ApplyResultStep, RetryStep, GiveBackStep DEF SupervisorNext
    <2>2. ASSUME UNCHANGED <<budgetVars, supervisorVars>> PROVE SupervisorInv'
      <3>1. /\ UNCHANGED budgetVars /\ reservations' = reservations /\ UNCHANGED dropped
            /\ UNCHANGED <<phase, nodeState, round, held, invoked, retries>>
        BY <2>2 DEF supervisorVars, budgetVars
      <3>2. SupervisorTypes' /\ SelectionOK'
        BY <3>1 DEF SupervisorInv, SupervisorTypes, SelectionOK, Unused
      <3>3. (\A n \in PlanNodes : Owned(n) => Owned(n)') /\ retries' >= retries
        BY <3>1 DEF Owned, SupervisorInv, SupervisorTypes
      <3> QED
        BY <3>1, <3>2, <3>3, CallerStep
    <2> QED
      BY <2>1, <2>2
  <1>2. SupervisorInv => OpenIsOwned
    BY DEF SupervisorInv, OpenIsOwned, Owned
  <1> QED
    BY <1>1, <1>2, SupervisorStarts, PTL DEF SupervisorSpec

-----------------------------------------------------------------------------
\* The ranking.  Candidates whose places differ can be put in order.
Rankable(C) ==
  /\ IsFiniteSet(C)
  /\ \A c \in C : c.score \in Int /\ c.cost \in Int /\ c.place \in Int
  /\ \A c \in C : \A d \in C : c.place = d.place => c = d

LEMMA BetterIsOrder ==
    ASSUME NEW U, Rankable(U)
    PROVE  /\ \A c \in U : \A d \in U : c # d => Better(c, d) \/ Better(d, c)
           /\ \A a \in U : \A b \in U : \A c \in U : Better(a, b) /\ Better(b, c) => Better(a, c)
  BY DEF Rankable, Better

LEMMA WorstOf ==
    ASSUME NEW U, Rankable(U), NEW C \in SUBSET U, C # {}
    PROVE  \E w \in C : \A c \in C : c # w => Better(c, w)
  <1> DEFINE HasWorst(D) == \E w \in D : \A c \in D : c # w => Better(c, w)
             T == {n \in Nat : \A D \in SUBSET U : Cardinality(D) = n + 1 => HasWorst(D)}
  <1>0. \A D \in SUBSET U : IsFiniteSet(D) /\ Cardinality(D) \in Nat
    BY FS_Subset, FS_CardinalityType, Zenon DEF Rankable
  <1>1. 0 \in T
    <2> SUFFICES ASSUME NEW D \in SUBSET U, Cardinality(D) = 1 PROVE HasWorst(D)
      OBVIOUS
    <2>1. PICK x : D = {x}
      BY <1>0, FS_Singleton, Zenon
    <2> QED
      BY <2>1, Zenon
  <1>2. ASSUME NEW n \in Nat, n \in T
        PROVE  n + 1 \in T
    <2> SUFFICES ASSUME NEW D \in SUBSET U, Cardinality(D) = n + 2 PROVE HasWorst(D)
      OBVIOUS
    <2>1. PICK x \in D : TRUE
      BY <1>0, FS_EmptySet
    <2>2. D \ {x} \in SUBSET U /\ Cardinality(D \ {x}) = n + 1
      <3>1. IsFiniteSet(D)
        BY <1>0, Zenon
      <3>2. Cardinality(D \ {x}) = Cardinality(D) - 1
        BY <2>1, <3>1, FS_RemoveElement, Zenon
      <3> QED
        BY <3>2
    <2>3. HasWorst(D \ {x})
      BY SMTT(30), <1>2, <2>2
    <2>4. PICK w \in D \ {x} : \A c \in D \ {x} : c # w => Better(c, w)
      BY <2>3, Zenon
    <2>5. CASE Better(x, w)
      BY <2>4, <2>5, Zenon
    <2>6. CASE Better(w, x)
      <3>1. \A c \in D : c # x => Better(c, x)
        BY <2>4, <2>6, BetterIsOrder, Zenon
      <3> QED
        BY <3>1, Zenon
    <2> QED
      BY <2>4, <2>5, <2>6, BetterIsOrder, Zenon
  <1> HIDE DEF HasWorst, T
  <1>3. Nat \subseteq T
    BY <1>1, <1>2, Induction, Zenon
  <1>4. Cardinality(C) \in Nat /\ Cardinality(C) - 1 \in Nat
    BY <1>0, FS_EmptySet
  <1>5. Cardinality(C) - 1 \in T /\ Cardinality(C) = (Cardinality(C) - 1) + 1
    BY <1>3, <1>4
  <1>6. HasWorst(C)
    BY <1>5, Zenon DEF T
  <1> QED
    BY <1>6, Zenon DEF HasWorst

InOrder(s, n) == \A i \in 1..n : \A j \in 1..n : i < j => Better(s[i], s[j])

LEMMA OrderOf ==
    ASSUME NEW U, Rankable(U)
    PROVE  \E s \in [1..Cardinality(U) -> U] : InOrder(s, Cardinality(U))
  <1> DEFINE HasOrder(D, n) == \E s \in [1..n -> D] : InOrder(s, n)
             T == {n \in Nat : \A D \in SUBSET U : Cardinality(D) = n => HasOrder(D, n)}
  <1>0. \A D \in SUBSET U : IsFiniteSet(D) /\ Cardinality(D) \in Nat
    BY FS_Subset, FS_CardinalityType, Zenon DEF Rankable
  <1>1. 0 \in T
    <2> SUFFICES ASSUME NEW D \in SUBSET U PROVE HasOrder(D, 0)
      BY Zenon
    <2>1. [i \in 1..0 |-> i] \in [1..0 -> D] /\ InOrder([i \in 1..0 |-> i], 0)
      BY DEF InOrder
    <2> QED
      BY <2>1, Zenon
  <1>2. ASSUME NEW n \in Nat, n \in T
        PROVE  n + 1 \in T
    <2> SUFFICES ASSUME NEW D \in SUBSET U, Cardinality(D) = n + 1 PROVE HasOrder(D, n + 1)
      OBVIOUS
    <2>1. D # {}
      BY <1>0, FS_EmptySet
    <2>2. PICK w \in D : \A c \in D : c # w => Better(c, w)
      BY <2>1, WorstOf, Zenon
    <2>3. D \ {w} \in SUBSET U /\ Cardinality(D \ {w}) = n
      <3>1. IsFiniteSet(D)
        BY <1>0, Zenon
      <3>2. Cardinality(D \ {w}) = Cardinality(D) - 1
        BY <2>2, <3>1, FS_RemoveElement, Zenon
      <3> QED
        BY <3>2
    <2>4. HasOrder(D \ {w}, n)
      BY <1>2, <2>3, Zenon
    <2>5. PICK s \in [1..n -> D \ {w}] : InOrder(s, n)
      BY <2>4, Zenon
    <2> DEFINE t == [i \in 1..(n + 1) |-> IF i = n + 1 THEN w ELSE s[i]]
    <2>6. t \in [1..(n + 1) -> D]
      BY <2>5
    <2>7. InOrder(t, n + 1)
      <3>1. ASSUME NEW i \in 1..(n + 1), NEW j \in 1..(n + 1), i < j
            PROVE  Better(t[i], t[j])
        <4>1. i \in 1..n /\ t[i] = s[i] /\ s[i] \in D \ {w}
          BY <2>5, <3>1
        <4>2. CASE j = n + 1
          BY <4>1, <4>2, <2>2, Zenon
        <4>3. CASE j \in 1..n
          BY <4>1, <4>3, <3>1, <2>5 DEF InOrder
        <4> QED
          BY <4>2, <4>3
      <3> HIDE DEF t
      <3> QED
        BY <3>1, Zenon DEF InOrder
    <2> HIDE DEF t
    <2> QED
      BY <2>6, <2>7, Zenon
  <1> HIDE DEF HasOrder, T
  <1>3. Nat \subseteq T
    BY <1>1, <1>2, Induction, Zenon
  <1>4. HasOrder(U, Cardinality(U))
    BY <1>0, <1>3, Zenon DEF T
  <1> QED
    BY <1>4, Zenon DEF HasOrder

\* The sort leaves the candidates in some order.
LEMMA RankedOf ==
    ASSUME NEW U, Rankable(U)
    PROVE  Rankings(U) # {}
  <1>1. PICK s \in [1..Cardinality(U) -> U] : InOrder(s, Cardinality(U))
    BY OrderOf, Zenon
  <1>2. DOMAIN s = 1..Cardinality(U)
    BY <1>1, Zenon
  <1>3. \A i \in DOMAIN s : \A j \in DOMAIN s : i < j => Better(s[i], s[j])
    BY <1>1, <1>2, Zenon DEF InOrder
  <1> QED
    BY <1>1, <1>3, Zenon DEF Rankings

-----------------------------------------------------------------------------
\* Routing by price.

\* The order of the policies has a first one in every finite set.
Dated(P) == \A p \in P : p.from \in Int /\ p.created \in Int /\ p.version \in Int

LEMMA NewestOf ==
    ASSUME NEW P, IsFiniteSet(P), Dated(P), P # {}
    PROVE  \E p \in P : \A q \in P : ~Supersedes(q, p)
  <1> DEFINE HasNewest(s) == \E p \in s : \A q \in s : ~Supersedes(q, p)
             T == {s \in SUBSET P : s # {} => HasNewest(s)}
  <1>1. ASSUME NEW s \in SUBSET P, \A x \in s : s \ {x} \in T PROVE s \in T
    <2> SUFFICES ASSUME s # {} PROVE HasNewest(s)
      BY Zenon
    <2>1. PICK x \in s : TRUE
      BY Zenon
    <2>2. \A p \in P : ~Supersedes(p, p)
      BY DEF Supersedes, Dated
    <2>3. \A p \in P : \A q \in P : \A r \in P : Supersedes(p, q) /\ Supersedes(q, r) => Supersedes(p, r)
      BY DEF Supersedes, Dated
    <2>4. CASE s \ {x} = {}
      <3>1. \A q \in s : ~Supersedes(q, x)
        BY <2>1, <2>2, <2>4, Zenon
      <3> QED
        BY <2>1, <3>1, Zenon
    <2>5. CASE s \ {x} # {}
      <3>1. HasNewest(s \ {x})
        BY <1>1, <2>1, <2>5, Zenon
      <3>2. PICK m \in s \ {x} : \A q \in s \ {x} : ~Supersedes(q, m)
        BY <3>1, Zenon
      <3> HIDE DEF HasNewest, T
      <3>3. CASE Supersedes(x, m)
        <4>1. \A q \in s : ~Supersedes(q, x)
          BY <2>1, <2>2, <2>3, <3>2, <3>3, Zenon
        <4> QED
          BY <2>1, <4>1, Zenon DEF HasNewest
      <3>4. CASE ~Supersedes(x, m)
        <4>1. \A q \in s : ~Supersedes(q, m)
          BY <3>2, <3>4, Zenon
        <4> QED
          BY <3>2, <4>1, Zenon DEF HasNewest
      <3> QED
        BY <3>3, <3>4, Zenon
    <2> QED
      BY <2>4, <2>5, Zenon
  <1> HIDE DEF T
  <1>2. SUBSET P \subseteq T
    BY <1>1, SetInduction, Zenon
  <1>3. P \in T
    BY <1>2, Zenon
  <1> QED
    BY <1>3, Zenon DEF T

LEMMA ResolveIn ==
    ASSUME NEW P, IsFiniteSet(P), Dated(P), NEW d, NEW at, Resolvable(P, d, at) # {}
    PROVE  Resolve(P, d, at) \in Resolvable(P, d, at)
  <1> DEFINE found == Resolvable(P, d, at)
  <1>1. found \subseteq P
    BY Zenon DEF Resolvable, ListByDeployment
  <1>2. IsFiniteSet(found) /\ Dated(found)
    BY <1>1, FS_Subset, Zenon DEF Dated
  <1> HIDE DEF found
  <1>3. found # {}
    BY Zenon DEF found
  <1>4. \E p \in found : \A q \in found : ~Supersedes(q, p)
    BY <1>2, <1>3, NewestOf, Zenon
  <1>5. Resolve(P, d, at) = CHOOSE p \in found : \A q \in found : ~Supersedes(q, p)
    BY Zenon DEF Resolve, found
  <1>6. Resolve(P, d, at) \in found
    BY <1>4, <1>5, Zenon
  <1> QED
    BY <1>6, Zenon DEF found

\* What a quote costs.
Priceable(p) ==
  /\ p.price \in Int /\ p.batch \in Int
  /\ DOMAIN p.bands \subseteq Nat /\ \A i \in DOMAIN p.bands : p.bands[i].price \in Int
  /\ \A tier \in DOMAIN p.tiers : p.tiers[tier] \in Int
  /\ \A effort \in DOMAIN p.efforts : p.efforts[effort] \in Int

LEMMA MinOf == ASSUME NEW T, T \subseteq Nat, T # {} PROVE Min(T) \in T
  BY LeastOf, Zenon DEF Min

LEMMA QuoteOf ==
    ASSUME NEW p, Priceable(p), NEW tokens \in Int, NEW req, req.input \in Int, req.output \in Int
    PROVE  QuotePricing(p, tokens, req) \in Int
  <1> DEFINE bands(context) == {i \in DOMAIN p.bands :
                  context >= p.bands[i].min /\ (p.bands[i].max = 0 \/ context <= p.bands[i].max)}
  <1>1. ASSUME NEW context PROVE BandPrice(p, context) \in Int
    <2>1. bands(context) \subseteq DOMAIN p.bands /\ bands(context) \subseteq Nat
      BY Zenon DEF Priceable
    <2>2. BandPrice(p, context) = IF bands(context) = {} THEN p.price ELSE p.bands[Min(bands(context))].price
      BY Zenon DEF BandPrice
    <2> HIDE DEF bands
    <2>3. CASE bands(context) = {}
      BY <2>2, <2>3, Zenon DEF Priceable
    <2>4. CASE bands(context) # {}
      <3>1. Min(bands(context)) \in DOMAIN p.bands
        BY <2>1, <2>4, MinOf, Zenon
      <3> QED
        BY <2>2, <2>4, <3>1, Zenon DEF Priceable
    <2> QED
      BY <2>3, <2>4, Zenon
  <1> HIDE DEF bands
  <1>2. \A n \in Int : SetFactor(n) \in Int
    BY DEF SetFactor
  <1>3. /\ SetFactor(p.batch) \in Int
        /\ req.tier \in DOMAIN p.tiers => SetFactor(p.tiers[req.tier]) \in Int
        /\ req.effort \in DOMAIN p.efforts => SetFactor(p.efforts[req.effort]) \in Int
    BY <1>2, Zenon DEF Priceable
  <1>4. QuoteFactor(p, req) \in Int
    <2> DEFINE a == IF req.tier = "batch" THEN SetFactor(p.batch) ELSE 1
               b == IF req.tier \in DOMAIN p.tiers THEN SetFactor(p.tiers[req.tier]) ELSE 1
               c == IF req.effort \in DOMAIN p.efforts THEN SetFactor(p.efforts[req.effort]) ELSE 1
    <2>1. a \in Int /\ b \in Int /\ c \in Int
      BY <1>3
    <2>2. QuoteFactor(p, req) = a * b * c
      BY Zenon DEF QuoteFactor
    <2> HIDE DEF a, b, c
    <2> QED
      BY <2>1, <2>2
  <1>5. BandPrice(p, req.input + req.output) \in Int
    BY <1>1, Zenon
  <1> QED
    BY <1>4, <1>5 DEF QuotePricing

\* Types.
Reasons ==
  {"lifecycle", "approval", "capability", "eligible", "degraded", "capacity", "quota", "residency",
   "effort", "tier", "budget", "unpriced", "unquotable", "admission"}

DeploymentCandidates ==
  [target : DeploymentIds, place : Int, cost : Int, reasons : SUBSET Reasons, score : Int]

PlanBodies == {<<>>} \cup PlanRequests \cup PlannedRequests

PlanRows ==
  [pc : {"idle", "list", "quote", "select", "done"}, at : Nat, req : PlanBodies,
   listed : [DeploymentIds -> DeploymentRows], left : Seq(DeploymentIds),
   candidates : SUBSET DeploymentCandidates]

RouteRows == [at : Nat, req : PlanBodies, chain : Seq(DeploymentIds)]

PricingTypes ==
  /\ clock \in Nat
  /\ policies \subseteq FirstPolicies \cup MorePolicies /\ IsFiniteSet(policies)
  /\ deployments \in [DeploymentIds -> DeploymentRows]
  /\ pl \in [Planners -> PlanRows]
  /\ routed \in [Planners -> RouteRows]

\* A planner's candidates: one per deployment it has quoted, and a policy was
\* found for every one it may select.
CandidateOK(c, at) ==
  /\ c.place = Place(c.target)
  /\ c.reasons = {} => Resolvable(policies, c.target, at) # {}

Before(n, c) == c.place <= Len(DeploymentOrder) - n

PlanOK(p) ==
  /\ pl[p].pc \in {"idle", "list"} => pl[p].candidates = {}
  /\ pl[p].pc \in {"list", "quote"} => pl[p].req \in PlannedRequests
  /\ pl[p].pc = "quote" =>
       /\ Len(pl[p].left) \in 1..Len(DeploymentOrder)
       /\ \A i \in 1..Len(pl[p].left) :
            pl[p].left[i] = DeploymentOrder[Len(DeploymentOrder) - Len(pl[p].left) + i]
       /\ \A c \in pl[p].candidates : Before(Len(pl[p].left), c)
  /\ IsFiniteSet(pl[p].candidates)
  /\ \A c \in pl[p].candidates : CandidateOK(c, pl[p].at)
  /\ \A c, k \in pl[p].candidates : c.target = k.target => c = k

\* Nothing is captured or billed of a plan that is not committed.
Committed ==
  /\ \A e \in captured : e.route \in Planners /\ pl[e.route].pc = "done"
  /\ \A b \in bills : b.route \in Planners /\ pl[b.route].pc = "done"
  /\ \A p \in Planners : pl[p].pc # "done" => p \notin Unevidenced /\ routed[p] = NoRoute

PricingInv == PricingTypes /\ Committed /\ PricedByRoute /\ \A p \in Planners : PlanOK(p)

LEMMA PlaceOf ==
    ASSUME NEW i \in DOMAIN DeploymentOrder
    PROVE  /\ DeploymentOrder[i] \in DeploymentIds /\ Place(DeploymentOrder[i]) = i
           /\ Place(DeploymentOrder[i]) \in Int
  <1>1. DeploymentOrder[i] \in DeploymentIds
    BY Zenon DEF DeploymentIds
  <1>2. \E j \in DOMAIN DeploymentOrder : DeploymentOrder[j] = DeploymentOrder[i]
    BY Zenon
  <1>3. Place(DeploymentOrder[i]) \in DOMAIN DeploymentOrder
        /\ DeploymentOrder[Place(DeploymentOrder[i])] = DeploymentOrder[i]
    BY <1>2, Zenon DEF Place
  <1>4. Place(DeploymentOrder[i]) = i
    BY <1>3, PricingConstants, Zenon
  <1>5. i \in Int
    BY PricingConstants
  <1> QED
    BY <1>1, <1>4, <1>5, Zenon

LEMMA PlacesAreNumbers == \A d \in DeploymentIds : Place(d) \in Int
  BY PlaceOf, Zenon DEF DeploymentIds

LEMMA PoliciesAreTyped ==
    ASSUME PricingTypes
    PROVE  Dated(policies) /\ \A q \in policies : Priceable(q)
  BY PricingConstants, Zenon DEF PricingTypes, Dated, Priceable

\* The candidate of a deployment, before and after its quote.
LEMMA PlannedCandidate ==
    ASSUME NEW d \in DeploymentIds, NEW row \in DeploymentRows, NEW req \in PlannedRequests
    PROVE  LET c == DeploymentCandidate(d, Place(d), CatalogModel, row, req)
           IN  c \in DeploymentCandidates /\ c.target = d /\ c.place = Place(d)
  <1> DEFINE prices == PricingOf(CatalogModel, row)
             cost == EstimateCost(prices, req)
             health == IF row.health = "healthy" THEN 20 ELSE 0
             capacity == IF row.capacity > 0 THEN 10 ELSE 0
             latency == IF row.latency > 0 THEN row.latency ELSE 0
             c == DeploymentCandidate(d, Place(d), CatalogModel, row, req)
  <1>1. /\ prices.input \in Int /\ prices.output \in Int /\ prices.factor \in Int
        /\ req.input \in Int /\ req.output \in Int /\ row.latency \in Int
    BY PricingConstants, Zenon DEF PricingOf
  <1>2. health \in Int /\ capacity \in Int /\ latency \in Int
    BY <1>1
  <1>3. cost \in Int
    <2> HIDE DEF prices
    <2> QED
      BY <1>1 DEF EstimateCost
  <1>4. c = [target |-> d, place |-> Place(d), cost |-> cost,
             reasons |-> DeploymentRejections(CatalogModel, row, req),
             score |-> 1000 * (50 - cost + health + capacity) - latency]
    BY Zenon DEF DeploymentCandidate
  <1> HIDE DEF prices, cost, health, capacity, latency, c
  <1>5. c.score \in Int
    BY <1>2, <1>3, <1>4
  <1>6. DeploymentRejections(CatalogModel, row, req) \in SUBSET Reasons
    BY ZenonT(30) DEF DeploymentRejections, Reasons
  <1>7. c \in DeploymentCandidates /\ c.target = d /\ c.place = Place(d)
    BY <1>2, <1>3, <1>4, <1>6, PlacesAreNumbers DEF DeploymentCandidates
  <1> QED
    BY <1>7, Zenon DEF c

LEMMA QuotedOf ==
    ASSUME PricingTypes, NEW c \in DeploymentCandidates, NEW region, NEW req \in PlannedRequests, NEW at
    PROVE  LET q == QuoteCandidate(policies, c, region, req, at)
           IN  /\ q \in DeploymentCandidates /\ q.target = c.target /\ q.place = c.place
               /\ q.reasons = {} => Resolvable(policies, c.target, at) # {}
  <1> DEFINE q == QuoteCandidate(policies, c, region, req, at)
             r == Resolve(policies, c.target, at)
             total == QuotePricing(r, req.input, req) + QuotePricing(r, req.output, req)
  <1>1. CASE Resolvable(policies, c.target, at) = {}
    <2>1. q = [c EXCEPT !.reasons = @ \cup {"unpriced"}]
      BY <1>1, Zenon DEF QuoteCandidate
    <2> HIDE DEF q
    <2>2. q \in DeploymentCandidates /\ q.target = c.target /\ q.place = c.place /\ q.reasons # {}
      BY <2>1, Zenon DEF DeploymentCandidates, Reasons
    <2> QED
      BY <2>2, Zenon DEF q
  <1>2. CASE Resolvable(policies, c.target, at) # {}
    <2>1. r \in policies
      BY <1>2, PoliciesAreTyped, ResolveIn, Zenon DEF PricingTypes, Resolvable, ListByDeployment
    <2>2. req.input \in Int /\ req.output \in Int /\ Priceable(r)
      BY <2>1, PricingConstants, PoliciesAreTyped, Zenon
    <2> HIDE DEF r
    <2>3. total \in Int
      BY <2>2, QuoteOf
    <2>4. q = IF ~Quotable(r, region, at)
              THEN [c EXCEPT !.reasons = @ \cup {"unquotable"}]
              ELSE [c EXCEPT !.score = @ + 1000 * (c.cost - total), !.cost = total,
                             !.reasons = @ \cup (IF WithinBudget(total, req) THEN {} ELSE {"budget"})]
      BY <1>2, Zenon DEF QuoteCandidate, r
    <2> HIDE DEF q, total
    <2>5. q \in DeploymentCandidates /\ q.target = c.target /\ q.place = c.place
      <3>1. CASE ~Quotable(r, region, at)
        BY <2>4, <3>1 DEF DeploymentCandidates, Reasons
      <3>2. CASE Quotable(r, region, at)
        <4> DEFINE score == c.score + 1000 * (c.cost - total)
                   reasons == c.reasons \cup (IF WithinBudget(total, req) THEN {} ELSE {"budget"})
        <4>1. score \in Int
          BY <2>3 DEF DeploymentCandidates
        <4>2. reasons \in SUBSET Reasons
          BY Zenon DEF DeploymentCandidates, Reasons
        <4>3. q = [c EXCEPT !.score = score, !.cost = total, !.reasons = reasons]
          BY <2>4, <3>2, Zenon
        <4> HIDE DEF score, reasons
        <4> QED
          BY <2>3, <4>1, <4>2, <4>3, Zenon DEF DeploymentCandidates
      <3> QED
        BY <3>1, <3>2, Zenon
    <2> QED
      BY <1>2, <2>5, Zenon DEF q
  <1> QED
    BY <1>1, <1>2, Zenon

LEMMA AdmittedOf ==
    ASSUME NEW c \in DeploymentCandidates, NEW mode
    PROVE  /\ Admitted(c, mode) \in DeploymentCandidates
           /\ Admitted(c, mode).target = c.target /\ Admitted(c, mode).place = c.place
           /\ Admitted(c, mode).reasons = {} => c.reasons = {}
  BY Zenon DEF Admitted, DeploymentCandidates, Reasons

\* There is a ranking, and it lists candidates without a reason against them.
LEMMA SelectedOf ==
    ASSUME NEW C \in SUBSET DeploymentCandidates, IsFiniteSet(C),
           \A c \in C : c.place = Place(c.target),
           \A c, k \in C : c.target = k.target => c = k
    PROVE  /\ SelectDeploymentCandidate(C) # {}
           /\ \A ranked \in SelectDeploymentCandidate(C) :
                /\ ranked \in Seq(C)
                /\ \A i \in DOMAIN ranked : ranked[i] \in C /\ ranked[i].reasons = {}
  <1> DEFINE E == {c \in C : c.reasons = {}}
  <1>1. IsFiniteSet(E)
    BY FS_Subset, Zenon
  <1>2. \A d, e \in DeploymentIds : Place(d) = Place(e) => d = e
    BY PlaceOf DEF DeploymentIds
  <1>3. \A c \in C : c.score \in Int /\ c.cost \in Int /\ c.place \in Int /\ c.target \in DeploymentIds
    BY Zenon DEF DeploymentCandidates
  <1>4. Rankable(E)
    BY <1>1, <1>2, <1>3, ZenonT(30) DEF Rankable
  <1>5. Cardinality(E) \in Nat
    BY <1>1, FS_CardinalityType, Zenon
  <1>6. SelectDeploymentCandidate(C) = Rankings(E)
    BY Zenon DEF SelectDeploymentCandidate
  <1>7. Rankings(E) # {}
    BY <1>4, RankedOf, Zenon
  <1>8. ASSUME NEW ranked \in Rankings(E)
        PROVE  ranked \in Seq(C) /\ \A i \in DOMAIN ranked : ranked[i] \in E
    <2>1. ranked \in [1..Cardinality(E) -> E]
      BY Zenon DEF Rankings
    <2>2. \A i \in DOMAIN ranked : ranked[i] \in E
      BY <2>1, Zenon
    <2>3. ranked \in [1..Cardinality(E) -> C]
      BY <2>1, Zenon
    <2>4. ranked \in Seq(C)
      BY <1>5, <2>3, ListIsSeq, Zenon
    <2> QED
      BY <2>2, <2>4, Zenon
  <1> QED
    BY <1>6, <1>7, <1>8, Zenon

LEMMA PlanStays ==
    ASSUME NEW p \in Planners, PlanOK(p), policies \subseteq policies', pl'[p] = pl[p]
    PROVE  PlanOK(p)'
  <1>1. \A d, at : Resolvable(policies, d, at) \subseteq Resolvable(policies', d, at)
    BY Zenon DEF Resolvable, ListByDeployment
  <1>2. \A c \in pl[p].candidates : CandidateOK(c, pl[p].at)'
    BY <1>1, Zenon DEF PlanOK, CandidateOK
  <1> QED
    BY <1>2, ZenonT(30) DEF PlanOK

LEMMA RoutesStay ==
    ASSUME PricedByRoute, UNCHANGED <<routed, captured, bills>>
    PROVE  PricedByRoute'
  BY DEF PricedByRoute, EvidenceOf, Deployments

\* A step of a planner that is not done, up to its decision.
LEMMA PlannerStep ==
    ASSUME PricingInv, NEW p \in Planners, NEW row \in PlanRows, pl[p].pc # "done",
           pl' = [pl EXCEPT ![p] = row], PlanOK(p)',
           UNCHANGED <<clock, policies, deployments, updates, routed, captured, bills>>
    PROVE  PricingInv'
  <1>1. pl' \in [Planners -> PlanRows] /\ pl'[p] = row /\ \A q \in Planners : q # p => pl'[q] = pl[q]
    BY Zenon DEF PricingInv, PricingTypes
  <1>2. PricingTypes'
    BY <1>1, Zenon DEF PricingInv, PricingTypes
  <1>3. Committed'
    BY <1>1, Zenon DEF PricingInv, Committed
  <1>4. \A q \in Planners : PlanOK(q)'
    BY <1>1, PlanStays, Zenon DEF PricingInv
  <1>5. PricedByRoute'
    BY RoutesStay, Zenon DEF PricingInv
  <1> QED
    BY <1>2, <1>3, <1>4, <1>5, Zenon DEF PricingInv

\* Steps of others: the clock, the policies, the deployments.
LEMMA OutsideStep ==
    ASSUME PricingInv, clock' \in Nat, policies \subseteq policies',
           policies' \subseteq FirstPolicies \cup MorePolicies, IsFiniteSet(policies'),
           deployments' \in [DeploymentIds -> DeploymentRows],
           UNCHANGED <<pl, routed, captured, bills>>
    PROVE  PricingInv'
  <1>1. PricingTypes' /\ Committed'
    BY Zenon DEF PricingInv, PricingTypes, Committed
  <1>2. \A q \in Planners : PlanOK(q)'
    BY PlanStays, Zenon DEF PricingInv
  <1>3. PricedByRoute'
    BY RoutesStay, Zenon DEF PricingInv
  <1> QED
    BY <1>1, <1>2, <1>3, Zenon DEF PricingInv

LEMMA WorldStep ==
    ASSUME PricingInv,
           ClockTick \/ CreatePolicy \/ \E d \in DeploymentIds : UpdateDeployment(d) \/ UpsertDeployment(d)
    PROVE  PricingInv'
  <1>1. PricingTypes
    BY Zenon DEF PricingInv
  <1>2. CASE ClockTick
    BY <1>1, <1>2, OutsideStep DEF ClockTick, PricingTypes
  <1>3. CASE CreatePolicy
    <2>1. PICK q \in MorePolicies : policies' = policies \cup {q}
      BY <1>3, Zenon DEF CreatePolicy
    <2>2. IsFiniteSet(policies')
      BY <1>1, <2>1, FS_AddElement, Zenon DEF PricingTypes
    <2> QED
      BY <1>1, <1>3, <2>1, <2>2, OutsideStep, Zenon DEF CreatePolicy, PricingTypes
  <1>4. ASSUME NEW d \in DeploymentIds, UpdateDeployment(d) \/ UpsertDeployment(d) PROVE PricingInv'
    <2>1. PICK row \in DeploymentRows : deployments' = [deployments EXCEPT ![d] = row]
      BY <1>4, PricingConstants, Zenon DEF UpdateDeployment, UpsertDeployment, DeploymentRows
    <2>2. deployments' \in [DeploymentIds -> DeploymentRows]
      BY <1>1, <2>1, Zenon DEF PricingTypes
    <2>3. UNCHANGED <<clock, policies, pl, routed, captured, bills>>
      BY <1>4, Zenon DEF UpdateDeployment, UpsertDeployment
    <2> QED
      BY <1>1, <2>2, <2>3, OutsideStep, SMTT(30) DEF PricingTypes
  <1> QED
    BY <1>2, <1>3, <1>4, Zenon

LEMMA PlanRouteStep == ASSUME PricingInv, NEW p \in Planners, PlanRoute(p) PROVE PricingInv'
  <1>1. PICK req \in PlanRequests :
          pl' = [pl EXCEPT ![p] = [pl[p] EXCEPT !.pc = "list", !.at = clock, !.req = DefaultClass(req)]]
    BY Zenon DEF PlanRoute
  <1> DEFINE row == [pl[p] EXCEPT !.pc = "list", !.at = clock, !.req = DefaultClass(req)]
  <1>2. pl[p].pc = "idle" /\ UNCHANGED <<clock, policies, deployments, updates, routed, captured, bills>>
    BY Zenon DEF PlanRoute
  <1>3. DefaultClass(req) \in PlannedRequests /\ DefaultClass(req) \in PlanBodies
    BY <1>1, Zenon DEF PlannedRequests, PlanBodies
  <1>4. pl[p] \in PlanRows /\ clock \in Nat /\ pl'[p] = row
    BY <1>1, Zenon DEF PricingInv, PricingTypes
  <1>5. row \in PlanRows /\ row.pc = "list" /\ row.req \in PlannedRequests /\ row.candidates = pl[p].candidates
    BY <1>3, <1>4, Zenon DEF PlanRows
  <1>6. pl[p].candidates = {}
    BY <1>2, Zenon DEF PricingInv, PlanOK
  <1> HIDE DEF row
  <1>7. PlanOK(p)'
    BY <1>4, <1>5, <1>6, FS_EmptySet, Zenon DEF PlanOK
  <1> QED
    BY <1>1, <1>2, <1>5, <1>7, PlannerStep, Zenon DEF row

LEMMA ListStep == ASSUME PricingInv, NEW p \in Planners, ListByModelVersion(p) PROVE PricingInv'
  <1> DEFINE row == [pl[p] EXCEPT !.pc = "quote", !.listed = deployments, !.left = DeploymentOrder]
  <1>1. pl' = [pl EXCEPT ![p] = row]
    BY Zenon DEF ListByModelVersion
  <1>2. pl[p].pc = "list" /\ UNCHANGED <<clock, policies, deployments, updates, routed, captured, bills>>
    BY Zenon DEF ListByModelVersion
  <1>3. pl[p] \in PlanRows /\ deployments \in [DeploymentIds -> DeploymentRows] /\ pl'[p] = row
    BY <1>1, Zenon DEF PricingInv, PricingTypes
  <1>4. DeploymentOrder \in Seq(DeploymentIds) /\ Len(DeploymentOrder) \in 1..Len(DeploymentOrder)
    BY PricingConstants
  <1>5. /\ row \in PlanRows /\ row.pc = "quote" /\ row.req = pl[p].req
        /\ row.left = DeploymentOrder /\ row.candidates = pl[p].candidates
    BY <1>3, <1>4, ZenonT(30) DEF PlanRows
  <1>6. pl[p].candidates = {} /\ pl[p].req \in PlannedRequests
    BY <1>2, Zenon DEF PricingInv, PlanOK
  <1> HIDE DEF row
  <1>7. PlanOK(p)'
    <2>1. /\ Len(row.left) \in 1..Len(DeploymentOrder)
          /\ \A i \in 1..Len(row.left) :
               row.left[i] = DeploymentOrder[Len(DeploymentOrder) - Len(row.left) + i]
      BY <1>4, <1>5
    <2>2. row.candidates = {} /\ IsFiniteSet(row.candidates)
      BY <1>5, <1>6, FS_EmptySet, Zenon
    <2> QED
      BY <1>3, <1>5, <1>6, <2>1, <2>2, Zenon DEF PlanOK
  <1> QED
    BY <1>1, <1>2, <1>5, <1>7, PlannerStep, Zenon

LEMMA QuoteStep == ASSUME PricingInv, NEW p \in Planners, Quote(p) PROVE PricingInv'
  <1> DEFINE left == pl[p].left
             n == Len(left)
             d == Head(left)
             first == DeploymentCandidate(d, Place(d), CatalogModel, pl[p].listed[d], pl[p].req)
             quoted == QuoteCandidate(policies, first, pl[p].listed[d].region, pl[p].req, pl[p].at)
             c == Admitted(quoted, pl[p].listed[d].mode)
             row == [pl[p] EXCEPT !.candidates = @ \cup {c}, !.left = Tail(@),
                                  !.pc = IF n = 1 THEN "select" ELSE "quote"]
  <1>1. /\ pl[p].pc = "quote" /\ pl' = [pl EXCEPT ![p] = row]
        /\ UNCHANGED <<clock, policies, deployments, updates, routed, captured, bills>>
    BY Zenon DEF Quote
  <1> HIDE DEF left, n, d, first, quoted, c, row
  <1>2. pl[p] \in PlanRows /\ PricingTypes /\ PlanOK(p) /\ pl'[p] = row
    BY <1>1, SMTT(30) DEF PricingInv, PricingTypes
  <1>3. /\ left \in Seq(DeploymentIds) /\ n \in 1..Len(DeploymentOrder)
        /\ pl[p].listed \in [DeploymentIds -> DeploymentRows] /\ pl[p].req \in PlannedRequests
        /\ \A i \in 1..n : left[i] = DeploymentOrder[Len(DeploymentOrder) - n + i]
        /\ n = Len(left) /\ left = pl[p].left
    BY <1>1, <1>2, ZenonT(30) DEF PlanOK, PlanRows, left, n
  <1>4. /\ DeploymentOrder \in Seq(DeploymentIds) /\ Len(DeploymentOrder) \in Nat
        /\ DOMAIN DeploymentOrder = 1..Len(DeploymentOrder)
    BY PricingConstants
  <1>a. n \in Int /\ n >= 1 /\ n <= Len(DeploymentOrder) /\ Len(DeploymentOrder) \in Int
    BY <1>3, <1>4
  <1>5. d = DeploymentOrder[Len(DeploymentOrder) - n + 1] /\ d \in DeploymentIds
    <2>1. d = left[1] /\ left[1] \in DeploymentIds
      BY <1>3 DEF d
    <2>2. 1 \in 1..n
      BY <1>a
    <2> QED
      BY <1>3, <2>1, <2>2, ZenonT(30)
  <1>6. Place(d) = Len(DeploymentOrder) - n + 1
    <2>1. Len(DeploymentOrder) - n + 1 \in DOMAIN DeploymentOrder
      BY <1>4, <1>a
    <2> QED
      BY <1>5, <2>1, PlaceOf, Zenon
  <1>7. first \in DeploymentCandidates /\ first.target = d /\ first.place = Place(d)
    BY <1>3, <1>5, PlannedCandidate, SMTT(30) DEF first
  <1>8. /\ quoted \in DeploymentCandidates /\ quoted.target = d /\ quoted.place = Place(d)
        /\ quoted.reasons = {} => Resolvable(policies, d, pl[p].at) # {}
    <2>1. PricingTypes /\ first \in DeploymentCandidates /\ pl[p].req \in PlannedRequests
      BY <1>2, <1>3, <1>7, Zenon
    <2>2. /\ quoted \in DeploymentCandidates /\ quoted.target = first.target /\ quoted.place = first.place
          /\ quoted.reasons = {} => Resolvable(policies, first.target, pl[p].at) # {}
      BY <2>1, QuotedOf, Zenon DEF quoted
    <2> QED
      BY <1>7, <2>2, Zenon
  <1>9. /\ c \in DeploymentCandidates /\ c.target = d /\ c.place = Place(d)
        /\ c.reasons = {} => Resolvable(policies, d, pl[p].at) # {}
    BY <1>8, AdmittedOf, Zenon DEF c
  <1>10. /\ Tail(left) \in Seq(DeploymentIds) /\ Len(Tail(left)) = n - 1
         /\ \A i \in 1..(n - 1) : Tail(left)[i] = left[i + 1]
    BY <1>3
  <1>11. /\ row \in PlanRows /\ row.at = pl[p].at /\ row.req = pl[p].req
         /\ row.pc = (IF n = 1 THEN "select" ELSE "quote")
         /\ row.left = Tail(left) /\ row.candidates = pl[p].candidates \cup {c}
    BY <1>2, <1>3, <1>9, <1>10, ZenonT(30) DEF PlanRows, row
  <1>12. \A k \in pl[p].candidates :
           /\ k.place \in Int /\ k.place = Place(k.target) /\ k.place <= Len(DeploymentOrder) - n
    BY <1>1, <1>2, <1>3, Zenon DEF PlanOK, PlanRows, DeploymentCandidates, CandidateOK, Before
  <1>13. \A k \in pl[p].candidates : k.target # c.target
    BY <1>a, <1>6, <1>9, <1>12, SMTT(40)
  <1>14. PlanOK(p)'
    <2>1. IsFiniteSet(row.candidates)
      <3>1. IsFiniteSet(pl[p].candidates)
        BY <1>2, Zenon DEF PlanOK
      <3> QED
        BY <1>11, <3>1, FS_AddElement, Zenon
    <2>2. \A k \in row.candidates : CandidateOK(k, pl[p].at)'
      <3>1. policies' = policies
        BY <1>1, Zenon
      <3> QED
        BY <1>2, <1>9, <1>11, <3>1, Zenon DEF PlanOK, CandidateOK
    <2>3. \A k, l \in row.candidates : k.target = l.target => k = l
      BY <1>2, <1>11, <1>13, ZenonT(30) DEF PlanOK
    <2>4. ASSUME row.pc = "quote"
          PROVE  /\ Len(row.left) \in 1..Len(DeploymentOrder)
                 /\ \A i \in 1..Len(row.left) :
                      row.left[i] = DeploymentOrder[Len(DeploymentOrder) - Len(row.left) + i]
                 /\ \A k \in row.candidates : Before(Len(row.left), k)
      <3>1. n # 1 /\ Len(row.left) = n - 1 /\ n - 1 \in 1..Len(DeploymentOrder)
        BY <1>a, <1>10, <1>11, <2>4
      <3>2. ASSUME NEW i \in 1..(n - 1)
            PROVE  row.left[i] = DeploymentOrder[Len(DeploymentOrder) - (n - 1) + i]
        <4>1. row.left[i] = left[i + 1] /\ i + 1 \in 1..n
          BY <1>3, <1>10, <1>11
        <4>2. left[i + 1] = DeploymentOrder[Len(DeploymentOrder) - n + (i + 1)]
          BY <1>3, <4>1, Zenon
        <4>3. Len(DeploymentOrder) - n + (i + 1) = Len(DeploymentOrder) - (n - 1) + i
          BY <1>3, <1>4
        <4> QED
          BY <4>1, <4>2, <4>3, Zenon
      <3>3. \A k \in row.candidates : Before(n - 1, k)
        BY <1>a, <1>6, <1>9, <1>11, <1>12 DEF Before
      <3> QED
        BY <3>1, <3>2, <3>3, Zenon
    <2>5. row.pc \in {"select", "quote"}
      BY <1>11, Zenon
    <2> QED
      BY <1>2, <1>3, <1>11, <2>1, <2>2, <2>3, <2>4, <2>5, ZenonT(30) DEF PlanOK
  <1> QED
    BY <1>1, <1>11, <1>14, PlannerStep, ZenonT(30)

LEMMA RefusedStep == ASSUME PricingInv, NEW p \in Planners, Refused(p) PROVE PricingInv'
  <1> DEFINE row == [pl[p] EXCEPT !.pc = "done"]
  <1>1. /\ pl[p].pc = "select" /\ pl' = [pl EXCEPT ![p] = row]
        /\ UNCHANGED <<clock, policies, deployments, updates, routed, captured, bills>>
    BY Zenon DEF Refused
  <1>2. pl[p] \in PlanRows /\ PlanOK(p) /\ pl'[p] = row
    BY <1>1, Zenon DEF PricingInv, PricingTypes
  <1>3. row \in PlanRows /\ row.pc = "done" /\ row.candidates = pl[p].candidates /\ row.at = pl[p].at
    BY <1>2, Zenon DEF PlanRows
  <1> HIDE DEF row
  <1>4. PlanOK(p)'
    BY <1>1, <1>2, <1>3, Zenon DEF PlanOK, CandidateOK
  <1> QED
    BY <1>1, <1>3, <1>4, PlannerStep, Zenon

LEMMA CommitStep == ASSUME PricingInv, NEW p \in Planners, CommitDecision(p) PROVE PricingInv'
  <1>0. PICK ranked \in SelectDeploymentCandidate(pl[p].candidates) :
          routed' = [routed EXCEPT ![p] = [at |-> pl[p].at, req |-> pl[p].req,
                                           chain |-> [i \in DOMAIN ranked |-> ranked[i].target]]]
    BY Zenon DEF CommitDecision
  <1> DEFINE C == pl[p].candidates
             at == pl[p].at
             route == [at |-> at, req |-> pl[p].req, chain |-> [i \in DOMAIN ranked |-> ranked[i].target]]
             row == [pl[p] EXCEPT !.pc = "done"]
             Evidence(c) == [route |-> p, deployment |-> c.target,
                             policy |-> Resolve(policies, c.target, at), total |-> c.cost]
             Priced == {c \in C : Resolvable(policies, c.target, at) # {}}
  <1>1. /\ pl[p].pc = "select" /\ routed' = [routed EXCEPT ![p] = route]
        /\ captured' = captured \cup CaptureRoutePricingEvidence(p)
        /\ pl' = [pl EXCEPT ![p] = row]
        /\ UNCHANGED <<clock, policies, deployments, updates, bills>>
    BY <1>0, Zenon DEF CommitDecision
  <1>2. CaptureRoutePricingEvidence(p) = {Evidence(c) : c \in Priced}
    BY Zenon DEF CaptureRoutePricingEvidence
  <1>3. /\ PricingTypes /\ Committed /\ PricedByRoute /\ PlanOK(p) /\ pl[p] \in PlanRows
        /\ \A q \in Planners : PlanOK(q)
    BY Zenon DEF PricingInv, PricingTypes
  <1> HIDE DEF C, at, route, row, Priced
  <1>4. /\ ranked \in Seq(C) /\ C \subseteq DeploymentCandidates
        /\ \A i \in DOMAIN ranked : ranked[i] \in C /\ ranked[i].reasons = {}
    <2>1. C \in SUBSET DeploymentCandidates
      BY <1>3, SMTT(30) DEF PlanRows, C
    <2>2. /\ IsFiniteSet(C) /\ \A c \in C : c.place = Place(c.target)
          /\ \A c, k \in C : c.target = k.target => c = k
      BY <1>3, ZenonT(30) DEF PlanOK, C, CandidateOK
    <2> QED
      BY <1>0, <2>1, <2>2, SelectedOf, Zenon DEF C
  <1>5. \A c, k \in C : c.target = k.target => c = k
    BY <1>3, ZenonT(30) DEF PlanOK, C
  <1>6. ASSUME NEW i \in DOMAIN ranked
        PROVE  /\ ranked[i] \in Priced /\ ranked[i].target \in DeploymentIds
    BY <1>3, <1>4, Zenon DEF PlanOK, C, CandidateOK, at, Priced, DeploymentCandidates
  <1>7. \A c \in Priced : Effective(Resolve(policies, c.target, at), at)
    <2>1. \A c \in Priced : Resolve(policies, c.target, at) \in Resolvable(policies, c.target, at)
      BY <1>3, PoliciesAreTyped, ResolveIn, Zenon DEF PricingTypes, Priced
    <2> QED
      BY <2>1, Zenon DEF Resolvable
  <1>8. route \in RouteRows /\ route.at = at /\ Deployments(route) = {ranked[i].target : i \in DOMAIN ranked}
    <2> DEFINE chain == [i \in DOMAIN ranked |-> ranked[i].target]
    <2>1. chain \in Seq(DeploymentIds)
      <3>1. DOMAIN ranked = 1..Len(ranked) /\ Len(ranked) \in Nat
        BY <1>4
      <3> QED
        BY <1>6, <3>1
    <2>2. DOMAIN chain = DOMAIN ranked /\ \A i \in DOMAIN ranked : chain[i] = ranked[i].target
      BY Zenon
    <2> HIDE DEF chain
    <2>3. route = [at |-> at, req |-> pl[p].req, chain |-> chain]
      BY Zenon DEF route, chain
    <2>4. Deployments(route) = {chain[i] : i \in DOMAIN chain}
      BY <2>3, Zenon DEF Deployments
    <2>5. at \in Nat /\ pl[p].req \in PlanBodies
      BY <1>3, Zenon DEF PlanRows, at
    <2>6. route \in RouteRows /\ route.at = at
      BY <2>1, <2>3, <2>5, Zenon DEF RouteRows
    <2> QED
      BY <2>2, <2>4, <2>6, Zenon
  <1>9. row \in PlanRows /\ row.pc = "done" /\ row.at = pl[p].at /\ row.candidates = pl[p].candidates
    BY <1>3, SMTT(30) DEF PlanRows, row
  <1>10. /\ pl' \in [Planners -> PlanRows] /\ pl'[p] = row /\ \A q \in Planners : q # p => pl'[q] = pl[q]
         /\ routed' \in [Planners -> RouteRows] /\ routed'[p] = route
         /\ \A q \in Planners : q # p => routed'[q] = routed[q]
    BY <1>1, <1>3, <1>8, <1>9, Zenon DEF PricingTypes
  <1>11. PricingTypes'
    BY <1>1, <1>3, <1>10, Zenon DEF PricingTypes
  <1>12. \A q \in Planners : PlanOK(q)'
    <2>1. PlanOK(p)'
      BY <1>1, <1>3, <1>9, <1>10, ZenonT(30) DEF PlanOK, CandidateOK
    <2> QED
      BY SMTT(30), <1>1, <1>3, <1>10, <2>1, PlanStays
  <1>13. \A e \in captured' : e \in captured \/ \E c \in Priced : e = Evidence(c)
    BY <1>1, <1>2, ZenonT(30)
  <1>14. Committed'
    <2>1. \A c : Evidence(c).route = p
      BY Zenon
    <2> HIDE DEF Evidence
    <2>2. \A e \in captured' : e \in captured \/ e.route = p
      BY <1>13, <2>1, Zenon
    <2>3. ASSUME NEW q \in Planners, pl[q].pc = "done" PROVE pl'[q].pc = "done"
      BY <1>9, <1>10, <2>3, Zenon
    <2>4. pl'[p].pc = "done"
      BY <1>9, <1>10, Zenon
    <2>5. \A e \in captured' : e.route \in Planners /\ pl'[e.route].pc = "done"
      BY <1>3, <2>2, <2>3, <2>4, Zenon DEF Committed
    <2>6. \A b \in bills' : b.route \in Planners /\ pl'[b.route].pc = "done"
      BY <1>1, <1>3, <2>3, Zenon DEF Committed
    <2>7. ASSUME NEW q \in Planners, pl'[q].pc # "done" PROVE q \notin Unevidenced' /\ routed'[q] = NoRoute
      <3>1. q # p /\ pl[q].pc # "done"
        BY <2>3, <2>4, <2>7, Zenon
      <3> QED
        BY <1>3, <1>10, <3>1, Zenon DEF Committed
    <2> QED
      BY <2>5, <2>6, <2>7, Zenon DEF Committed
  <1>15. ASSUME NEW q \in Planners, q # p, NEW d PROVE EvidenceOf(q, d)' = EvidenceOf(q, d)
    BY <1>1, <1>13, <1>15 DEF EvidenceOf
  <1>16. ASSUME NEW c \in Priced
         PROVE  Evidence(c) \in captured' /\ EvidenceOf(p, c.target)' = {Evidence(c)}
    <2>1. Evidence(c) \in captured'
      BY <1>1, <1>2, Zenon
    <2>2. \A e \in captured : e.route # p
      BY <1>1, <1>3, Zenon DEF Committed
    <2>3. \A k \in Priced : k.target = c.target => k = c
      BY <1>5, Zenon DEF Priced
    <2>4. ASSUME NEW e \in EvidenceOf(p, c.target)' PROVE e = Evidence(c)
      <3>1. e \in captured' /\ e.route = p /\ e.deployment = c.target
        BY <2>4, Zenon DEF EvidenceOf
      <3>2. PICK k \in Priced : e = Evidence(k)
        BY <1>13, <2>2, <3>1, Zenon
      <3> QED
        BY <2>3, <3>1, <3>2
    <2>5. Evidence(c) \in EvidenceOf(p, c.target)'
      BY <2>1, Zenon DEF EvidenceOf
    <2> QED
      BY <2>1, <2>4, <2>5, Zenon
  <1>17. PricedByRoute'
    <2>1. ASSUME NEW q \in Planners \ Unevidenced, NEW d \in Deployments(routed'[q])
          PROVE  \E e \in captured' : EvidenceOf(q, d)' = {e} /\ Effective(e.policy, routed'[q].at)
      <3>1. CASE q = p
        <4>1. PICK i \in DOMAIN ranked : d = ranked[i].target
          BY <1>8, <1>10, <2>1, <3>1
        <4>2. ranked[i] \in Priced
          BY <1>6, <4>1, Zenon
        <4>3. Evidence(ranked[i]) \in captured' /\ EvidenceOf(p, d)' = {Evidence(ranked[i])}
          BY <1>16, <4>1, <4>2, Zenon
        <4>4. Effective(Evidence(ranked[i]).policy, at)
          BY <1>7, <4>2, Zenon
        <4>5. routed'[q].at = at
          BY <1>8, <1>10, <3>1, Zenon
        <4> HIDE DEF Evidence
        <4> QED
          BY <3>1, <4>3, <4>4, <4>5, Zenon
      <3>2. CASE q # p
        <4>1. d \in Deployments(routed[q]) /\ routed'[q] = routed[q]
          BY <1>10, <2>1, <3>2, Zenon
        <4>2. PICK e \in captured : EvidenceOf(q, d) = {e} /\ Effective(e.policy, routed[q].at)
          BY <1>3, <4>1, ZenonT(30) DEF PricedByRoute
        <4> QED
          BY <1>1, <1>15, <3>2, <4>1, <4>2, Zenon
      <3> QED
        BY <3>1, <3>2, Zenon
    <2>2. ASSUME NEW b \in bills', b.route \notin Unevidenced, NEW e \in EvidenceOf(b.route, b.deployment)'
          PROVE  b.policy = e.policy /\ b.amount = Reconciled(e.policy, b.component, routed'[b.route].req)
      <3>1. b \in bills /\ b.route \in Planners /\ b.route # p
        BY <1>1, <1>3, Zenon DEF Committed
      <3>2. e \in EvidenceOf(b.route, b.deployment) /\ routed'[b.route] = routed[b.route]
        BY <1>10, <1>15, <2>2, <3>1, Zenon
      <3> QED
        BY <1>3, <2>2, <3>1, <3>2, Zenon DEF PricedByRoute
    <2> QED
      BY <2>1, <2>2, Zenon DEF PricedByRoute
  <1> QED
    BY <1>11, <1>12, <1>14, <1>17, Zenon DEF PricingInv

LEMMA AppendCostStep ==
    ASSUME PricingInv, NEW p \in Planners, NEW d \in DeploymentIds, NEW component, AppendCostEvent(p, d, component)
    PROVE  PricingInv'
  <1>1. /\ d \in Deployments(routed[p])
        /\ UNCHANGED <<clock, policies, deployments, updates, pl, routed, captured>>
    BY Zenon DEF AppendCostEvent
  <1>2. PricingTypes /\ Committed /\ PricedByRoute /\ \A q \in Planners : PlanOK(q)
    BY Zenon DEF PricingInv
  <1>3. PICK b : /\ bills' = bills \cup {b} /\ b.route = p /\ b.deployment = d /\ b.component = component
                 /\ PolicyOf(p, d) # {} =>
                      /\ b.policy \in PolicyOf(p, d)
                      /\ b.amount = Reconciled(b.policy, component, routed[p].req)
    <2>1. CASE PolicyOf(p, d) = {}
      <3> DEFINE b == [route |-> p, deployment |-> d, component |-> component, policy |-> <<>>, amount |-> 0]
      <3>1. bills' = bills \cup {b}
        BY <2>1, Zenon DEF AppendCostEvent
      <3>2. b.route = p /\ b.deployment = d /\ b.component = component
        BY SMTT(30)
      <3> HIDE DEF b
      <3> QED
        BY SMTT(30), <2>1, <3>1, <3>2
    <2>2. CASE PolicyOf(p, d) # {}
      <3>1. PICK policy \in PolicyOf(p, d) :
              bills' = bills \cup {[route |-> p, deployment |-> d, component |-> component,
                                    policy |-> policy,
                                    amount |-> Reconciled(policy, component, routed[p].req)]}
        BY <2>2, Zenon DEF AppendCostEvent
      <3> DEFINE b == [route |-> p, deployment |-> d, component |-> component, policy |-> policy,
                       amount |-> Reconciled(policy, component, routed[p].req)]
      <3>2. /\ b.route = p /\ b.deployment = d /\ b.component = component /\ b.policy = policy
            /\ b.amount = Reconciled(policy, component, routed[p].req)
        BY Zenon
      <3>3. bills' = bills \cup {b}
        BY SMTT(30), <3>1
      <3> HIDE DEF b
      <3> QED
        BY <3>1, <3>2, <3>3, Zenon
    <2> QED
      BY <2>1, <2>2, Zenon
  <1>4. pl[p].pc = "done"
    <2>1. Deployments(NoRoute) = {}
      BY DEF Deployments, NoRoute
    <2> QED
      BY <1>1, <1>2, <2>1, Zenon DEF Committed
  <1>5. Committed'
    BY <1>1, <1>2, <1>3, <1>4, Zenon DEF Committed
  <1>6. PricingTypes' /\ \A q \in Planners : PlanOK(q)'
    BY <1>1, <1>2, PlanStays, Zenon DEF PricingTypes
  <1>7. \A q, k : EvidenceOf(q, k)' = EvidenceOf(q, k)
    BY <1>1, SMTT(30) DEF EvidenceOf
  <1>8. PricedByRoute'
    <2>1. ASSUME p \notin Unevidenced, NEW e \in EvidenceOf(p, d)
          PROVE  b.policy = e.policy /\ b.amount = Reconciled(e.policy, component, routed[p].req)
      <3>1. PICK f \in captured : EvidenceOf(p, d) = {f}
        BY <1>1, <1>2, <2>1, ZenonT(30) DEF PricedByRoute
      <3>2. PolicyOf(p, d) = {e.policy}
        BY <2>1, <3>1, Zenon DEF PolicyOf
      <3> QED
        BY SMTT(30), <1>3, <3>2
    <2>2. ASSUME NEW x \in bills', x.route \notin Unevidenced, NEW e \in EvidenceOf(x.route, x.deployment)
          PROVE  x.policy = e.policy /\ x.amount = Reconciled(e.policy, x.component, routed[x.route].req)
      <3>1. CASE x \in bills
        BY <1>2, <2>2, <3>1, ZenonT(30) DEF PricedByRoute
      <3>2. CASE x = b
        BY <1>3, <2>1, <2>2, <3>2, Zenon
      <3> QED
        BY SMTT(30), <1>3, <3>1, <3>2
    <2> QED
      BY <1>1, <1>2, <1>7, <2>2, Zenon DEF PricedByRoute
  <1> QED
    BY <1>5, <1>6, <1>8, Zenon DEF PricingInv

LEMMA PricingStarts == ASSUME PricingInit PROVE PricingInv
  <1>1. PICK req \in PlanRequests :
          routed = [p \in Planners |->
                      IF p \in Unevidenced
                      THEN [at |-> 1, req |-> req, chain |-> DeploymentOrder] ELSE NoRoute]
    BY SMTT(30) DEF PricingInit
  <1>2. /\ pl = [p \in Planners |->
                   [pc |-> IF p \in Unevidenced THEN "done" ELSE "idle", at |-> 0, req |-> <<>>,
                    listed |-> ConfiguredRow, left |-> <<>>, candidates |-> {}]]
        /\ clock = 1 /\ policies = FirstPolicies /\ deployments = ConfiguredRow
        /\ captured = {} /\ bills = {}
    BY Zenon DEF PricingInit
  <1>3. ConfiguredRow \in [DeploymentIds -> DeploymentRows] /\ DeploymentOrder \in Seq(DeploymentIds)
    BY SMTT(30), PricingConstants
  <1>4. PricingTypes
    <2>1. pl \in [Planners -> PlanRows]
      BY <1>2, <1>3, SMTT(40) DEF PlanRows, PlanBodies
    <2>2. routed \in [Planners -> RouteRows]
      BY <1>1, <1>3 DEF RouteRows, PlanBodies, NoRoute
    <2>3. clock \in Nat /\ policies \subseteq FirstPolicies \cup MorePolicies /\ IsFiniteSet(policies)
      BY <1>2, PricingConstants, Zenon
    <2> QED
      BY <1>2, <1>3, <2>1, <2>2, <2>3, ZenonT(30) DEF PricingTypes
  <1>5. \A p \in Planners : /\ pl[p].pc = (IF p \in Unevidenced THEN "done" ELSE "idle")
                            /\ pl[p].candidates = {}
    BY SMTT(30), <1>2
  <1>6. \A p \in Planners : PlanOK(p)
    BY <1>5, FS_EmptySet, ZenonT(30) DEF PlanOK
  <1>7. Committed
    BY <1>1, <1>2, <1>5, Zenon DEF Committed
  <1>8. PricedByRoute
    <2>1. \A p \in Planners \ Unevidenced : Deployments(routed[p]) = {}
      BY <1>1 DEF Deployments, NoRoute
    <2> QED
      BY <1>2, <2>1, Zenon DEF PricedByRoute
  <1> QED
    BY <1>4, <1>6, <1>7, <1>8, Zenon DEF PricingInv

\* Whatever policies are added, with any effective date and between any two steps
\* of a plan, every deployment of a decision has one captured policy, and every cost
\* event of the decision is priced by it.
THEOREM RoutesArePriced == PricingInit /\ [][PricingNext]_pricingVars => []PricedByRoute
  <1>1. PricingInv /\ [PricingNext]_pricingVars => PricingInv'
    <2> SUFFICES ASSUME PricingInv, [PricingNext]_pricingVars PROVE PricingInv'
      BY Zenon
    <2>1. CASE UNCHANGED pricingVars
      BY <2>1, OutsideStep, Zenon DEF pricingVars, PricingInv, PricingTypes
    <2>2. ASSUME NEW p \in Planners,
                 PlanRoute(p) \/ ListByModelVersion(p) \/ Quote(p) \/ Refused(p) \/ CommitDecision(p)
          PROVE  PricingInv'
      BY <2>2, PlanRouteStep, ListStep, QuoteStep, RefusedStep, CommitStep, Zenon
    <2> QED
      BY <2>1, <2>2, WorldStep, AppendCostStep, Zenon DEF PricingNext
  <1>2. PricingInv => PricedByRoute
    BY Zenon DEF PricingInv
  <1> QED
    BY <1>1, <1>2, PricingStarts, PTL
=============================================================================
