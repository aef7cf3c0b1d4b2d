--------------------------- MODULE ServicesProofs ---------------------------
(***************************************************************************)
(* Proofs about three services that share no state.                        *)
(*                                                                         *)
(* Outbox, for any messages, any dispatchers, batch limits, delivery       *)
(* limits and numbers of faults.  The row carries no fence: MarkDelivered  *)
(* and FailDelivery compare only the owner.  It is enough, because a       *)
(* dispatcher leases only when it has nothing left in hand: whatever it    *)
(* still holds of a row that it owns is the row's newest lease (ItemInv).  *)
(*                                                                         *)
(* Access, for any issuer, any number of requests, any lifetime of the     *)
(* cached keys and any fetch that is not slower than it: every set of keys *)
(* that is cached, fetched or relied upon is dated, and its members were   *)
(* published at that instant or later (Since).  A date only lies in the    *)
(* past, so a withdrawal, which is dated now, keeps it.                    *)
(*                                                                         *)
(* ToolGateway: what a call has passed is recorded in its own row and in   *)
(* the audit log, whatever the approvals have become meanwhile (CallOK).   *)
(***************************************************************************)
EXTENDS ToolGateway, Outbox, Access, TLAPS

\* The outbox.

Row == [status : {"none", "pending", "delivering", "delivered", "dead_letter"},
        owner : Dispatchers \cup {NoOwner}, attempts : Nat, due : BOOLEAN]

Item == [message : Messages, attempts : Nat]

OutboxTypeOK ==
    /\ row \in [Messages -> Row]
    /\ batch \in [Dispatchers -> Seq(Item)]
    /\ answer \in [Dispatchers -> {"none", "ok", "error"}]
    /\ received \in SUBSET Messages
    /\ faults \in Nat

\* What d holds of a row that it owns is the newest lease of the row.
ItemInv(d, item) ==
    /\ row[item.message].status # "none"
    /\ OwnsLease(d, item.message) => item.attempts = row[item.message].attempts

\* An adapter was asked for the first message in hand; "ok" means received.
AnswerInv(d) ==
    /\ answer[d] # "none" => batch[d] # <<>> /\ Current(d).message \in Routed
    /\ answer[d] = "ok" => Current(d).message \in received

OInv ==
    /\ OutboxTypeOK
    /\ \A d \in Dispatchers :
          /\ \A i \in DOMAIN batch[d] : ItemInv(d, batch[d][i])
          /\ AnswerInv(d)
    /\ GivenUpOnlyWhenExhausted

-----------------------------------------------------------------------------
\* Nothing is enqueued and nobody holds anything.
LEMMA OutboxInitInv == Init => OInv
<1> SUFFICES ASSUME Init PROVE OInv
  OBVIOUS
<1>1. OutboxTypeOK
  BY OutboxConstants DEF Init, OutboxTypeOK, Row
<1>2. \A d \in Dispatchers : batch[d] = <<>> /\ answer[d] = "none"
  BY DEF Init
<1>3. \A d \in Dispatchers : (\A i \in DOMAIN batch[d] : ItemInv(d, batch[d][i])) /\ AnswerInv(d)
  BY <1>2 DEF AnswerInv
<1>4. GivenUpOnlyWhenExhausted
  BY DEF Init, GivenUpOnlyWhenExhausted
<1> QED
  BY <1>1, <1>3, <1>4 DEF OInv

\* The first message in hand.
LEMMA CurrentItem ==
  ASSUME OInv, NEW d \in Dispatchers, batch[d] # <<>>
  PROVE  /\ Current(d) \in Item
         /\ ItemInv(d, Current(d))
<1>1. batch[d] \in Seq(Item)
  BY DEF OInv, OutboxTypeOK
<1>2. 1 \in DOMAIN batch[d] /\ Head(batch[d]) = batch[d][1] /\ batch[d][1] \in Item
  BY <1>1
<1> QED
  BY <1>2 DEF OInv, Current

\* What dispatcher e holds stays the newest lease of the rows it owns, when no
\* row comes into its hands and nothing is added to its batch.
LEMMA KeepItems ==
  ASSUME OInv, NEW e \in Dispatchers,
         \A m \in Messages :
           /\ row[m].status # "none" => row'[m].status # "none"
           /\ row'[m].status = "delivering" /\ row'[m].owner = e =>
                row[m].status = "delivering" /\ row[m].owner = e /\ row'[m].attempts = row[m].attempts,
         \A i \in DOMAIN batch'[e] : \E j \in DOMAIN batch[e] : batch'[e][i] = batch[e][j]
  PROVE  \A i \in DOMAIN batch'[e] : ItemInv(e, batch[e][i])'
<1> SUFFICES ASSUME NEW i \in DOMAIN batch'[e] PROVE ItemInv(e, batch[e][i])'
  OBVIOUS
<1>1. PICK j \in DOMAIN batch[e] : batch'[e][i] = batch[e][j]
  OBVIOUS
<1>2. batch[e] \in Seq(Item) /\ ItemInv(e, batch[e][j])
  BY DEF OInv, OutboxTypeOK
<1> DEFINE item == batch[e][j]
<1>3. item.message \in Messages
  <2>1. batch[e] \in [1..Len(batch[e]) -> Item]
    BY <1>2
  <2>2. item \in Item
    BY <2>1
  <2> QED
    BY <2>2 DEF Item
<1>4. /\ row[item.message].status # "none"
      /\ row[item.message].status = "delivering" /\ row[item.message].owner = e =>
           item.attempts = row[item.message].attempts
  BY <1>2 DEF ItemInv, OwnsLease
<1>5. /\ row'[item.message].status # "none"
      /\ row'[item.message].status = "delivering" /\ row'[item.message].owner = e =>
           item.attempts = row'[item.message].attempts
  BY <1>3, <1>4
<1> QED
  BY <1>1, <1>5 DEF ItemInv, OwnsLease

\* Advance drops the first message in hand and nothing else.
LEMMA AdvanceBatch ==
  ASSUME OInv, NEW d \in Dispatchers, batch[d] # <<>>, Advance(d)
  PROVE  /\ batch' \in [Dispatchers -> Seq(Item)]
         /\ answer' \in [Dispatchers -> {"none", "ok", "error"}]
         /\ \A e \in Dispatchers : \A i \in DOMAIN batch'[e] : \E j \in DOMAIN batch[e] : batch'[e][i] = batch[e][j]
         /\ answer'[d] = "none"
         /\ \A e \in Dispatchers : e # d => batch'[e] = batch[e] /\ answer'[e] = answer[e]
<1>1. /\ batch \in [Dispatchers -> Seq(Item)] /\ answer \in [Dispatchers -> {"none", "ok", "error"}]
      /\ batch[d] \in Seq(Item)
  BY DEF OInv, OutboxTypeOK
<1>2. /\ Tail(batch[d]) \in Seq(Item)
      /\ Len(Tail(batch[d])) = Len(batch[d]) - 1
      /\ \A i \in 1..Len(Tail(batch[d])) : Tail(batch[d])[i] = batch[d][i + 1]
  BY <1>1
<1>3. /\ batch' = [batch EXCEPT ![d] = Tail(batch[d])]
      /\ answer' = [answer EXCEPT ![d] = "none"]
  BY DEF Advance
<1>4. batch' \in [Dispatchers -> Seq(Item)] /\ answer' \in [Dispatchers -> {"none", "ok", "error"}]
  BY <1>1, <1>2, <1>3
<1>5. /\ batch'[d] = Tail(batch[d]) /\ answer'[d] = "none"
      /\ \A e \in Dispatchers : e # d => batch'[e] = batch[e] /\ answer'[e] = answer[e]
  BY <1>1, <1>3
<1>6. ASSUME NEW i \in DOMAIN Tail(batch[d]) PROVE i + 1 \in DOMAIN batch[d] /\ Tail(batch[d])[i] = batch[d][i + 1]
  <2>1. /\ Len(batch[d]) \in Nat /\ DOMAIN batch[d] = 1..Len(batch[d])
        /\ DOMAIN Tail(batch[d]) = 1..Len(Tail(batch[d]))
    BY <1>1, <1>2
  <2> QED
    BY <1>2, <2>1
<1>7. ASSUME NEW e \in Dispatchers, NEW i \in DOMAIN batch'[e]
      PROVE  \E j \in DOMAIN batch[e] : batch'[e][i] = batch[e][j]
  <2>1. CASE e = d
    BY <1>5, <1>6, <2>1, Zenon
  <2>2. CASE e # d
    BY <1>5, <2>2
  <2> QED
    BY <2>1, <2>2
<1> QED
  BY <1>4, <1>5, <1>7

\* A row that changes only by being enqueued, becoming due or being closed
\* comes into nobody's hands.
Quiet(m) ==
    /\ row[m].status # "none" => row'[m].status # "none"
    /\ row'[m].status = "delivering" =>
         row[m].status = "delivering" /\ row'[m].owner = row[m].owner /\ row'[m].attempts = row[m].attempts
    /\ row'[m].status = "dead_letter" => row[m].status = "dead_letter" /\ row'[m].attempts = row[m].attempts

\* Steps that leave the dispatchers alone.
LEMMA QuietStep ==
  ASSUME OInv, row' \in [Messages -> Row], \A m \in Messages : Quiet(m),
         UNCHANGED <<batch, answer, received>>, faults' \in Nat
  PROVE  OInv'
<1>1. OutboxTypeOK'
  BY DEF OInv, OutboxTypeOK
<1>2. ASSUME NEW e \in Dispatchers PROVE \A i \in DOMAIN batch'[e] : ItemInv(e, batch[e][i])'
  <2>1. \A i \in DOMAIN batch'[e] : \E j \in DOMAIN batch[e] : batch'[e][i] = batch[e][j]
    OBVIOUS
  <2>2. \A m \in Messages :
           /\ row[m].status # "none" => row'[m].status # "none"
           /\ row'[m].status = "delivering" /\ row'[m].owner = e =>
                row[m].status = "delivering" /\ row[m].owner = e /\ row'[m].attempts = row[m].attempts
    BY DEF Quiet
  <2> QED
    BY <2>1, <2>2, KeepItems
<1>3. ASSUME NEW e \in Dispatchers PROVE AnswerInv(e)'
  BY DEF OInv, AnswerInv, Current
<1>4. GivenUpOnlyWhenExhausted'
  BY DEF OInv, GivenUpOnlyWhenExhausted, Quiet
<1> QED
  BY <1>1, <1>2, <1>3, <1>4 DEF OInv

\* The rows of a command that commits, a backoff and a lease that expires.
LEMMA EnqueueInv == ASSUME OInv, NEW m \in Messages, Enqueue(m) PROVE OInv'
<1>1. row \in [Messages -> Row] /\ row[m] \in Row /\ faults \in Nat
  BY DEF OInv, OutboxTypeOK
<1>2. row' \in [Messages -> Row] /\ \A n \in Messages : Quiet(n)
  BY <1>1, Zenon DEF Enqueue, Row, Quiet
<1> QED
  BY <1>1, <1>2, QuietStep DEF Enqueue

\* A row becomes due.
LEMMA DueInv == ASSUME OInv, NEW m \in Messages, BecomeDue(m) \/ Overtake(m) PROVE OInv'
<1>1. row \in [Messages -> Row] /\ row[m] \in Row /\ faults \in Nat
  BY DEF OInv, OutboxTypeOK
<1>2. row' = [row EXCEPT ![m].due = TRUE]
  BY DEF BecomeDue, Overtake
<1>3. row' \in [Messages -> Row] /\ \A n \in Messages : Quiet(n)
  BY <1>1, <1>2, Zenon DEF Row, Quiet
<1>4. faults' \in Nat /\ UNCHANGED <<batch, answer, received>>
  BY <1>1 DEF BecomeDue, Overtake
<1> QED
  BY <1>3, <1>4, QuietStep

\* Steps of d after which it goes on to the next message.
LEMMA AdvanceStep ==
  ASSUME OInv, NEW d \in Dispatchers, batch[d] # <<>>, Advance(d),
         row' \in [Messages -> Row], UNCHANGED received, faults' \in Nat,
         \A m \in Messages :
           /\ row[m].status # "none" => row'[m].status # "none"
           /\ row'[m].status = "delivering" =>
                row[m].status = "delivering" /\ row'[m].owner = row[m].owner /\ row'[m].attempts = row[m].attempts,
         GivenUpOnlyWhenExhausted'
  PROVE  OInv'
<1>1. /\ batch' \in [Dispatchers -> Seq(Item)]
      /\ answer' \in [Dispatchers -> {"none", "ok", "error"}]
      /\ \A e \in Dispatchers : \A i \in DOMAIN batch'[e] : \E j \in DOMAIN batch[e] : batch'[e][i] = batch[e][j]
      /\ answer'[d] = "none"
      /\ \A e \in Dispatchers : e # d => batch'[e] = batch[e] /\ answer'[e] = answer[e]
  BY AdvanceBatch
<1>2. OutboxTypeOK'
  BY <1>1 DEF OInv, OutboxTypeOK
<1>3. ASSUME NEW e \in Dispatchers PROVE \A i \in DOMAIN batch'[e] : ItemInv(e, batch[e][i])'
  <2>1. \A m \in Messages :
           /\ row[m].status # "none" => row'[m].status # "none"
           /\ row'[m].status = "delivering" /\ row'[m].owner = e =>
                row[m].status = "delivering" /\ row[m].owner = e /\ row'[m].attempts = row[m].attempts
    OBVIOUS
  <2> QED
    BY <1>1, <2>1, KeepItems, Zenon
<1>4. ASSUME NEW e \in Dispatchers PROVE AnswerInv(e)'
  BY <1>1 DEF OInv, AnswerInv, Current
<1> QED
  BY <1>2, <1>3, <1>4 DEF OInv

\* A row is closed by nobody but its owner, so nothing changes hands.
LEMMA CloseRow ==
  ASSUME OInv, NEW m \in Messages, NEW status \in {"pending", "delivered", "dead_letter"},
         row' = [row EXCEPT ![m] = Closed(@, status, FALSE)]
  PROVE  /\ row' \in [Messages -> Row]
         /\ row'[m].status = status /\ row'[m].attempts = row[m].attempts
         /\ \A n \in Messages : n # m => row'[n] = row[n]
         /\ \A n \in Messages :
              /\ row[n].status # "none" => row'[n].status # "none"
              /\ row'[n].status = "delivering" =>
                   row[n].status = "delivering" /\ row'[n].owner = row[n].owner /\ row'[n].attempts = row[n].attempts
<1>1. row \in [Messages -> Row] /\ row[m] \in Row
  BY DEF OInv, OutboxTypeOK
<1>2. /\ Closed(row[m], status, FALSE) \in Row
      /\ Closed(row[m], status, FALSE).status = status /\ Closed(row[m], status, FALSE).attempts = row[m].attempts
  BY <1>1, Zenon DEF Closed, Row
<1>3. /\ row' \in [Messages -> Row]
      /\ row'[m] = Closed(row[m], status, FALSE)
      /\ \A n \in Messages : n # m => row'[n] = row[n]
  BY <1>1, <1>2, Zenon
<1>4. row'[m].status = status /\ row'[m].attempts = row[m].attempts
  BY <1>2, <1>3, Zenon
<1>5. ASSUME NEW n \in Messages
      PROVE  /\ row[n].status # "none" => row'[n].status # "none"
             /\ row'[n].status = "delivering" =>
                  row[n].status = "delivering" /\ row'[n].owner = row[n].owner /\ row'[n].attempts = row[n].attempts
  BY <1>3, <1>4, Zenon
<1> QED
  BY <1>3, <1>4, <1>5, Zenon

-----------------------------------------------------------------------------
\* How a dispatcher leaves the row of the message it goes on from: as it is,
\* or, if it owns it, closed for a reason.
Recorded(d) ==
    \/ row' = row
    \/ \E status \in {"pending", "delivered", "dead_letter"} :
         /\ OwnsLease(d, Current(d).message)
         /\ row' = [row EXCEPT ![Current(d).message] = Closed(@, status, FALSE)]
         /\ status = "delivered" => Current(d).message \in received
         /\ status = "dead_letter" =>
              Current(d).message \notin Routed \/ row[Current(d).message].attempts >= MaxDeliveries

\* FailDelivery returns the row or gives the message up.
LEMMA FailedIsRecorded ==
  ASSUME OInv, NEW d \in Dispatchers, batch[d] # <<>>, NEW max \in Nat, FailDelivery(d, max),
         max = MaxDeliveries \/ Current(d).message \notin Routed
  PROVE  Recorded(d)
<1> DEFINE m == Current(d).message
<1>1. m \in Messages /\ row \in [Messages -> Row]
  BY CurrentItem, Zenon DEF Item, OInv, OutboxTypeOK
<1>2. CASE ~OwnsLease(d, m)
  BY <1>2 DEF FailDelivery, Recorded
<1>3. CASE OwnsLease(d, m) /\ row[m].attempts >= max
  <2>1. row' = [row EXCEPT ![m] = Closed(@, "dead_letter", FALSE)]
    BY <1>1, <1>3, Zenon DEF FailDelivery, FailedRow
  <2> QED
    BY <1>3, <2>1, Zenon DEF Recorded
<1>4. CASE OwnsLease(d, m) /\ ~(row[m].attempts >= max)
  <2>1. row' = [row EXCEPT ![m] = Closed(@, "pending", FALSE)]
    BY <1>1, <1>4, Zenon DEF FailDelivery, FailedRow
  <2> QED
    BY <1>4, <2>1 DEF Recorded
<1> QED
  BY <1>2, <1>3, <1>4

\* The steps after which DispatchOnce goes on to the next message.
LEMMA OutcomeIsRecorded ==
  ASSUME OInv, NEW d \in Dispatchers,
         MarkDelivered(d) \/ RetryDelivery(d) \/ RejectUnrouted(d) \/ RecordFails(d)
  PROVE  batch[d] # <<>> /\ Advance(d) /\ received' = received /\ faults' \in Nat /\ Recorded(d)
<1>1. faults \in Nat /\ AnswerInv(d)
  BY DEF OInv, OutboxTypeOK
<1>2. batch[d] # <<>>
  BY <1>1, Zenon DEF AnswerInv, MarkDelivered, RetryDelivery, RejectUnrouted, RecordFails
<1>3. CASE MarkDelivered(d)
  <2>1. Advance(d) /\ received' = received /\ faults' = faults
    BY <1>3 DEF MarkDelivered
  <2>2. Recorded(d)
    BY <1>1, <1>3, Zenon DEF MarkDelivered, AnswerInv, Recorded
  <2> QED
    BY <1>1, <1>2, <2>1, <2>2
<1>4. CASE RetryDelivery(d)
  <2>1. Advance(d) /\ received' = received /\ faults' = faults /\ FailDelivery(d, MaxDeliveries)
    BY <1>4 DEF RetryDelivery
  <2>2. MaxDeliveries \in Nat
    BY OutboxConstants
  <2>3. Recorded(d)
    BY <1>2, <2>1, <2>2, FailedIsRecorded
  <2> QED
    BY <1>1, <1>2, <2>1, <2>3
<1>5. CASE RejectUnrouted(d)
  <2>1. /\ Advance(d) /\ received' = received /\ faults' = faults
        /\ FailDelivery(d, Current(d).attempts) /\ Current(d).message \notin Routed
    BY <1>5 DEF RejectUnrouted, UnroutedLimit
  <2>2. Current(d).attempts \in Nat
    BY <1>2, CurrentItem DEF Item
  <2>3. Recorded(d)
    BY <1>2, <2>1, <2>2, FailedIsRecorded
  <2> QED
    BY <1>1, <1>2, <2>1, <2>3
<1>6. CASE RecordFails(d)
  BY <1>1, <1>2, <1>6 DEF RecordFails, Recorded
<1> QED
  BY <1>3, <1>4, <1>5, <1>6

\* They preserve the invariant.
LEMMA OutcomeInv ==
  ASSUME OInv, NEW d \in Dispatchers,
         MarkDelivered(d) \/ RetryDelivery(d) \/ RejectUnrouted(d) \/ RecordFails(d)
  PROVE  OInv'
<1>1. batch[d] # <<>> /\ Advance(d) /\ received' = received /\ faults' \in Nat /\ Recorded(d)
  BY OutcomeIsRecorded
<1>2. Current(d).message \in Messages
  BY <1>1, CurrentItem DEF Item
<1>3. CASE row' = row
  <2>1. row \in [Messages -> Row] /\ GivenUpOnlyWhenExhausted'
    BY <1>3 DEF OInv, OutboxTypeOK, GivenUpOnlyWhenExhausted
  <2> QED
    BY <1>1, <1>3, <2>1, AdvanceStep
<1>4. ASSUME NEW status \in {"pending", "delivered", "dead_letter"},
             row' = [row EXCEPT ![Current(d).message] = Closed(@, status, FALSE)],
             status = "dead_letter" =>
               Current(d).message \notin Routed \/ row[Current(d).message].attempts >= MaxDeliveries
      PROVE  OInv'
  <2> DEFINE m == Current(d).message
  <2>1. /\ row' \in [Messages -> Row]
        /\ row'[m].status = status /\ row'[m].attempts = row[m].attempts
        /\ \A n \in Messages : n # m => row'[n] = row[n]
        /\ \A n \in Messages :
              /\ row[n].status # "none" => row'[n].status # "none"
              /\ row'[n].status = "delivering" =>
                   row[n].status = "delivering" /\ row'[n].owner = row[n].owner /\ row'[n].attempts = row[n].attempts
    BY <1>2, <1>4, CloseRow, Zenon
  <2>2. GivenUpOnlyWhenExhausted'
    BY <1>2, <1>4, <2>1, Zenon DEF OInv, GivenUpOnlyWhenExhausted
  <2> QED
    BY <1>1, <2>1, <2>2, AdvanceStep
<1> QED
  BY <1>1, <1>3, <1>4, Zenon DEF Recorded

\* A dispatcher that dies holds nothing.
LEMMA CrashInv == ASSUME OInv, NEW d \in Dispatchers, Crash(d) PROVE OInv'
<1>1. OutboxTypeOK
  BY DEF OInv
<1>2. /\ row' = row /\ received' = received /\ faults' \in Nat
      /\ batch' = [batch EXCEPT ![d] = <<>>] /\ answer' = [answer EXCEPT ![d] = "none"]
  BY <1>1 DEF Crash, OutboxTypeOK
<1>3. /\ batch'[d] = <<>> /\ answer'[d] = "none"
      /\ \A e \in Dispatchers : e # d => batch'[e] = batch[e] /\ answer'[e] = answer[e]
  BY <1>1, <1>2 DEF OutboxTypeOK
<1>4. OutboxTypeOK'
  <2>1. <<>> \in Seq(Item)
    OBVIOUS
  <2> QED
    BY <1>1, <1>2, <2>1 DEF OutboxTypeOK
<1>5. ASSUME NEW e \in Dispatchers
      PROVE  (\A i \in DOMAIN batch'[e] : ItemInv(e, batch[e][i])') /\ AnswerInv(e)'
  <2>1. CASE e = d
    BY <1>3, <2>1 DEF AnswerInv
  <2>2. CASE e # d
    BY <1>2, <1>3, <2>2 DEF OInv, ItemInv, OwnsLease, AnswerInv, Current
  <2> QED
    BY <2>1, <2>2
<1>6. GivenUpOnlyWhenExhausted'
  BY <1>2 DEF OInv, GivenUpOnlyWhenExhausted
<1> QED
  BY <1>4, <1>5, <1>6 DEF OInv

\* An adapter says "ok" only for what was received.
LEMMA DeliverInv == ASSUME OInv, NEW d \in Dispatchers, Deliver(d) PROVE OInv'
<1>1. OutboxTypeOK /\ batch[d] # <<>> /\ Current(d).message \in Routed /\ Current(d).message \in Messages
  BY CurrentItem DEF OInv, Deliver, Item
<1>2. PICK a \in {"ok", "error"} :
        /\ answer' = [answer EXCEPT ![d] = a]
        /\ received' = received \/ received' = received \cup {Current(d).message}
        /\ a = "ok" => received' = received \cup {Current(d).message}
  BY DEF Deliver
<1>3. row' = row /\ batch' = batch /\ faults' = faults
  BY DEF Deliver
<1>4. OutboxTypeOK'
  BY <1>1, <1>2, <1>3 DEF OutboxTypeOK
<1>5. answer'[d] = a /\ \A e \in Dispatchers : e # d => answer'[e] = answer[e]
  BY <1>1, <1>2 DEF OutboxTypeOK
<1>6. ASSUME NEW e \in Dispatchers PROVE \A i \in DOMAIN batch'[e] : ItemInv(e, batch[e][i])'
  BY <1>3 DEF OInv, ItemInv, OwnsLease
<1>7. ASSUME NEW e \in Dispatchers PROVE AnswerInv(e)'
  <2>1. CASE e = d
    BY <1>1, <1>2, <1>3, <1>5, <2>1 DEF AnswerInv, Current
  <2>2. CASE e # d
    BY <1>2, <1>3, <1>5, <2>2 DEF OInv, AnswerInv, Current
  <2> QED
    BY <2>1, <2>2
<1>8. GivenUpOnlyWhenExhausted'
  BY <1>3 DEF OInv, GivenUpOnlyWhenExhausted
<1> QED
  BY <1>4, <1>6, <1>7, <1>8 DEF OInv

\* What Lease does to the rows, whether or not its answer arrives.
LEMMA LeasedRows ==
  ASSUME OInv, NEW d \in Dispatchers, NEW S \in Claims,
         row' = [m \in Messages |-> IF m \in S THEN Leased(row[m], d) ELSE row[m]]
  PROVE  /\ row' \in [Messages -> Row] /\ S \in SUBSET Messages
         /\ \A m \in S : /\ row[m].status \in {"pending", "delivering"} /\ row'[m].status = "delivering"
                         /\ row'[m].owner = d /\ row'[m].attempts = row[m].attempts + 1
         /\ \A m \in Messages \ S : row'[m] = row[m]
         /\ GivenUpOnlyWhenExhausted'
<1>1. row \in [Messages -> Row] /\ GivenUpOnlyWhenExhausted
  BY DEF OInv, OutboxTypeOK
<1>2. S \in SUBSET Messages /\ \A m \in S : row[m].status \in {"pending", "delivering"}
  BY DEF Claims, Eligible
<1>3. ASSUME NEW m \in Messages
      PROVE  /\ Leased(row[m], d) \in Row /\ Leased(row[m], d).status = "delivering"
             /\ Leased(row[m], d).owner = d /\ Leased(row[m], d).attempts = row[m].attempts + 1
  <2>1. row[m] \in Row
    BY <1>1
  <2>2. ASSUME NEW r \in Row
        PROVE  /\ Leased(r, d) \in Row /\ Leased(r, d).status = "delivering"
               /\ Leased(r, d).owner = d /\ Leased(r, d).attempts = r.attempts + 1
    <3>1. r.attempts + 1 \in Nat
      BY DEF Row
    <3>2. DOMAIN r = {"status", "owner", "attempts", "due"}
      BY DEF Row
    <3>3. /\ DOMAIN Leased(r, d) = DOMAIN r
          /\ Leased(r, d).status = "delivering" /\ Leased(r, d).owner = d
          /\ Leased(r, d).attempts = r.attempts + 1 /\ Leased(r, d).due = FALSE
      BY <3>2, Zenon DEF Leased
    <3>4. Leased(r, d) = [f \in DOMAIN r |-> Leased(r, d)[f]]
      BY Zenon DEF Leased
    <3>5. Leased(r, d) \in Row
      BY <3>1, <3>2, <3>3, <3>4, Zenon DEF Row
    <3> QED
      BY <3>3, <3>5
  <2> QED
    BY <2>1, <2>2
<1>4. row' \in [Messages -> Row]
  BY <1>1, <1>3
<1>5. /\ \A m \in S : row'[m] = Leased(row[m], d)
      /\ \A m \in Messages \ S : row'[m] = row[m]
  BY <1>2
<1>6. \A m \in S : /\ row'[m].status = "delivering" /\ row'[m].owner = d
                  /\ row'[m].attempts = row[m].attempts + 1
  BY <1>2, <1>3, <1>5
<1>7. GivenUpOnlyWhenExhausted'
  BY <1>1, <1>5, <1>6 DEF GivenUpOnlyWhenExhausted
<1> QED
  BY <1>2, <1>4, <1>5, <1>6, <1>7

\* The others keep the newest lease of what they own: it was not leased.
LEMMA OthersKeep ==
  ASSUME OInv, NEW d \in Dispatchers, NEW S \in Claims, NEW e \in Dispatchers, e # d,
         row' = [m \in Messages |-> IF m \in S THEN Leased(row[m], d) ELSE row[m]],
         batch'[e] = batch[e]
  PROVE  \A i \in DOMAIN batch'[e] : ItemInv(e, batch[e][i])'
<1>1. /\ \A m \in S : row'[m].status = "delivering" /\ row'[m].owner = d
      /\ \A m \in Messages \ S : row'[m] = row[m]
  BY LeasedRows
<1>2. \A m \in Messages :
        /\ row[m].status # "none" => row'[m].status # "none"
        /\ row'[m].status = "delivering" /\ row'[m].owner = e =>
             row[m].status = "delivering" /\ row[m].owner = e /\ row'[m].attempts = row[m].attempts
  BY <1>1
<1>3. \A i \in DOMAIN batch'[e] : \E j \in DOMAIN batch[e] : batch'[e][i] = batch[e][j]
  OBVIOUS
<1> QED
  BY <1>2, <1>3, KeepItems

\* The lease commits and nobody hears of it: what d leased is in no batch.
LEMMA LeaseUnansweredInv ==
  ASSUME OInv, NEW d \in Dispatchers, NEW S \in Claims, LeaseUnanswered(d, S)
  PROVE  OInv'
<1>1. /\ row' = [m \in Messages |-> IF m \in S THEN Leased(row[m], d) ELSE row[m]]
      /\ batch[d] = <<>> /\ batch' = batch /\ answer' = answer /\ received' = received
      /\ faults' = faults + 1
  BY DEF LeaseUnanswered
<1>2. OutboxTypeOK' /\ GivenUpOnlyWhenExhausted'
  <2>1. row' \in [Messages -> Row] /\ GivenUpOnlyWhenExhausted'
    BY <1>1, LeasedRows
  <2> QED
    BY <1>1, <2>1 DEF OInv, OutboxTypeOK
<1>3. ASSUME NEW e \in Dispatchers PROVE \A i \in DOMAIN batch'[e] : ItemInv(e, batch[e][i])'
  <2>1. CASE e = d
    BY <1>1, <2>1
  <2>2. CASE e # d
    BY <1>1, <2>2, OthersKeep
  <2> QED
    BY <2>1, <2>2
<1>4. ASSUME NEW e \in Dispatchers PROVE AnswerInv(e)'
  BY <1>1 DEF OInv, AnswerInv, Current
<1> QED
  BY <1>2, <1>3, <1>4 DEF OInv

\* A batch holds the newest lease of each of its messages.
LEMMA LeaseInv ==
  ASSUME OInv, NEW d \in Dispatchers, NEW S \in Claims, Lease(d, S)
  PROVE  OInv'
<1>1. /\ row' = [m \in Messages |-> IF m \in S THEN Leased(row[m], d) ELSE row[m]]
      /\ batch[d] = <<>> /\ answer' = answer /\ received' = received /\ faults' = faults
  BY DEF Lease
<1>2. PICK order \in Orders(S) :
        batch' = [batch EXCEPT ![d] = [i \in DOMAIN order |->
                    [message |-> order[i], attempts |-> row[order[i]].attempts + 1]]]
  BY Zenon DEF Lease
<1> DEFINE new == [i \in DOMAIN order |-> [message |-> order[i], attempts |-> row[order[i]].attempts + 1]]
<1>3. /\ row' \in [Messages -> Row] /\ GivenUpOnlyWhenExhausted' /\ S \in SUBSET Messages
      /\ \A m \in S : row'[m].status = "delivering" /\ row'[m].attempts = row[m].attempts + 1
  BY <1>1, LeasedRows
<1>4. OutboxTypeOK
  BY DEF OInv
<1>5. Cardinality(S) \in Nat
  BY OutboxConstants DEF Claims
<1>6. DOMAIN order = 1..Cardinality(S) /\ \A i \in DOMAIN order : order[i] \in S
  <2>1. order \in [1..Cardinality(S) -> S]
    BY <1>2 DEF Orders
  <2> QED
    BY <2>1
<1>7. \A m \in S : row[m].attempts + 1 \in Nat
  BY <1>3, <1>4 DEF OutboxTypeOK, Row
<1>8. new \in Seq(Item)
  <2>1. \A i \in 1..Cardinality(S) : [message |-> order[i], attempts |-> row[order[i]].attempts + 1] \in Item
    BY <1>3, <1>6, <1>7 DEF Item
  <2>2. new \in [1..Cardinality(S) -> Item]
    BY <1>6, <2>1
  <2> QED
    BY <1>5, <2>2
<1>9. batch'[d] = new /\ \A e \in Dispatchers : e # d => batch'[e] = batch[e]
  BY <1>2, <1>4 DEF OutboxTypeOK
<1>10. OutboxTypeOK'
  BY <1>1, <1>2, <1>3, <1>4, <1>8 DEF OutboxTypeOK
<1>11. ASSUME NEW e \in Dispatchers PROVE \A i \in DOMAIN batch'[e] : ItemInv(e, batch[e][i])'
  <2>1. CASE e = d
    <3> SUFFICES ASSUME NEW i \in DOMAIN order PROVE ItemInv(e, batch[e][i])'
      BY <1>9, <2>1
    <3>1. batch'[e][i].message = order[i] /\ batch'[e][i].attempts = row[order[i]].attempts + 1
      BY <1>9, <2>1
    <3>2. row'[order[i]].status = "delivering" /\ row'[order[i]].attempts = row[order[i]].attempts + 1
      BY <1>3, <1>6
    <3> QED
      BY <3>1, <3>2 DEF ItemInv
  <2>2. CASE e # d
    BY <1>1, <1>9, <2>2, OthersKeep
  <2> QED
    BY <2>1, <2>2
<1>12. ASSUME NEW e \in Dispatchers PROVE AnswerInv(e)'
  <2>1. CASE e = d
    BY <1>1, <2>1 DEF OInv, AnswerInv
  <2>2. CASE e # d
    BY <1>1, <1>9, <2>2 DEF OInv, AnswerInv, Current
  <2> QED
    BY <2>1, <2>2
<1> QED
  BY <1>3, <1>10, <1>11, <1>12 DEF OInv

-----------------------------------------------------------------------------
\* Every step keeps the invariant.
LEMMA OutboxStepInv == OInv /\ [Next]_vars => OInv'
<1> SUFFICES ASSUME OInv, [Next]_vars PROVE OInv'
  OBVIOUS
<1>1. CASE \E m \in Messages : Enqueue(m) \/ BecomeDue(m) \/ Overtake(m)
  BY <1>1, EnqueueInv, DueInv
<1>2. ASSUME NEW d \in Dispatchers, Dispatch(d) PROVE OInv'
  BY <1>2, LeaseInv, DeliverInv, OutcomeInv DEF Dispatch
<1>3. ASSUME NEW d \in Dispatchers, Fault(d) PROVE OInv'
  BY <1>3, LeaseUnansweredInv, OutcomeInv, CrashInv DEF Fault
<1>4. CASE UNCHANGED vars
  BY <1>4 DEF vars, OInv, OutboxTypeOK, ItemInv, OwnsLease, AnswerInv, Current, GivenUpOnlyWhenExhausted
<1> QED
  BY <1>1, <1>2, <1>3, <1>4 DEF Next

\* The invariant holds in every reachable state.
LEMMA OutboxInvariant == Spec => []OInv
  BY OutboxInitInv, OutboxStepInv, PTL DEF Spec

\* GivenUpOnlyWhenExhausted: FailDelivery gives a routed message up only after
\* maxAttempts leases, whatever was lost or overtaken before.
THEOREM GivenUpAfterEnough == Spec => []GivenUpOnlyWhenExhausted
<1>1. OInv => GivenUpOnlyWhenExhausted
  BY DEF OInv
<1> QED
  BY <1>1, OutboxInvariant, PTL

\* What a step may do to the rows: nothing closes but the message in hand of a
\* dispatcher that owns it.
LEMMA ClosingStep ==
  ASSUME OInv, [Next]_vars, NEW m \in Messages,
         row[m].status = "delivering", row'[m].status # "delivering"
  PROVE  \E d \in Dispatchers :
            batch[d] # <<>> /\ Current(d) = [message |-> m, attempts |-> row[m].attempts]
<1>1. row \in [Messages -> Row] /\ row[m] \in Row
  BY DEF OInv, OutboxTypeOK
<1>2. CASE \E n \in Messages : Enqueue(n) \/ BecomeDue(n) \/ Overtake(n)
  <2>1. PICK n \in Messages : Enqueue(n) \/ BecomeDue(n) \/ Overtake(n)
    BY <1>2
  <2>2. row'[m].status = row[m].status
    BY <1>1, <2>1 DEF Enqueue, BecomeDue, Overtake, Row
  <2> QED
    BY <2>2
<1>3. ASSUME NEW d \in Dispatchers, NEW S \in Claims, Lease(d, S) \/ LeaseUnanswered(d, S) PROVE FALSE
  <2>1. row' = [n \in Messages |-> IF n \in S THEN Leased(row[n], d) ELSE row[n]]
    BY <1>3 DEF Lease, LeaseUnanswered
  <2>2. /\ \A n \in S : row'[n].status = "delivering"
        /\ \A n \in Messages \ S : row'[n] = row[n]
    BY <2>1, LeasedRows
  <2> QED
    BY <2>2
<1>4. ASSUME NEW d \in Dispatchers, Deliver(d) \/ Crash(d) PROVE FALSE
  BY <1>4 DEF Deliver, Crash
<1>5. ASSUME NEW d \in Dispatchers,
             MarkDelivered(d) \/ RetryDelivery(d) \/ RejectUnrouted(d) \/ RecordFails(d)
      PROVE  batch[d] # <<>> /\ Current(d) = [message |-> m, attempts |-> row[m].attempts]
  <2>1. batch[d] # <<>> /\ Recorded(d) /\ Current(d) \in Item /\ ItemInv(d, Current(d))
    BY <1>5, OutcomeIsRecorded, CurrentItem
  <2>2. PICK status \in {"pending", "delivered", "dead_letter"} :
           /\ OwnsLease(d, Current(d).message)
           /\ row' = [row EXCEPT ![Current(d).message] = Closed(@, status, FALSE)]
    BY <2>1, Zenon DEF Recorded
  <2>3. Current(d).message = m
    BY <1>1, <2>2, Zenon
  <2>4. Current(d).attempts = row[m].attempts
    BY <2>1, <2>2, <2>3 DEF ItemInv
  <2> QED
    BY <2>1, <2>3, <2>4 DEF Item
<1>6. CASE UNCHANGED vars
  BY <1>6 DEF vars
<1> QED
  BY <1>2, <1>3, <1>4, <1>5, <1>6 DEF Next, Dispatch, Fault

\* ClosedByNewestLease: comparing the owner is as good as a fence.
THEOREM NewestLeaseCloses == Spec => ClosedByNewestLease
<1>1. OInv /\ [Next]_vars =>
        [\A m \in Messages :
           (row[m].status = "delivering" /\ row'[m].status # "delivering") =>
             \E d \in Dispatchers :
               batch[d] # <<>> /\ Current(d) = [message |-> m, attempts |-> row[m].attempts]]_vars
  BY ClosingStep
<1> QED
  BY <1>1, OutboxInvariant, PTL DEF Spec, ClosedByNewestLease

\* ImplementsAtLeastOnce: every transaction and every delivery is a step of the
\* promise or changes nothing it speaks of.
THEOREM DeliversAtLeastOnce == Spec => ImplementsAtLeastOnce
<1> DEFINE fate == [m \in Messages |-> FateOf(row[m].status)]
<1>1. Init => Promise!Init
  BY SMTT(30) DEF Init, Promise!Init, FateOf
<1>2. ASSUME OInv, [Next]_vars PROVE [Promise!Next]_<<fate, received>>
  <2>1. row \in [Messages -> Row]
    BY <1>2 DEF OInv, OutboxTypeOK
  <2>2. ASSUME NEW m \in Messages, Enqueue(m) PROVE Promise!Next
    <3>1. row[m].status = "none" /\ row' = [row EXCEPT ![m].status = "pending", ![m].due = TRUE] /\ received' = received
      BY <2>2 DEF Enqueue
    <3>2. /\ row'[m].status = "pending"
          /\ \A n \in Messages : n # m => row'[n] = row[n]
      BY <2>1, <3>1 DEF Row
    <3>3. /\ fate[m] = "none" /\ FateOf(row'[m].status) = "owed"
          /\ \A n \in Messages : n # m => FateOf(row'[n].status) = FateOf(row[n].status)
      <4>1. fate[m] = "none" /\ FateOf(row'[m].status) = "owed"
        BY <3>1, <3>2 DEF FateOf
      <4> QED
        BY <3>2, <4>1
    <3>4. fate' = [fate EXCEPT ![m] = "owed"]
      BY <3>3, Zenon
    <3>5. Promise!Accept(m)
      BY <3>1, <3>3, <3>4 DEF Promise!Accept
    <3> QED
      BY <3>5 DEF Promise!Next
  <2>3. ASSUME NEW m \in Messages, BecomeDue(m) \/ Overtake(m) PROVE UNCHANGED <<fate, received>>
    <3>1. row' = [row EXCEPT ![m].due = TRUE] /\ received' = received
      BY <2>3 DEF BecomeDue, Overtake
    <3>2. \A n \in Messages : row'[n].status = row[n].status
      BY <2>1, <3>1 DEF Row
    <3> QED
      BY <3>1, <3>2
  <2>4. ASSUME NEW d \in Dispatchers, NEW S \in Claims, Lease(d, S) \/ LeaseUnanswered(d, S)
        PROVE  UNCHANGED <<fate, received>>
    <3>1. row' = [n \in Messages |-> IF n \in S THEN Leased(row[n], d) ELSE row[n]] /\ received' = received
      BY <2>4 DEF Lease, LeaseUnanswered
    <3>2. /\ \A n \in S : row[n].status \in {"pending", "delivering"} /\ row'[n].status = "delivering"
          /\ \A n \in Messages \ S : row'[n] = row[n]
      BY <1>2, <3>1, LeasedRows
    <3>3. \A n \in Messages : FateOf(row'[n].status) = FateOf(row[n].status)
      BY <3>2 DEF FateOf
    <3> QED
      BY <3>1, <3>3
  <2>5. ASSUME NEW d \in Dispatchers, Deliver(d) PROVE [Promise!Next]_<<fate, received>>
    <3> DEFINE m == Current(d).message
    <3>1. m \in Messages /\ row[m].status # "none" /\ row[m] \in Row
      BY <1>2, <2>1, <2>5, CurrentItem DEF Deliver, Item, ItemInv
    <3>2. row' = row /\ (received' = received \/ received' = received \cup {m})
      BY <2>5 DEF Deliver
    <3>3. fate' = fate /\ fate[m] # "none"
      BY <3>1, <3>2 DEF FateOf
    <3>4. CASE received' = received
      BY <3>3, <3>4
    <3>5. CASE received' = received \cup {m}
      BY <3>1, <3>3, <3>5 DEF Promise!Receive, Promise!Next
    <3> QED
      BY <3>2, <3>4, <3>5
  <2>6. ASSUME NEW d \in Dispatchers, Crash(d) PROVE UNCHANGED <<fate, received>>
    BY <2>6 DEF Crash
  <2>7. ASSUME NEW d \in Dispatchers,
               MarkDelivered(d) \/ RetryDelivery(d) \/ RejectUnrouted(d) \/ RecordFails(d)
        PROVE  [Promise!Next]_<<fate, received>>
    <3> DEFINE m == Current(d).message
    <3>1. batch[d] # <<>> /\ received' = received /\ Recorded(d) /\ m \in Messages
      BY <1>2, <2>7, OutcomeIsRecorded, CurrentItem DEF Item
    <3>2. CASE row' = row
      BY <3>1, <3>2
    <3>3. ASSUME NEW status \in {"pending", "delivered", "dead_letter"},
                 OwnsLease(d, m), row' = [row EXCEPT ![m] = Closed(@, status, FALSE)],
                 status = "delivered" => m \in received
          PROVE  [Promise!Next]_<<fate, received>>
      <4>1. row'[m].status = status /\ \A n \in Messages : n # m => row'[n] = row[n]
        BY <1>2, <3>1, <3>3, CloseRow, Zenon
      <4>2. fate[m] = "owed" /\ fate' = [fate EXCEPT ![m] = FateOf(status)]
        <5>1. fate[m] = "owed"
          BY <3>1, <3>3 DEF OwnsLease, FateOf
        <5>2. \A n \in Messages : n # m => FateOf(row'[n].status) = FateOf(row[n].status)
          BY <4>1
        <5>3. FateOf(row'[m].status) = FateOf(status)
          BY <4>1
        <5> QED
          BY <5>1, <5>2, <5>3
      <4>3. CASE status = "pending"
        <5>1. fate' = fate
          BY <3>1, <4>2, <4>3 DEF FateOf
        <5> QED
          BY <3>1, <5>1
      <4>4. CASE status = "delivered"
        BY <3>1, <3>3, <4>2, <4>4, Zenon DEF FateOf, Promise!Acknowledge, Promise!Next
      <4>5. CASE status = "dead_letter"
        BY <3>1, <4>2, <4>5, Zenon DEF FateOf, Promise!GiveUp, Promise!Next
      <4> QED
        BY <4>3, <4>4, <4>5
    <3> QED
      BY <3>1, <3>2, <3>3, Zenon DEF Recorded
  <2>8. CASE UNCHANGED vars
    BY <2>8 DEF vars
  <2> QED
    BY <1>2, <2>2, <2>3, <2>4, <2>5, <2>6, <2>7, <2>8 DEF Next, Dispatch, Fault
<1> QED
  BY <1>1, <1>2, OutboxInvariant, PTL DEF Spec, ImplementsAtLeastOnce, Promise!Spec

-----------------------------------------------------------------------------
\* Access to the API.

\* Key k was published at instant t or later.
Since(k, t) == k \in published \/ t <= withdrawn[k]

Steps == {"idle", "verify", "fetch", "store", "reread", "admit", "handle", "answered"}

Visit == [pc : Steps, token : Tokens \cup {NoToken}, fetched : SUBSET KeyIds, fetchedAt : Nat,
          verifiedAt : Nat, call : APICalls \cup {NoCall}, seen : SUBSET ScopedTasks]

\* The clock, the issuer and the cache: what is cached was published no
\* longer than a fetch before it was stored.
CacheInv ==
  /\ time \in Nat
  /\ published \in SUBSET KeyIds
  /\ withdrawn \in [KeyIds -> Nat]
  /\ keys \in SUBSET KeyIds
  /\ keysUntil \in Nat
  /\ keysUntil <= time + TTL
  /\ \A k \in keys : Since(k, keysUntil - TTL - FetchTime)

\* A fetched set is as old as its fetch; a request that looks again does so
\* after its own store; a request that passed has a key of bounded age.
RequestInv(q) ==
  /\ q.pc \in {"store", "reread"} => q.fetchedAt <= time /\ time <= q.fetchedAt + FetchTime
  /\ q.pc = "store" => \A k \in q.fetched : Since(k, q.fetchedAt)
  /\ q.pc = "reread" => q.fetchedAt + TTL <= keysUntil
  /\ q.verifiedAt <= time
  /\ q.pc \in {"admit", "handle", "answered"} /\ authMode = "oidc" =>
       q.token.kid \in KeyIds /\ Since(q.token.kid, q.verifiedAt - TTL - FetchTime)

\* A task that was shown has an owner, and it is the requester's project.
ScopeInv(q) ==
  /\ q.pc \in {"handle", "answered"} => q.token.tenant # ""
  /\ q.pc = "answered" => \A t \in q.seen : owners[t].tenant = q.token.tenant /\ owners[t].project = q.token.project

AInv ==
  /\ CacheInv
  /\ visit \in [Visitors -> Visit]
  /\ owners = [t \in ScopedTasks |-> owners[t]]
  /\ \A v \in Visitors : RequestInv(visit[v]) /\ ScopeInv(visit[v])

-----------------------------------------------------------------------------
\* No request is on its way.
LEMMA NothingIsVisit ==
  /\ Nothing \in Visit
  /\ Nothing.pc = "idle" /\ Nothing.verifiedAt = 0
<1>1. /\ "idle" \in Steps /\ NoToken \in Tokens \cup {NoToken} /\ {} \in SUBSET KeyIds /\ 0 \in Nat
      /\ NoCall \in APICalls \cup {NoCall} /\ {} \in SUBSET ScopedTasks
  BY DEF Steps
<1> QED
  BY <1>1, Zenon DEF Nothing, Visit

\* The first keys are published, and no request is on its way.
LEMMA AccessInitInv == AccessInit => AInv
<1> SUFFICES ASSUME AccessInit PROVE AInv
  OBVIOUS
<1>1. CacheInv
  BY AccessConstants DEF AccessInit, CacheInv, Since
<1>2. Nothing \in Visit
  BY NothingIsVisit
<1>3. visit \in [Visitors -> Visit]
  BY <1>2 DEF AccessInit
<1>4. ASSUME NEW v \in Visitors PROVE RequestInv(visit[v]) /\ ScopeInv(visit[v])
  <2>1. visit[v] = Nothing /\ time = 1
    BY DEF AccessInit
  <2> QED
    BY <2>1, NothingIsVisit DEF RequestInv, ScopeInv
<1> QED
  BY <1>1, <1>3, <1>4, AccessConstants DEF AInv, AccessInit

\* Time passes only while no fetch is overdue.
LEMMA PassInv == AInv /\ Pass => AInv'
<1> SUFFICES ASSUME AInv, Pass PROVE AInv'
  OBVIOUS
<1> USE DEF AInv, Pass
<1>1. CacheInv'
  BY AccessConstants DEF CacheInv, Since
<1>2. ASSUME NEW v \in Visitors PROVE RequestInv(visit[v])'
  <2>1. visit[v] \in Visit /\ RequestInv(visit[v]) /\ time \in Nat
    BY DEF CacheInv
  <2> QED
    BY <2>1, AccessConstants DEF RequestInv, Since, Visit
<1>3. ASSUME NEW v \in Visitors PROVE ScopeInv(visit[v])'
  BY Zenon DEF ScopeInv
<1> QED
  BY <1>1, <1>2, <1>3

\* A withdrawal is dated now, so no date in the past is lost.
LEMMA RotateInv == AInv /\ Rotate => AInv'
<1> SUFFICES ASSUME AInv, Rotate PROVE AInv'
  OBVIOUS
<1> USE DEF AInv
<1>1. PICK next \in SUBSET {k \in KeyIds : withdrawn[k] = 0} :
        /\ published' = next
        /\ withdrawn' = [k \in KeyIds |-> IF k \in published \ next THEN time ELSE withdrawn[k]]
  BY DEF Rotate
<1>2. /\ UNCHANGED <<authMode, time, keys, keysUntil, visit, owners>>
      /\ time \in Nat /\ withdrawn \in [KeyIds -> Nat] /\ keysUntil \in Nat
  BY DEF Rotate, CacheInv
<1>3. ASSUME NEW k \in KeyIds, NEW t \in Int, t <= time, Since(k, t) PROVE Since(k, t)'
  BY <1>1, <1>2, <1>3 DEF Since
<1>4. CacheInv'
  <2>1. ASSUME NEW k \in keys PROVE Since(k, keysUntil - TTL - FetchTime)'
    BY <1>2, <1>3, AccessConstants DEF CacheInv
  <2> QED
    BY <1>1, <1>2, <2>1 DEF CacheInv
<1>5. ASSUME NEW v \in Visitors PROVE RequestInv(visit[v])'
  <2> DEFINE q == visit[v]
  <2>1. q \in Visit /\ RequestInv(q) /\ q' = q
    BY <1>2
  <2>2. q.pc = "store" => \A k \in q.fetched : Since(k, q.fetchedAt)'
    BY <2>1, <1>3 DEF RequestInv, Visit
  <2>3. q.pc \in {"admit", "handle", "answered"} /\ authMode = "oidc" =>
          q.token.kid \in KeyIds /\ Since(q.token.kid, q.verifiedAt - TTL - FetchTime)'
    BY <2>1, <1>2, <1>3, AccessConstants DEF RequestInv, Visit
  <2> QED
    BY <2>1, <2>2, <2>3, <1>2 DEF RequestInv, Since
<1>6. ASSUME NEW v \in Visitors PROVE ScopeInv(visit[v])'
  BY <1>2, Zenon DEF ScopeInv
<1> QED
  BY <1>2, <1>4, <1>5, <1>6

-----------------------------------------------------------------------------
\* A step that moves only one request preserves what holds of the others.
LEMMA LocalStep ==
  ASSUME AInv, NEW v \in Visitors, NEW q \in Visit,
         visit' = [visit EXCEPT ![v] = q],
         UNCHANGED <<authMode, time, published, withdrawn, keys, keysUntil, owners>>,
         RequestInv(q), ScopeInv(q)
  PROVE  AInv'
<1>1. CacheInv'
  BY DEF AInv, CacheInv, Since
<1>2. ASSUME NEW u \in Visitors PROVE RequestInv(visit[u])' /\ ScopeInv(visit[u])'
  <2>1. visit'[u] = IF u = v THEN q ELSE visit[u]
    BY DEF AInv
  <2>2. RequestInv(visit'[u]) /\ ScopeInv(visit'[u])
    BY <2>1 DEF AInv
  <2> QED
    BY <2>2, Zenon DEF RequestInv, ScopeInv, Since
<1> QED
  BY <1>1, <1>2 DEF AInv

\* An error, or the end of an answered request.
LEMMA LeaveInv ==
  ASSUME AInv, NEW v \in Visitors, Leave(v),
         UNCHANGED <<authMode, time, published, withdrawn, keys, keysUntil, owners>>
  PROVE  AInv'
<1>1. Nothing \in Visit
  BY NothingIsVisit
<1>2. RequestInv(Nothing) /\ ScopeInv(Nothing)
  <2>1. time \in Nat
    BY DEF AInv, CacheInv
  <2> QED
    BY <2>1, NothingIsVisit DEF RequestInv, ScopeInv
<1> QED
  BY <1>1, <1>2, LocalStep, Zenon DEF Leave

\* The key chosen was published no longer ago than a cached set lives.
LEMMA VerifiedInv ==
  ASSUME AInv, NEW v \in Visitors, Verified(v), visit[v].token.kid \in keys,
         time <= keysUntil + FetchTime - TTL \/ time < keysUntil,
         UNCHANGED <<authMode, time, published, withdrawn, keys, keysUntil, owners>>
  PROVE  AInv'
<1> DEFINE q == [visit[v] EXCEPT !.pc = "admit", !.verifiedAt = time, !.fetchedAt = 0]
<1>1. /\ visit[v] \in Visit /\ visit \in [Visitors -> Visit] /\ time \in Nat
      /\ keysUntil \in Nat /\ withdrawn \in [KeyIds -> Nat] /\ keys \in SUBSET KeyIds
      /\ Since(visit[v].token.kid, keysUntil - TTL - FetchTime)
  BY DEF AInv, CacheInv
<1>2. q \in Visit
  BY <1>1, Zenon DEF Visit, Steps
<1>3. /\ q.pc = "admit" /\ q.verifiedAt = time /\ q.token = visit[v].token
  BY <1>1 DEF Visit
<1>4. Since(q.token.kid, q.verifiedAt - TTL - FetchTime)
  BY <1>1, <1>3, AccessConstants DEF Since
<1>5. RequestInv(q)
  BY <1>1, <1>3, <1>4 DEF RequestInv
<1>6. ScopeInv(q)
  BY <1>3 DEF ScopeInv
<1>7. visit' = [visit EXCEPT ![v] = q]
  BY <1>1, Zenon DEF Verified, Visit
<1> HIDE DEF q
<1> QED
  BY <1>2, <1>5, <1>6, <1>7, LocalStep, Zenon

\* A request that arrives has nothing yet; a trusted ingress needs no key.
LEMMA ArriveInv == ASSUME AInv, NEW v \in Visitors, Arrive(v) PROVE AInv'
<1>1. PICK token \in Tokens :
        visit' = [visit EXCEPT ![v].pc = IF authMode = "oidc" THEN "verify" ELSE "admit", ![v].token = token]
  BY Zenon DEF Arrive
<1> DEFINE q == [visit[v] EXCEPT !.pc = IF authMode = "oidc" THEN "verify" ELSE "admit", !.token = token]
<1>2. visit[v] \in Visit /\ visit \in [Visitors -> Visit] /\ RequestInv(visit[v])
  BY DEF AInv
<1>3. q \in Visit
  BY <1>2, Zenon DEF Visit, Steps
<1>4. /\ q.pc = IF authMode = "oidc" THEN "verify" ELSE "admit"
      /\ q.verifiedAt = visit[v].verifiedAt
  BY <1>2 DEF Visit
<1>5. RequestInv(q) /\ ScopeInv(q)
  BY <1>2, <1>4 DEF RequestInv, ScopeInv
<1>6. visit' = [visit EXCEPT ![v] = q]
  BY <1>1, <1>2, Zenon DEF Visit
<1> HIDE DEF q
<1> QED
  BY <1>3, <1>5, <1>6, LocalStep, Zenon DEF Arrive

\* A fresh key is used, or the key set fetched.
LEMMA KeyForInv == ASSUME AInv, NEW v \in Visitors, KeyFor(v) PROVE AInv'
<1>1. CASE Leave(v)
  BY <1>1, LeaveInv DEF KeyFor
<1>2. CASE KeyCached(visit[v].token.kid) /\ Verified(v)
  BY <1>2, VerifiedInv DEF KeyFor, KeyCached
<1>3. CASE visit' = [visit EXCEPT ![v].pc = "fetch"]
  <2> DEFINE q == [visit[v] EXCEPT !.pc = "fetch"]
  <2>1. visit[v] \in Visit /\ visit \in [Visitors -> Visit] /\ RequestInv(visit[v])
    BY DEF AInv
  <2>2. q \in Visit /\ q.pc = "fetch" /\ q.verifiedAt = visit[v].verifiedAt
    BY <2>1 DEF Visit, Steps
  <2>3. RequestInv(q) /\ ScopeInv(q)
    BY <2>1, <2>2 DEF RequestInv, ScopeInv
  <2>4. visit' = [visit EXCEPT ![v] = q]
    BY <1>3, <2>1 DEF Visit
  <2> HIDE DEF q
  <2> QED
    BY <2>2, <2>3, <2>4, LocalStep, Zenon DEF KeyFor
<1> QED
  BY <1>1, <1>2, <1>3 DEF KeyFor

\* A fetched set is dated by its fetch.
LEMMA FetchInv == ASSUME AInv, NEW v \in Visitors, FetchJSON(v) PROVE AInv'
<1>1. CASE Leave(v)
  BY <1>1, LeaveInv DEF FetchJSON
<1>2. CASE visit' = [visit EXCEPT ![v].pc = "store", ![v].fetched = published, ![v].fetchedAt = time]
  <2> DEFINE q == [visit[v] EXCEPT !.pc = "store", !.fetched = published, !.fetchedAt = time]
  <2>1. /\ visit[v] \in Visit /\ visit \in [Visitors -> Visit] /\ RequestInv(visit[v])
        /\ time \in Nat /\ published \in SUBSET KeyIds
    BY DEF AInv, CacheInv
  <2>2. q \in Visit
    BY <2>1, Zenon DEF Visit, Steps
  <2>3. q.pc = "store" /\ q.verifiedAt = visit[v].verifiedAt /\ q.fetched = published /\ q.fetchedAt = time
    BY <2>1 DEF Visit
  <2>4. RequestInv(q) /\ ScopeInv(q)
    BY <2>1, <2>3, AccessConstants DEF RequestInv, ScopeInv, Since
  <2>5. visit' = [visit EXCEPT ![v] = q]
    BY <1>2, <2>1, Zenon DEF Visit
  <2> HIDE DEF q
  <2> QED
    BY <2>2, <2>4, <2>5, LocalStep, Zenon DEF FetchJSON
<1> QED
  BY <1>1, <1>2 DEF FetchJSON

\* After its own store a request finds a set stored then or later.
LEMMA KeyForAgainInv == ASSUME AInv, NEW v \in Visitors, KeyForAgain(v) PROVE AInv'
<1>1. CASE Leave(v)
  BY <1>1, LeaveInv DEF KeyForAgain
<1>2. CASE visit[v].token.kid \in keys /\ Verified(v)
  <2>1. visit[v] \in Visit /\ RequestInv(visit[v]) /\ time \in Nat /\ keysUntil \in Nat /\ visit[v].pc = "reread"
    BY DEF AInv, CacheInv, KeyForAgain
  <2>2. time <= keysUntil + FetchTime - TTL
    BY <2>1, AccessConstants DEF RequestInv, Visit
  <2> QED
    BY <1>2, <2>2, VerifiedInv DEF KeyForAgain
<1> QED
  BY <1>1, <1>2 DEF KeyForAgain

\* Whoever is admitted has a tenant.
LEMMA AdmitInv == ASSUME AInv, NEW v \in Visitors, Admit(v) PROVE AInv'
<1>1. CASE Leave(v)
  BY <1>1, LeaveInv DEF Admit
<1>2. ASSUME NEW c \in APICalls, Identified(visit[v].token, c),
             visit' = [visit EXCEPT ![v].pc = "handle", ![v].call = c]
      PROVE  AInv'
  <2> DEFINE q == [visit[v] EXCEPT !.pc = "handle", !.call = c]
  <2>1. visit[v] \in Visit /\ visit \in [Visitors -> Visit] /\ RequestInv(visit[v]) /\ visit[v].pc = "admit"
    BY DEF AInv, Admit
  <2>2. q \in Visit
    BY <2>1, Zenon DEF Visit, Steps
  <2>3. q.pc = "handle" /\ q.verifiedAt = visit[v].verifiedAt /\ q.token = visit[v].token
    BY <2>1 DEF Visit
  <2>4. visit[v].token.tenant # ""
    BY <1>2, Zenon DEF Identified, PrincipalFromClaims, TrustedIngress, ValidPrincipal
  <2>5. RequestInv(q) /\ ScopeInv(q)
    BY <2>1, <2>3, <2>4, Zenon DEF RequestInv, ScopeInv
  <2>6. visit' = [visit EXCEPT ![v] = q]
    BY <1>2, <2>1, Zenon DEF Visit
  <2> HIDE DEF q
  <2> QED
    BY <2>2, <2>5, <2>6, LocalStep, Zenon DEF Admit
<1> QED
  BY <1>1, <1>2 DEF Admit

-----------------------------------------------------------------------------
\* An answer keeps the key of its request.
LEMMA AnswerRecord ==
  ASSUME AInv, NEW v \in Visitors, visit[v].pc = "handle", NEW tasks \in SUBSET ScopedTasks, Answer(v, tasks)
  PROVE  \E q \in Visit :
           /\ visit' = [visit EXCEPT ![v] = q]
           /\ q.pc = "answered" /\ q.seen = tasks /\ q.token = visit[v].token
           /\ q.token.tenant # "" /\ RequestInv(q)
<1> DEFINE q == [visit[v] EXCEPT !.pc = "answered", !.call = NoCall, !.seen = tasks]
<1>1. visit[v] \in Visit /\ visit \in [Visitors -> Visit] /\ RequestInv(visit[v]) /\ ScopeInv(visit[v])
  BY DEF AInv
<1>2. q \in Visit
  BY <1>1, Zenon DEF Visit, Steps
<1>3. q.pc = "answered" /\ q.seen = tasks /\ q.token = visit[v].token /\ q.verifiedAt = visit[v].verifiedAt
  BY <1>1 DEF Visit
<1>4. RequestInv(q) /\ q.token.tenant # ""
  BY <1>1, <1>3, Zenon DEF RequestInv, ScopeInv
<1>5. visit' = [visit EXCEPT ![v] = q]
  BY <1>1, Zenon DEF Answer, Visit
<1> HIDE DEF q
<1> QED
  BY <1>2, <1>3, <1>4, <1>5, Zenon

\* What is shown is what the scoped repository returned.
LEMMA HandleInv == ASSUME AInv, NEW v \in Visitors, Handle(v) PROVE AInv'
<1>1. PICK tasks \in SUBSET ScopedTasks :
        /\ Answer(v, tasks)
        /\ \A t \in tasks : OwnsProject(visit[v].token, t)
  <2> DEFINE c == visit[v].call
             one == {t \in {c.task} : ScopedGet(visit[v].token, t)}
  <2>1. CASE Answer(v, one)
    <3>1. one \in SUBSET ScopedTasks /\ \A t \in one : OwnsProject(visit[v].token, t)
      BY DEF ScopedGet
    <3> QED
      BY <2>1, <3>1
  <2>2. CASE Answer(v, ScopedList(visit[v].token))
    BY <2>2 DEF ScopedList
  <2>3. CASE Answer(v, {})
    BY <2>3
  <2> QED
    BY <2>1, <2>2, <2>3 DEF Handle
<1>2. PICK q \in Visit :
        /\ visit' = [visit EXCEPT ![v] = q]
        /\ q.pc = "answered" /\ q.seen = tasks /\ q.token = visit[v].token
        /\ q.token.tenant # "" /\ RequestInv(q)
  BY <1>1, AnswerRecord, Zenon DEF Handle
<1>3. ScopeInv(q)
  BY <1>1, <1>2, Zenon DEF ScopeInv, OwnsProject
<1> QED
  BY <1>2, <1>3, LocalStep, Zenon DEF Handle

\* A task is created for its creator's project and no owned task changes.
LEMMA CreateInv == ASSUME AInv, NEW v \in Visitors, CreateOwned(v) PROVE AInv'
<1> DEFINE owner == [tenant |-> visit[v].token.tenant, project |-> visit[v].token.project,
                     creator |-> visit[v].token.subject]
<1>1. PICK t \in ScopedTasks : owners[t] = NoOne /\ owners' = [owners EXCEPT ![t] = owner] /\ Answer(v, {t})
  BY Zenon DEF CreateOwned
<1>2. PICK q \in Visit :
        /\ visit' = [visit EXCEPT ![v] = q]
        /\ q.pc = "answered" /\ q.seen = {t} /\ q.token = visit[v].token
        /\ q.token.tenant # "" /\ RequestInv(q)
  <2>1. {t} \in SUBSET ScopedTasks
    OBVIOUS
  <2> QED
    BY <1>1, <2>1, AnswerRecord, ZenonT(30) DEF CreateOwned
<1>3. UNCHANGED <<authMode, time, published, withdrawn, keys, keysUntil>>
  BY DEF CreateOwned
<1>4. CacheInv'
  BY <1>3 DEF AInv, CacheInv, Since
<1>5. /\ visit \in [Visitors -> Visit] /\ visit' \in [Visitors -> Visit]
      /\ DOMAIN owners = ScopedTasks /\ owners' = [s \in ScopedTasks |-> owners'[s]]
  BY <1>1, <1>2, Zenon DEF AInv
<1>6. /\ owners'[t].tenant = q.token.tenant /\ owners'[t].project = q.token.project
      /\ \A s \in ScopedTasks : s # t => owners'[s] = owners[s]
  BY <1>1, <1>2, <1>5, Zenon
<1>7. ASSUME NEW u \in Visitors PROVE RequestInv(visit[u])' /\ ScopeInv(visit[u])'
  <2>1. CASE u = v
    <3>1. visit'[u] = q
      BY <1>2, <1>5, <2>1, Zenon
    <3> QED
      BY <3>1, <1>2, <1>3, <1>6, Zenon DEF RequestInv, ScopeInv, Since
  <2>2. CASE u # v
    <3>1. visit'[u] = visit[u] /\ visit[u] \in Visit /\ RequestInv(visit[u]) /\ ScopeInv(visit[u])
      BY <1>2, <1>5, <2>2, Zenon DEF AInv
    <3>2. visit[u].pc = "answered" => t \notin visit[u].seen
      <4>1. NoOne.tenant = ""
        BY DEF NoOne
      <4> QED
        BY <1>1, <3>1, <4>1, Zenon DEF ScopeInv
    <3>3. visit[u].seen \subseteq ScopedTasks
      BY <3>1 DEF Visit
    <3> QED
      BY <3>1, <3>2, <3>3, <1>3, <1>6, Zenon DEF RequestInv, ScopeInv, Since
  <2> QED
    BY <2>1, <2>2
<1> QED
  BY <1>4, <1>5, <1>7 DEF AInv

\* A set is stored within the time its fetch is given.
LEMMA RefreshInv == ASSUME AInv, NEW v \in Visitors, Refresh(v) PROVE AInv'
<1>1. CASE visit[v].fetched = {}
  BY <1>1, LeaveInv DEF Refresh
<1>2. CASE visit[v].fetched # {}
  <2> DEFINE q == [visit[v] EXCEPT !.pc = "reread", !.fetched = {}]
  <2>1. /\ visit' = [visit EXCEPT ![v].pc = "reread", ![v].fetched = {}]
        /\ keys' = visit[v].fetched /\ keysUntil' = time + TTL
        /\ UNCHANGED <<authMode, time, published, withdrawn, owners>> /\ visit[v].pc = "store"
    BY <1>2 DEF Refresh
  <2>2. /\ visit[v] \in Visit /\ visit \in [Visitors -> Visit] /\ RequestInv(visit[v])
        /\ time \in Nat /\ keysUntil \in Nat /\ keysUntil <= time + TTL /\ withdrawn \in [KeyIds -> Nat]
    BY DEF AInv, CacheInv
  <2>3. /\ visit[v].fetchedAt \in Nat /\ visit[v].fetched \in SUBSET KeyIds
        /\ visit[v].fetchedAt <= time /\ time <= visit[v].fetchedAt + FetchTime
    BY <2>1, <2>2 DEF RequestInv, Visit
  <2>4. \A k \in visit[v].fetched : Since(k, time + TTL - TTL - FetchTime)
    BY <2>1, <2>2, <2>3, AccessConstants DEF RequestInv, Since
  <2>5. CacheInv'
    BY <2>1, <2>2, <2>3, <2>4, AccessConstants DEF AInv, CacheInv, Since
  <2>6. q \in Visit
    BY <2>2, Zenon DEF Visit, Steps
  <2>7. q.pc = "reread" /\ q.verifiedAt = visit[v].verifiedAt /\ q.fetchedAt = visit[v].fetchedAt
    BY <2>2 DEF Visit
  <2>8. visit' = [visit EXCEPT ![v] = q]
    BY <2>1, <2>2, Zenon DEF Visit
  <2> HIDE DEF q
  <2>9. ASSUME NEW u \in Visitors PROVE RequestInv(visit[u])' /\ ScopeInv(visit[u])'
    <3>1. CASE u = v
      <4>1. visit'[u] = q
        BY <2>2, <2>8, <3>1
      <4>2. /\ q.fetchedAt <= time /\ time <= q.fetchedAt + FetchTime /\ q.fetchedAt + TTL <= time + TTL
            /\ q.verifiedAt <= time
        BY <2>2, <2>3, <2>7, AccessConstants DEF RequestInv
      <4> QED
        BY <4>1, <4>2, <2>1, <2>7 DEF RequestInv, ScopeInv
    <3>2. CASE u # v
      <4>1. /\ visit'[u] = visit[u] /\ visit[u] \in Visit /\ RequestInv(visit[u]) /\ ScopeInv(visit[u])
            /\ visit[u].fetchedAt \in Nat
        BY <2>2, <2>8, <3>2 DEF AInv, Visit
      <4>2. visit[u].pc = "reread" => visit[u].fetchedAt + TTL <= time + TTL
        BY <4>1, <2>2, AccessConstants DEF RequestInv
      <4>3. ScopeInv(visit[u])'
        BY <4>1, <2>1, Zenon DEF ScopeInv
      <4>4. \A k, t : Since(k, t)' <=> Since(k, t)
        BY <2>1 DEF Since
      <4>5. RequestInv(visit[u])'
        BY <4>1, <4>2, <4>4, <2>1 DEF RequestInv
      <4> QED
        BY <4>3, <4>5
    <3> QED
      BY <3>1, <3>2
  <2> QED
    BY <2>1, <2>2, <2>5, <2>6, <2>8, <2>9, Zenon DEF AInv
<1> QED
  BY <1>1, <1>2

-----------------------------------------------------------------------------
\* AInv is inductive.
LEMMA AccessStepInv == AInv /\ [AccessNext]_accessVars => AInv'
<1> SUFFICES ASSUME AInv, [AccessNext]_accessVars PROVE AInv'
  OBVIOUS
<1>1. CASE Pass \/ Rotate
  BY <1>1, PassInv, RotateInv
<1>2. ASSUME NEW v \in Visitors,
             \/ Arrive(v) \/ KeyFor(v) \/ FetchJSON(v) \/ Refresh(v) \/ KeyForAgain(v)
             \/ Admit(v) \/ CreateOwned(v) \/ Handle(v) \/ Depart(v)
      PROVE  AInv'
  <2>1. CASE Depart(v)
    BY <2>1, LeaveInv DEF Depart
  <2> QED
    BY <1>2, <2>1, ArriveInv, KeyForInv, FetchInv, RefreshInv, KeyForAgainInv, AdmitInv, CreateInv, HandleInv
<1>3. CASE UNCHANGED accessVars
  BY <1>3, Zenon DEF accessVars, AInv, CacheInv, RequestInv, ScopeInv, Since
<1> QED
  BY <1>1, <1>2, <1>3 DEF AccessNext

\* Whoever is answered was verified with a key the issuer published at most
\* TTL + FetchTime before (jwks.go, keyFor and refresh), and is shown tasks of
\* its own project only, for any number of concurrent refreshes.
THEOREM KeysAreCurrent == AccessSpec => []AnsweredUnderCurrentKey
<1>1. AInv => AnsweredUnderCurrentKey
  <2> SUFFICES ASSUME AInv, NEW v \in Visitors, visit[v].pc = "answered"
      PROVE  LET token == visit[v].token
             IN  /\ authMode = "oidc" =>
                      \/ token.kid \in published
                      \/ visit[v].verifiedAt <= withdrawn[token.kid] + TTL + FetchTime
                 /\ \A t \in visit[v].seen : owners[t].tenant = token.tenant /\ owners[t].project = token.project
    BY DEF AnsweredUnderCurrentKey
  <2>1. /\ visit[v] \in Visit /\ RequestInv(visit[v]) /\ ScopeInv(visit[v])
        /\ withdrawn \in [KeyIds -> Nat] /\ visit[v].verifiedAt \in Nat
    BY DEF AInv, CacheInv, Visit
  <2>2. \A t \in visit[v].seen : owners[t].tenant = visit[v].token.tenant /\ owners[t].project = visit[v].token.project
    BY <2>1, Zenon DEF ScopeInv
  <2>3. ASSUME authMode = "oidc" PROVE visit[v].token.kid \in KeyIds /\ Since(visit[v].token.kid, visit[v].verifiedAt - TTL - FetchTime)
    BY <2>1, <2>3 DEF RequestInv
  <2>4. ASSUME authMode = "oidc", visit[v].token.kid \notin published
        PROVE  visit[v].verifiedAt <= withdrawn[visit[v].token.kid] + TTL + FetchTime
    <3>1. withdrawn[visit[v].token.kid] \in Nat
      BY <2>1, <2>3, <2>4
    <3> QED
      BY <2>1, <2>3, <2>4, <3>1, AccessConstants DEF Since
  <2> QED
    BY <2>2, <2>4
<1> QED
  BY <1>1, AccessInitInv, AccessStepInv, PTL DEF AccessSpec

-----------------------------------------------------------------------------
(* The tool gateway.                                                       *)
Names == {""} \cup STRING

GrantRows == [task : Names, tool : Names, action : Names, revoked : BOOLEAN, expired : BOOLEAN]

LeaseRows == [task : Names, tool : Names, revoked : BOOLEAN]

AuditStatuses == {"DENIED", "WAITING_APPROVAL", "PLANNED", "FAILED"}

Named == {""} \cup {Body[c].approval : c \in Calls}

AuditRows == [call : Calls, status : AuditStatuses, approval : Named, lease : BOOLEAN]

Refusals == {"not-found", "denied", "approval-required", "invalid", "error"}

CallStates == {"idle", "approval", "plan", "issue", "execute", "revoke", "done"}

CallRows ==
  [pc : CallStates, decision : {NoDecision} \cup {EvaluatePolicy(Body[c]) : c \in Calls},
   answer : Refusals \cup {"none", "created"}]

ToolTypes ==
  /\ approvals \in [Approvals -> GrantRows]
  /\ leases \in [Calls -> LeaseRows]
  /\ audit \in Seq(AuditRows)
  /\ call \in [Calls -> CallRows]

(* What the gateway knows of a call: before its sandbox run it has left no *)
(* event, it holds a live lease exactly between issuing and revoking, the  *)
(* policy has allowed it from the evaluation on, and past the approval     *)
(* step an approval, where one is asked for, has been in force.            *)
CallOK(c) ==
  /\ call[c].pc \notin {"revoke", "done"} => EventsOf(c) = {} /\ call[c].answer = "none"
  /\ leases[c].revoked <=> call[c].pc \notin {"execute", "revoke"}
  /\ call[c].pc \notin {"idle", "done"} => EvaluatePolicy(Body[c]).allowed
  /\ call[c].pc \in {"plan", "issue", "execute", "revoke"} =>
       (EvaluatePolicy(Body[c]).approval => c \in covered)
  /\ call[c].pc # "idle" /\ c \in InForce(approvals) => c \in covered
  /\ \A i, j \in EventsOf(c) : i = j
  /\ (\E i \in EventsOf(c) : audit[i].lease) =>
       EvaluatePolicy(Body[c]).allowed /\ (EvaluatePolicy(Body[c]).approval => c \in covered)
  /\ call[c].answer = "created" => \E i \in EventsOf(c) : audit[i].status = "PLANNED"

ToolInv == ToolTypes /\ \A c \in Calls : CallOK(c)

LEMMA BodyOf ==
  ASSUME NEW c \in Calls
  PROVE  Body[c].task \in STRING /\ Body[c].tool \in STRING
BY SMTT(30), ToolConstants

(* A call is untouched by a step that leaves its row, its lease and its    *)
(* events alone, keeps what was covered and covers what comes into force.  *)
LEMMA CallStays ==
  ASSUME NEW c \in Calls, CallOK(c),
         call'[c] = call[c], leases'[c] = leases[c], EventsOf(c)' = EventsOf(c),
         \A i \in EventsOf(c) : audit'[i] = audit[i],
         covered \subseteq covered',
         c \in InForce(approvals)' => c \in InForce(approvals) \/ c \in covered' \/ call[c].pc = "idle"
  PROVE  CallOK(c)'
BY SMTT(30) DEF CallOK

(* The audit log only grows, by one event of one call.                     *)
LEMMA AuditGrows ==
  ASSUME audit \in Seq(AuditRows), NEW c \in Calls, NEW status \in AuditStatuses,
         NEW approval \in Named, NEW lease \in BOOLEAN,
         audit' = Audited(c, status, approval, lease)
  PROVE  /\ audit' \in Seq(AuditRows)
         /\ \A k \in Calls \ {c} : EventsOf(k)' = EventsOf(k)
         /\ EventsOf(c)' = EventsOf(c) \cup {Len(audit) + 1}
         /\ \A i \in DOMAIN audit : audit'[i] = audit[i]
         /\ audit'[Len(audit) + 1].status = status /\ audit'[Len(audit) + 1].lease = lease
  <1> DEFINE e == [call |-> c, status |-> status, approval |-> approval, lease |-> lease]
  <1>1. e \in AuditRows
    BY DEF AuditRows
  <1>2. /\ audit' = Append(audit, e)
        /\ e.call = c /\ e.status = status /\ e.lease = lease
    BY DEF Audited
  <1> HIDE DEF e
  <1>3. /\ audit' \in Seq(AuditRows)
        /\ DOMAIN audit = 1 .. Len(audit) /\ DOMAIN audit' = 1 .. (Len(audit) + 1)
        /\ Len(audit) \in Nat
        /\ \A i \in 1 .. Len(audit) : audit'[i] = audit[i]
        /\ audit'[Len(audit) + 1] = e
    BY <1>1, <1>2
  <1>4. 1 .. (Len(audit) + 1) = (1 .. Len(audit)) \cup {Len(audit) + 1}
    BY <1>3
  <1> QED
    BY <1>2, <1>3, <1>4 DEF EventsOf

LEMMA PutApprovalStep ==
  ASSUME ToolInv, NEW a \in Approvals, PutApproval(a)
  PROVE  ToolInv'
  <1>1. PICK record \in Grants : approvals' = [approvals EXCEPT ![a] = record]
    BY Zenon DEF PutApproval
  <1>2. ToolTypes'
    BY <1>1, ToolConstants, Zenon DEF PutApproval, ToolInv, ToolTypes, GrantRows, Names
  <1>3. ASSUME NEW c \in Calls PROVE CallOK(c)'
    <2>1. covered \subseteq covered' /\ (c \in InForce(approvals') => c \in covered' \/ call[c].pc = "idle")
      BY DEF PutApproval
    <2>2. InForce(approvals)' = InForce(approvals') /\ EventsOf(c)' = EventsOf(c)
      BY DEF PutApproval, EventsOf, InForce
    <2> QED
      BY <2>1, <2>2, CallStays DEF PutApproval, ToolInv
  <1> QED
    BY <1>2, <1>3 DEF ToolInv

LEMMA ExpireApprovalStep ==
  ASSUME ToolInv, NEW a \in Approvals, ExpireApproval(a)
  PROVE  ToolInv'
  <1>1. /\ approvals \in [Approvals -> GrantRows]
        /\ approvals' = [approvals EXCEPT ![a].expired = TRUE]
    BY DEF ExpireApproval, ToolInv, ToolTypes
  <1>2. ToolTypes'
    BY <1>1, Zenon DEF ExpireApproval, ToolInv, ToolTypes, GrantRows
  <1>3. InForce(approvals)' \subseteq InForce(approvals)
    BY <1>1 DEF InForce, GrantRows
  <1>4. ASSUME NEW c \in Calls PROVE CallOK(c)'
    <2>1. EventsOf(c)' = EventsOf(c)
      BY DEF ExpireApproval, EventsOf
    <2> QED
      BY <1>3, <2>1, CallStays, Zenon DEF ExpireApproval, ToolInv
  <1> QED
    BY <1>2, <1>4 DEF ToolInv

(* A step of one call leaves the other calls alone.                        *)
LEMMA OtherCalls ==
  ASSUME ToolInv, NEW c \in Calls, NEW k \in Calls \ {c},
         call'[k] = call[k], leases'[k] = leases[k], approvals' = approvals,
         covered \subseteq covered',
         \/ audit' = audit
         \/ \E status \in AuditStatuses, approval \in Named, lease \in BOOLEAN :
              audit' = Audited(c, status, approval, lease)
  PROVE  CallOK(k)'
  <1>1. /\ EventsOf(k)' = EventsOf(k)
        /\ \A i \in EventsOf(k) : audit'[i] = audit[i]
    <2>1. CASE audit' = audit
      BY <2>1, SMTT(30) DEF EventsOf
    <2>2. CASE \E status \in AuditStatuses, approval \in Named, lease \in BOOLEAN :
                 audit' = Audited(c, status, approval, lease)
      BY <2>2, AuditGrows DEF ToolInv, ToolTypes, EventsOf
    <2> QED
      BY <2>1, <2>2
  <1>2. InForce(approvals)' = InForce(approvals)
    BY SMTT(30) DEF InForce
  <1> QED
    BY <1>1, <1>2, CallStays DEF ToolInv

(* A call that ends before it has run: a refusal, audited or not.          *)
LEMMA CallEnds ==
  ASSUME ToolInv, NEW c \in Calls, NEW refusal \in Refusals,
         call[c].pc \in {"idle", "approval", "plan", "issue"},
         call' = End(c, refusal), leases' = leases, approvals' = approvals,
         covered \subseteq covered', c \in InForce(approvals) => c \in covered',
         \/ audit' = audit
         \/ \E status \in AuditStatuses, approval \in Named : audit' = Audited(c, status, approval, FALSE)
  PROVE  ToolInv'
  <1>1. /\ call \in [Calls -> CallRows] /\ audit \in Seq(AuditRows)
        /\ EventsOf(c) = {} /\ leases[c].revoked
    BY Zenon DEF ToolInv, ToolTypes, CallOK
  <1>2. /\ call' \in [Calls -> CallRows]
        /\ call'[c].pc = "done" /\ call'[c].answer = refusal
        /\ \A k \in Calls \ {c} : call'[k] = call[k]
    BY <1>1, Zenon DEF End, CallRows, CallStates, Refusals
  <1>3. /\ audit' \in Seq(AuditRows)
        /\ \A i, j \in EventsOf(c)' : i = j
        /\ \A i \in EventsOf(c)' : ~audit'[i].lease
    <2>1. CASE audit' = audit
      BY <1>1, <2>1, Zenon DEF EventsOf
    <2>2. CASE \E status \in AuditStatuses, approval \in Named : audit' = Audited(c, status, approval, FALSE)
      BY <1>1, <2>2, AuditGrows, ZenonT(30)
    <2> QED
      BY <2>1, <2>2, ZenonT(30)
  <1>4. InForce(approvals)' = InForce(approvals)
    BY DEF InForce
  <1>5. CallOK(c)'
    BY <1>1, <1>2, <1>3, <1>4, Zenon DEF CallOK, Refusals
  <1>6. ASSUME NEW k \in Calls \ {c} PROVE CallOK(k)'
    BY <1>2, OtherCalls, Zenon
  <1>7. ToolTypes'
    BY <1>2, <1>3 DEF ToolInv, ToolTypes
  <1> QED
    BY <1>5, <1>6, <1>7, SMTT(30) DEF ToolInv

(* A call that goes on, before it holds a lease.                           *)
LEMMA CallGoesOn ==
  ASSUME ToolInv, NEW c \in Calls, NEW entry \in CallRows, call' = [call EXCEPT ![c] = entry],
         entry.answer = call[c].answer, entry.pc \in {"approval", "plan", "issue"},
         call[c].pc \in {"idle", "approval", "plan"},
         leases' = leases, approvals' = approvals, audit' = audit,
         covered \subseteq covered', c \in InForce(approvals) => c \in covered',
         EvaluatePolicy(Body[c]).allowed,
         entry.pc \in {"plan", "issue"} => (EvaluatePolicy(Body[c]).approval => c \in covered')
  PROVE  ToolInv'
  <1>1. /\ call \in [Calls -> CallRows]
        /\ EventsOf(c) = {} /\ leases[c].revoked /\ call[c].answer = "none"
    BY DEF ToolInv, ToolTypes, CallOK
  <1>2. /\ call' \in [Calls -> CallRows] /\ call'[c] = entry
        /\ \A k \in Calls \ {c} : call'[k] = call[k]
    BY SMTT(30), <1>1
  <1>3. InForce(approvals)' = InForce(approvals) /\ EventsOf(c)' = EventsOf(c)
    BY SMTT(30) DEF InForce, EventsOf
  <1>4. CallOK(c)'
    BY <1>1, <1>2, <1>3, SMTT(30) DEF CallOK
  <1>5. ASSUME NEW k \in Calls \ {c} PROVE CallOK(k)'
    BY <1>2, OtherCalls, Zenon
  <1> QED
    BY <1>2, <1>4, <1>5 DEF ToolInv, ToolTypes

LEMMA EvaluateCallStep ==
  ASSUME ToolInv, NEW c \in Calls, EvaluateCall(c)
  PROVE  ToolInv'
  <1> DEFINE decision == EvaluatePolicy(Body[c])
  <1>1. /\ call \in [Calls -> CallRows] /\ call[c].pc = "idle"
        /\ leases' = leases /\ approvals' = approvals
        /\ covered \subseteq covered' /\ (c \in InForce(approvals) => c \in covered')
    BY Zenon DEF ToolInv, ToolTypes, EvaluateCall
  <1>2. CASE call' = End(c, "not-found") /\ audit' = audit
    BY <1>1, <1>2, CallEnds DEF Refusals
  <1>3. CASE call' = End(c, "denied") /\ audit' = Audited(c, "DENIED", "", FALSE)
    <2>1. \E status \in AuditStatuses, approval \in Named : audit' = Audited(c, status, approval, FALSE)
      BY <1>3, Zenon DEF AuditStatuses, Named
    <2> QED
      BY <1>1, <1>3, <2>1, CallEnds, Zenon DEF Refusals
  <1>4. CASE call' = End(c, "approval-required") /\ audit' = Audited(c, "WAITING_APPROVAL", "", FALSE)
    <2>1. \E status \in AuditStatuses, approval \in Named : audit' = Audited(c, status, approval, FALSE)
      BY <1>4, Zenon DEF AuditStatuses, Named
    <2> QED
      BY <1>1, <1>4, <2>1, CallEnds, Zenon DEF Refusals
  <1>5. CASE /\ decision.allowed /\ audit' = audit
             /\ call' = [call EXCEPT ![c] = [@ EXCEPT !.decision = decision,
                                               !.pc = IF decision.approval THEN "approval" ELSE "plan"]]
    <2> DEFINE entry == [call[c] EXCEPT !.decision = decision,
                                      !.pc = IF decision.approval THEN "approval" ELSE "plan"]
    <2>1. /\ entry \in CallRows /\ entry.answer = call[c].answer
          /\ entry.pc = IF decision.approval THEN "approval" ELSE "plan"
      BY <1>1, ZenonT(30) DEF CallRows, CallStates
    <2>2. call' = [call EXCEPT ![c] = entry]
      BY <1>5
    <2> HIDE DEF entry
    <2> QED
      BY <1>1, <1>5, <2>1, <2>2, CallGoesOn, Zenon
  <1> QED
    BY <1>2, <1>3, <1>4, <1>5, Zenon DEF EvaluateCall

LEMMA ValidateApprovalStep ==
  ASSUME ToolInv, NEW c \in Calls, ValidateApproval(c)
  PROVE  ToolInv'
  <1> DEFINE a == Body[c].approval
  <1>1. /\ call \in [Calls -> CallRows] /\ call[c].pc = "approval"
        /\ leases' = leases /\ approvals' = approvals /\ covered' = covered
        /\ c \in InForce(approvals) => c \in covered
        /\ EvaluatePolicy(Body[c]).allowed
    BY Zenon DEF ToolInv, ToolTypes, ValidateApproval, CallOK
  <1>2. CASE a \in Approvals /\ ValidApproval(approvals[a], Body[c])
    <2>1. c \in covered
      BY <1>1, <1>2 DEF InForce, ValidApproval
    <2> DEFINE entry == [call[c] EXCEPT !.pc = "plan"]
    <2>2. entry \in CallRows /\ entry.answer = call[c].answer /\ entry.pc = "plan"
      BY <1>1 DEF CallRows, CallStates
    <2>3. call' = [call EXCEPT ![c] = entry] /\ audit' = audit
      BY <1>2 DEF ValidateApproval, Goto
    <2> HIDE DEF entry
    <2> QED
      BY <1>1, <2>1, <2>2, <2>3, CallGoesOn, Zenon
  <1>3. CASE ~(a \in Approvals /\ ValidApproval(approvals[a], Body[c]))
    <2>1. call' = End(c, "approval-required") /\ audit' = Audited(c, "DENIED", "", FALSE)
      BY <1>3, Zenon DEF ValidateApproval
    <2>2. \E status \in AuditStatuses, approval \in Named : audit' = Audited(c, status, approval, FALSE)
      BY <2>1, Zenon DEF AuditStatuses, Named
    <2> QED
      BY <1>1, <2>1, <2>2, CallEnds, ZenonT(30) DEF Refusals
  <1> QED
    BY <1>2, <1>3

LEMMA PlanSandboxStep ==
  ASSUME ToolInv, NEW c \in Calls, PlanSandbox(c)
  PROVE  ToolInv'
  <1>1. /\ call \in [Calls -> CallRows] /\ call[c].pc = "plan"
        /\ leases' = leases /\ approvals' = approvals /\ covered' = covered
        /\ c \in InForce(approvals) => c \in covered
        /\ EvaluatePolicy(Body[c]).allowed
        /\ EvaluatePolicy(Body[c]).approval => c \in covered
    BY Zenon DEF ToolInv, ToolTypes, PlanSandbox, CallOK
  <1>2. CASE ValidSandbox(ToolDefs[Body[c].tool], Body[c])
    <2> DEFINE entry == [call[c] EXCEPT !.pc = "issue"]
    <2>1. entry \in CallRows /\ entry.answer = call[c].answer /\ entry.pc = "issue"
      BY <1>1 DEF CallRows, CallStates
    <2>2. call' = [call EXCEPT ![c] = entry] /\ audit' = audit
      BY <1>2 DEF PlanSandbox, Goto
    <2> HIDE DEF entry
    <2> QED
      BY <1>1, <2>1, <2>2, CallGoesOn, Zenon
  <1>3. CASE ~ValidSandbox(ToolDefs[Body[c].tool], Body[c])
    <2>1. call' = End(c, "invalid") /\ audit' = Audited(c, "DENIED", Body[c].approval, FALSE)
      BY <1>3 DEF PlanSandbox
    <2>2. \E status \in AuditStatuses, approval \in Named : audit' = Audited(c, status, approval, FALSE)
      BY <2>1, Zenon DEF AuditStatuses, Named
    <2> QED
      BY <1>1, <2>1, <2>2, CallEnds, Zenon DEF Refusals
  <1> QED
    BY SMTT(30), <1>2, <1>3

LEMMA IssueStep ==
  ASSUME ToolInv, NEW c \in Calls, Issue(c)
  PROVE  ToolInv'
  <1>1. /\ call \in [Calls -> CallRows] /\ leases \in [Calls -> LeaseRows] /\ call[c].pc = "issue"
        /\ approvals' = approvals /\ audit' = audit /\ covered' = covered
        /\ c \in InForce(approvals) => c \in covered
        /\ EventsOf(c) = {} /\ call[c].answer = "none"
        /\ EvaluatePolicy(Body[c]).allowed
        /\ EvaluatePolicy(Body[c]).approval => c \in covered
    BY Zenon DEF ToolInv, ToolTypes, Issue, CallOK
  <1>2. CASE /\ leases' = [leases EXCEPT ![c] = [task |-> Body[c].task, tool |-> Body[c].tool,
                                                 revoked |-> FALSE]]
             /\ call' = Goto(c, "execute")
    <2>1. /\ call' \in [Calls -> CallRows]
          /\ call'[c].pc = "execute" /\ call'[c].answer = "none"
          /\ \A k \in Calls \ {c} : call'[k] = call[k]
      BY <1>1, <1>2, SMTT(30) DEF Goto, CallRows, CallStates
    <2>2. /\ leases' \in [Calls -> LeaseRows] /\ leases'[c].revoked = FALSE
          /\ \A k \in Calls \ {c} : leases'[k] = leases[k]
      BY <1>1, <1>2, BodyOf, ZenonT(30) DEF LeaseRows, Names
    <2>3. InForce(approvals)' = InForce(approvals) /\ EventsOf(c)' = EventsOf(c)
      BY <1>1, ZenonT(30) DEF InForce, EventsOf
    <2>4. CallOK(c)'
      BY <1>1, <2>1, <2>2, <2>3, Zenon DEF CallOK
    <2>5. ASSUME NEW k \in Calls \ {c} PROVE CallOK(k)'
      BY <1>1, <2>1, <2>2, OtherCalls
    <2> QED
      BY <1>1, <2>1, <2>2, <2>4, <2>5 DEF ToolInv, ToolTypes
  <1>3. CASE call' = End(c, "error") /\ leases' = leases
    BY <1>1, <1>3, CallEnds, SMTT(30) DEF Refusals
  <1> QED
    BY <1>2, <1>3, SMTT(30) DEF Issue

LEMMA ExecuteSandboxStep ==
  ASSUME ToolInv, NEW c \in Calls, ExecuteSandbox(c)
  PROVE  ToolInv'
  <1>1. /\ call \in [Calls -> CallRows] /\ audit \in Seq(AuditRows) /\ call[c].pc = "execute"
        /\ approvals' = approvals /\ leases' = leases /\ covered' = covered
        /\ c \in InForce(approvals) => c \in covered
        /\ EventsOf(c) = {} /\ ~leases[c].revoked
        /\ EvaluatePolicy(Body[c]).allowed
        /\ EvaluatePolicy(Body[c]).approval => c \in covered
    BY DEF ToolInv, ToolTypes, ExecuteSandbox, CallOK
  <1>2. PICK status \in {"PLANNED", "FAILED"} :
          /\ audit' = Audited(c, status, Body[c].approval, TRUE)
          /\ call' = [call EXCEPT ![c] =
                       [@ EXCEPT !.pc = "revoke",
                                 !.answer = IF status = "PLANNED" THEN "created" ELSE "error"]]
    BY Zenon DEF ExecuteSandbox
  <1>3. status \in AuditStatuses /\ Body[c].approval \in Named
    BY Zenon DEF AuditStatuses, Named
  <1>4. /\ audit' \in Seq(AuditRows)
        /\ EventsOf(c)' = {Len(audit) + 1}
        /\ audit'[Len(audit) + 1].status = status
    BY <1>1, <1>2, <1>3, AuditGrows, Zenon
  <1>5. /\ call' \in [Calls -> CallRows]
        /\ call'[c].pc = "revoke"
        /\ call'[c].answer = IF status = "PLANNED" THEN "created" ELSE "error"
        /\ \A k \in Calls \ {c} : call'[k] = call[k]
    BY <1>1, <1>2, ZenonT(30) DEF CallRows, CallStates, Refusals
  <1>6. InForce(approvals)' = InForce(approvals)
    BY <1>1 DEF InForce
  <1>7. CallOK(c)'
    BY <1>1, <1>4, <1>5, <1>6 DEF CallOK
  <1>8. ASSUME NEW k \in Calls \ {c} PROVE CallOK(k)'
    BY <1>1, <1>2, <1>3, <1>5, OtherCalls, Zenon
  <1> QED
    BY <1>1, <1>4, <1>5, <1>7, <1>8, Zenon DEF ToolInv, ToolTypes

LEMMA RevokeStep ==
  ASSUME ToolInv, NEW c \in Calls, Revoke(c)
  PROVE  ToolInv'
  <1>1. /\ call \in [Calls -> CallRows] /\ leases \in [Calls -> LeaseRows] /\ call[c].pc = "revoke"
        /\ approvals' = approvals /\ audit' = audit /\ covered' = covered
        /\ c \in InForce(approvals) => c \in covered
    BY DEF ToolInv, ToolTypes, Revoke, CallOK
  <1>2. /\ call' \in [Calls -> CallRows]
        /\ call'[c].pc = "done" /\ call'[c].answer = call[c].answer
        /\ \A k \in Calls \ {c} : call'[k] = call[k]
    BY <1>1 DEF Revoke, Goto, CallRows, CallStates
  <1>3. /\ leases' \in [Calls -> LeaseRows] /\ leases'[c].revoked
        /\ \A k \in Calls \ {c} : leases'[k] = leases[k]
    BY <1>1, ZenonT(30) DEF Revoke, LeaseRows
  <1>4. InForce(approvals)' = InForce(approvals) /\ EventsOf(c)' = EventsOf(c)
    BY <1>1, Zenon DEF InForce, EventsOf
  <1>5. CallOK(c)'
    BY <1>1, <1>2, <1>3, <1>4, Zenon DEF CallOK, ToolInv
  <1>6. ASSUME NEW k \in Calls \ {c} PROVE CallOK(k)'
    BY <1>1, <1>2, <1>3, OtherCalls
  <1> QED
    BY <1>1, <1>2, <1>3, <1>5, <1>6 DEF ToolInv, ToolTypes

(* Every call of the tool gateway is accounted for, whatever other calls   *)
(* and approvers do between two of its steps: a sandbox run was allowed by *)
(* the policy and covered by an approval where one is required, it has one *)
(* audit event, and no finished call leaves a live lease.                  *)
THEOREM ToolRunsAreAccounted == ToolInit /\ [][ToolNext]_toolVars => []ToolRunIsAccounted
  <1>1. ToolInit => ToolInv
    <2> SUFFICES ASSUME ToolInit PROVE ToolInv
      OBVIOUS
    <2>1. NoGrant \in GrantRows /\ NoLease \in LeaseRows /\ NoLease.revoked
      BY DEF NoGrant, NoLease, GrantRows, LeaseRows, Names
    <2>2. \A c \in Calls : call[c] = [pc |-> "idle", decision |-> NoDecision, answer |-> "none"]
      BY DEF ToolInit
    <2>3. ToolTypes
      BY <2>1, SMTT(30) DEF ToolInit, ToolTypes, CallRows, CallStates
    <2>4. ASSUME NEW c \in Calls PROVE CallOK(c)
      BY <2>1, <2>2 DEF ToolInit, CallOK, EventsOf
    <2> QED
      BY <2>3, <2>4 DEF ToolInv
  <1>2. ToolInv /\ [ToolNext]_toolVars => ToolInv'
    <2> SUFFICES ASSUME ToolInv, [ToolNext]_toolVars PROVE ToolInv'
      OBVIOUS
    <2>1. CASE UNCHANGED toolVars
      <3>1. ToolTypes'
        BY <2>1 DEF toolVars, ToolInv, ToolTypes
      <3>2. ASSUME NEW c \in Calls PROVE CallOK(c)'
        <4>1. /\ call' = call /\ leases' = leases /\ audit' = audit /\ covered' = covered
              /\ InForce(approvals)' = InForce(approvals) /\ EventsOf(c)' = EventsOf(c)
          BY <2>1 DEF toolVars, InForce, EventsOf
        <4> QED
          BY <4>1, CallStays DEF ToolInv
      <3> QED
        BY <3>1, <3>2 DEF ToolInv
    <2>2. ASSUME NEW a \in Approvals, PutApproval(a) \/ ExpireApproval(a) PROVE ToolInv'
      BY <2>2, PutApprovalStep, ExpireApprovalStep
    <2>3. ASSUME NEW c \in Calls,
                 \/ EvaluateCall(c) \/ ValidateApproval(c) \/ PlanSandbox(c)
                 \/ Issue(c) \/ ExecuteSandbox(c) \/ Revoke(c)
          PROVE  ToolInv'
      BY <2>3, EvaluateCallStep, ValidateApprovalStep, PlanSandboxStep, IssueStep,
         ExecuteSandboxStep, RevokeStep
    <2> QED
      BY <2>1, <2>2, <2>3, SMTT(30) DEF ToolNext
  <1>3. ToolInv => ToolRunIsAccounted
    BY DEF ToolInv, CallOK, ToolRunIsAccounted
  <1> QED
    BY <1>1, <1>2, <1>3, PTL
=============================================================================
