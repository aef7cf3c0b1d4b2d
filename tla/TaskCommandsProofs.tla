-------------------------- MODULE TaskCommandsProofs --------------------------
(***************************************************************************)
(* Proofs about TaskCommands, for any sets of tasks, keys, digests, requests *)
(* and decisions: the safety invariants of the module and the action property *)
(* HistoryIsKept.  The inductive invariant Inv is the conjunction of          *)
(*   TypeOK      the shape of the tables, the requests and the histories;     *)
(*   TaskInv     each task row against its events and its outbox message;     *)
(*   KeyInv      each finished idempotency record against its task;           *)
(*   RequestInv  what a request in flight knows: its snapshot is the row of   *)
(*               some earlier version, and of the present one if the version  *)
(*               has not moved;                                               *)
(*   CallInv     which request may call the provider, and after what calls;   *)
(*   AnswerInv   every answer given against the stored record.                *)
(***************************************************************************)
EXTENDS TaskCommands, TLAPS

Statuses == {"none", "CREATED", "PLANNING", "ROUTING", "EXECUTING", "COMPLETED", "FAILED"}

Rows == [status : Statuses, version : Nat, route : Decisions \cup {None}, result : Keys \cup {None}]

Final == {"completed", "failed_final"}

Records ==
    [status : {"none", "in_progress", "failed_retryable"} \cup Final,
     digest : Digests \cup {None}, response : Responses]

Outcomes == {"ok", "retryable", "final"}

Steps == {"idle", "load", "planning", "reload", "relookup", "route", "begin", "call", "record"}

Slots == Operations \X Keys

TypeOK ==
    /\ task \in [Tasks -> Rows]
    /\ events \in [Tasks -> Seq(Statuses \cup {"VALIDATING"})]
    /\ outbox \in [Tasks -> Nat]
    /\ idem \in [Slots -> Records]
    /\ pc \in [Clients -> Steps]
    /\ cmd \in [Clients -> Requests \cup {None}]
    /\ seen \in [Clients -> Rows \cup {None}]
    /\ outcome \in [Clients -> Outcomes \cup {None}]
    /\ calls \in [Slots -> Seq(Outcomes)]
    /\ answers \in [Operations \X Keys \X Digests -> SUBSET Responses]

-----------------------------------------------------------------------------
\* The events are a path of the state machine from CREATED to the given status,
\* one event for each version.
Explains(es, version, status) ==
    /\ Len(es) = version
    /\ status # "none" => es[1] = "CREATED" /\ es[version] = status
    /\ \A i \in 1..(Len(es) - 1) : CanTransition(es[i], es[i + 1])

TaskInv ==
    \A t \in Tasks :
        /\ task[t].status = "none" <=> task[t].version = 0
        /\ task[t].status \notin {"COMPLETED", "FAILED"} => task[t].result = None
        /\ outbox[t] = IF task[t].status # "none" THEN 1 ELSE 0
        /\ Explains(events[t], task[t].version, task[t].status)

CreateSlot(k) == <<<<"create", None>>, k>>
RouteSlot(t, k) == <<<<"route", t>>, k>>
ModelSlot(t, k) == <<<<"model", t>>, k>>

\* A create record is either absent or completed with its task; a task that exists
\* has exactly one.
CreateInv ==
    /\ \A k \in Keys :
          /\ idem[CreateSlot(k)].status \in {"none", "completed"}
          /\ idem[CreateSlot(k)].status = "none" => idem[CreateSlot(k)].response = None
    /\ \A t \in Tasks :
          /\ \A k \in Keys : idem[CreateSlot(k)].response = t => task[t].status # "none"
          /\ task[t].status # "none" => \E k \in Keys : idem[CreateSlot(k)].response = t
          /\ \A k1, k2 \in Keys :
                (idem[CreateSlot(k1)].response = t /\ idem[CreateSlot(k2)].response = t) => k1 = k2

\* A completed route record is one of a task past PLANNING that carries its decision.
RouteInv ==
    \A t \in Tasks, k \in Keys :
        idem[RouteSlot(t, k)].status = "completed" =>
            /\ task[t].route = idem[RouteSlot(t, k)].response
            /\ task[t].status \notin {"none", "CREATED", "PLANNING"}

\* The result of a task names a finished model record, and the other way round.
ModelInv ==
    \A t \in Tasks, k \in Keys :
        /\ idem[ModelSlot(t, k)].status \in Final =>
              /\ task[t].result = k
              /\ task[t].status = IF idem[ModelSlot(t, k)].response = "ok" THEN "COMPLETED" ELSE "FAILED"
        /\ task[t].result = k => idem[ModelSlot(t, k)].status \in Final

KeyInv == CreateInv /\ RouteInv /\ ModelInv

-----------------------------------------------------------------------------
Slot(r) == <<r.op, r.key>>

\* A row as it was at some moment up to now.
Snapshot(row, t) ==
    /\ row \in Rows
    /\ row.version <= task[t].version
    /\ row.version = task[t].version => row.status = task[t].status

RequestOK(c) ==
    /\ pc[c] # "idle" => cmd[c] \in Requests
    /\ pc[c] \in {"planning", "reload", "relookup", "route"} => cmd[c].op[1] = "route"
    /\ pc[c] \in {"begin", "call", "record"} => cmd[c].op[1] = "model"
    /\ pc[c] \in {"planning", "relookup", "route", "begin", "call", "record"} =>
          Snapshot(seen[c], cmd[c].op[2])
    /\ pc[c] = "planning" => seen[c].status = "CREATED"
    /\ pc[c] = "record" => outcome[c] \in Outcomes

RequestInv == \A c \in Clients : RequestOK(c)

AllRetryable(cs) == \A i \in 1..Len(cs) : cs[i] = "retryable"

LastIs(cs, o) == Len(cs) > 0 /\ cs[Len(cs)] = o

SlotCalls(s) ==
    /\ idem[s].status \in {"none", "failed_retryable"} => AllRetryable(calls[s])
    /\ \A i \in 1..(Len(calls[s]) - 1) : calls[s][i] = "retryable"

Calling(c) == pc[c] \in {"call", "record"}

CallerOK(c) ==
    /\ Calling(c) => HeldBy(cmd[c])
    /\ pc[c] = "call" => AllRetryable(calls[Slot(cmd[c])])
    /\ pc[c] = "record" => LastIs(calls[Slot(cmd[c])], outcome[c])

OneCaller ==
    \A c1, c2 \in Clients :
        Calling(c1) /\ Calling(c2) /\ Slot(cmd[c1]) = Slot(cmd[c2]) => c1 = c2

CallInv ==
    /\ \A s \in Slots : SlotCalls(s)
    /\ \A c \in Clients : CallerOK(c)
    /\ OneCaller

AnswerInv ==
    \A s \in Slots, d \in Digests :
        \A a \in answers[<<s[1], s[2], d>>] :
            idem[s].status \in Final /\ idem[s].digest = d /\ a = idem[s].response

Inv ==
    /\ TypeOK
    /\ TaskInv
    /\ KeyInv
    /\ RequestInv
    /\ CallInv
    /\ AnswerInv
-----------------------------------------------------------------------------
\* The slot of a route or model request is one of the table, about a task.
LEMMA RequestShape ==
    ASSUME NEW r \in Requests
    PROVE  /\ r.op[1] \in {"route", "model"}
           /\ r.op[2] \in Tasks
           /\ r.op = <<r.op[1], r.op[2]>>
           /\ r.op \in Operations
           /\ r.key \in Keys
           /\ r.digest \in Digests
           /\ Slot(r) \in Slots
           /\ <<r.op, r.key, r.digest>> \in Operations \X Keys \X Digests
  <1>1. /\ r.op \in Operations
        /\ r.op[1] \in {"route", "model"}
        /\ r.key \in Keys
        /\ r.digest \in Digests
    BY DEF Requests, Command
  <1>2. r.op \in {"planning", "route", "model"} \X Tasks
    BY <1>1 DEF Operations
  <1> QED
    BY <1>1, <1>2 DEF Slot, Slots

\* The slots of the four operations are slots of the table.
LEMMA SlotsTyped ==
    /\ \A k \in Keys : CreateSlot(k) \in Slots
    /\ \A t \in Tasks, k \in Keys : RouteSlot(t, k) \in Slots /\ ModelSlot(t, k) \in Slots
    /\ \A t \in Tasks, k \in Keys : <<<<"planning", t>>, k>> \in Slots
  BY DEF CreateSlot, RouteSlot, ModelSlot, Slots, Operations

\* A row whose version moved, or nothing moved.
Advances ==
    \A t \in Tasks :
        /\ task[t].version <= task'[t].version
        /\ task'[t].version = task[t].version => task'[t].status = task[t].status

\* A finished record is never written again.
FinalKept == \A s \in Slots : idem[s].status \in Final => idem'[s] = idem[s]

\* A request other than c does not notice a step of c.
OthersKept(c) ==
    \A d \in Clients \ {c} :
        pc'[d] = pc[d] /\ cmd'[d] = cmd[d] /\ seen'[d] = seen[d] /\ outcome'[d] = outcome[d]

\* A snapshot stays one while the versions only grow.
LEMMA SnapshotKept ==
    ASSUME TypeOK, TypeOK', Advances, NEW row, NEW t \in Tasks, Snapshot(row, t)
    PROVE  Snapshot(row, t)'
  <1>1. /\ row \in Rows /\ row.version \in Nat
        /\ task[t].version \in Nat /\ task'[t].version \in Nat
    BY DEF TypeOK, Rows, Snapshot
  <1> QED
    BY <1>1 DEF Advances, Snapshot

LEMMA RequestKept ==
    ASSUME TypeOK, TypeOK', Advances, NEW d \in Clients, RequestOK(d),
           pc'[d] = pc[d], cmd'[d] = cmd[d], seen'[d] = seen[d], outcome'[d] = outcome[d]
    PROVE  RequestOK(d)'
  <1>1. CASE pc[d] \in {"planning", "relookup", "route", "begin", "call", "record"}
    <2>1. cmd[d] \in Requests /\ Snapshot(seen[d], cmd[d].op[2])
      BY <1>1 DEF RequestOK
    <2>2. cmd[d].op[2] \in Tasks
      BY <2>1, RequestShape, Zenon
    <2>3. Snapshot(seen[d], cmd[d].op[2])'
      BY <2>1, <2>2, SnapshotKept DEF Snapshot
    <2> QED
      BY <2>3 DEF RequestOK
  <1>2. CASE pc[d] \notin {"planning", "relookup", "route", "begin", "call", "record"}
    BY <1>2 DEF RequestOK
  <1> QED
    BY <1>1, <1>2

\* A step of c keeps RequestInv when it leaves c well.
LEMMA KeepRequests ==
    ASSUME TypeOK, TypeOK', Advances, RequestInv, NEW c \in Clients, OthersKept(c), RequestOK(c)'
    PROVE  RequestInv'
  BY RequestKept DEF RequestInv, OthersKept

-----------------------------------------------------------------------------
(* What keeps each part of the invariant.                                  *)

LEMMA KeepCreate ==
    ASSUME CreateInv,
           \A k \in Keys : idem'[CreateSlot(k)] = idem[CreateSlot(k)],
           \A t \in Tasks : task'[t].status = "none" <=> task[t].status = "none"
    PROVE  CreateInv'
  BY DEF CreateInv, CreateSlot

LEMMA KeepRoute ==
    ASSUME RouteInv,
           \A t \in Tasks, k \in Keys : idem'[RouteSlot(t, k)] = idem[RouteSlot(t, k)],
           \A t \in Tasks : task'[t].route = task[t].route,
           \A t \in Tasks : task[t].status \notin {"none", "CREATED", "PLANNING"} =>
                                task'[t].status \notin {"none", "CREATED", "PLANNING"}
    PROVE  RouteInv'
  BY DEF RouteInv, RouteSlot

LEMMA KeepModel ==
    ASSUME ModelInv,
           \A t \in Tasks, k \in Keys :
               \/ idem'[ModelSlot(t, k)] = idem[ModelSlot(t, k)]
               \/ idem[ModelSlot(t, k)].status \notin Final /\ idem'[ModelSlot(t, k)].status \notin Final,
           \A t \in Tasks : task'[t].result = task[t].result,
           \A t \in Tasks : task[t].status \in {"COMPLETED", "FAILED"} => task'[t].status = task[t].status
    PROVE  ModelInv'
  <1> SUFFICES ASSUME NEW t \in Tasks, NEW k \in Keys
               PROVE  /\ idem'[ModelSlot(t, k)].status \in Final =>
                            /\ task'[t].result = k
                            /\ task'[t].status =
                                  IF idem'[ModelSlot(t, k)].response = "ok" THEN "COMPLETED" ELSE "FAILED"
                      /\ task'[t].result = k => idem'[ModelSlot(t, k)].status \in Final
    BY Zenon DEF ModelInv, ModelSlot
  <1>1. /\ idem[ModelSlot(t, k)].status \in Final =>
              /\ task[t].result = k
              /\ task[t].status = IF idem[ModelSlot(t, k)].response = "ok" THEN "COMPLETED" ELSE "FAILED"
        /\ task[t].result = k => idem[ModelSlot(t, k)].status \in Final
    BY DEF ModelInv
  <1> QED
    BY <1>1

\* Records only become final, and not one that a request in the middle of a call holds.
LEMMA KeepCalls ==
    ASSUME CallInv, UNCHANGED calls,
           \A s \in Slots : idem'[s] = idem[s] \/ idem'[s].status \in Final,
           \A d \in Clients : Calling(d)' =>
               /\ pc'[d] = pc[d] /\ cmd'[d] = cmd[d] /\ outcome'[d] = outcome[d]
               /\ idem'[Slot(cmd[d])] = idem[Slot(cmd[d])]
    PROVE  CallInv'
  <1>1. ASSUME NEW s \in Slots
        PROVE  SlotCalls(s)'
    BY DEF CallInv, Final, SlotCalls
  <1>2. ASSUME NEW d \in Clients
        PROVE  CallerOK(d)'
    <2>1. CASE Calling(d)'
      <3>1. /\ pc'[d] = pc[d] /\ cmd'[d] = cmd[d] /\ outcome'[d] = outcome[d]
            /\ idem'[Slot(cmd[d])] = idem[Slot(cmd[d])]
        BY <2>1
      <3>2. CallerOK(d)
        BY DEF CallInv
      <3> QED
        BY <3>1, <3>2 DEF CallerOK, Calling, HeldBy, Slot
    <2>2. CASE ~Calling(d)'
      BY <2>2 DEF CallerOK, Calling
    <2> QED
      BY <2>1, <2>2
  <1>3. OneCaller'
    BY Zenon DEF CallInv, OneCaller, Calling, Slot
  <1> QED
    BY <1>1, <1>2, <1>3 DEF CallInv

LEMMA KeepAnswers ==
    ASSUME AnswerInv, FinalKept, UNCHANGED answers
    PROVE  AnswerInv'
  BY DEF AnswerInv, FinalKept

\* An answer is the stored response of a final record with the request's digest.
LEMMA AddAnswer ==
    ASSUME TypeOK, AnswerInv, FinalKept,
           NEW op \in Operations, NEW key \in Keys, NEW digest \in Digests, NEW a \in Responses,
           Answer(op, key, digest, a),
           idem'[<<op, key>>].status \in Final,
           idem'[<<op, key>>].digest = digest,
           idem'[<<op, key>>].response = a
    PROVE  /\ AnswerInv'
           /\ answers' \in [Operations \X Keys \X Digests -> SUBSET Responses]
  <1> DEFINE x == <<op, key, digest>>
  <1>1. x \in Operations \X Keys \X Digests
    OBVIOUS
  <1>2. answers' = [answers EXCEPT ![x] = @ \cup {a}]
    BY DEF Answer
  <1>3. answers \in [Operations \X Keys \X Digests -> SUBSET Responses]
    BY DEF TypeOK
  <1> HIDE DEF x
  <1>4. answers' \in [Operations \X Keys \X Digests -> SUBSET Responses]
    BY <1>1, <1>2, <1>3
  <1>5. ASSUME NEW s \in Slots, NEW d \in Digests, NEW b \in answers'[<<s[1], s[2], d>>]
        PROVE  idem'[s].status \in Final /\ idem'[s].digest = d /\ b = idem'[s].response
    <2>1. s = <<s[1], s[2]>> /\ s[1] \in Operations /\ s[2] \in Keys
      BY DEF Slots
    <2>2. <<s[1], s[2], d>> \in Operations \X Keys \X Digests
      BY <2>1
    <2>3. CASE <<s[1], s[2], d>> = x /\ b = a
      BY <2>1, <2>3 DEF x
    <2>4. CASE b \in answers[<<s[1], s[2], d>>]
      BY <2>4 DEF AnswerInv, FinalKept
    <2>5. <<s[1], s[2], d>> = x \/ answers'[<<s[1], s[2], d>>] = answers[<<s[1], s[2], d>>]
      BY <1>2, <1>3, <2>2
    <2>6. answers'[x] = answers[x] \cup {a}
      BY <1>1, <1>2, <1>3
    <2> QED
      BY <2>3, <2>4, <2>5, <2>6
  <1> QED
    BY <1>4, <1>5 DEF AnswerInv

-----------------------------------------------------------------------------
(* The steps that leave the tables alone.                                  *)

RequestTypes ==
    /\ pc \in [Clients -> Steps]
    /\ cmd \in [Clients -> Requests \cup {None}]
    /\ seen \in [Clients -> Rows \cup {None}]
    /\ outcome \in [Clients -> Outcomes \cup {None}]

LEMMA StoreKept ==
    ASSUME TypeOK, TaskInv, KeyInv, UNCHANGED store
    PROVE  TaskInv' /\ KeyInv' /\ Advances /\ FinalKept
  <1>1. \A t \in Tasks : task[t].version \in Nat
    BY DEF TypeOK, Rows
  <1>2. Advances /\ FinalKept
    BY <1>1 DEF Advances, FinalKept, store
  <1>3. TaskInv'
    BY Zenon DEF TaskInv, Explains, store
  <1>4. CreateInv' /\ RouteInv' /\ ModelInv'
    BY DEF KeyInv, CreateInv, RouteInv, ModelInv, CreateSlot, RouteSlot, ModelSlot, store
  <1> QED
    BY <1>2, <1>3, <1>4 DEF KeyInv

\* A step of one request that is not, after it, in the middle of a call.
LEMMA RequestStep ==
    ASSUME Inv, NEW c \in Clients, UNCHANGED <<store, calls>>,
           RequestTypes', OthersKept(c), ~Calling(c)', RequestOK(c)',
           AnswerInv', answers' \in [Operations \X Keys \X Digests -> SUBSET Responses]
    PROVE  Inv'
  <1>1. TypeOK'
    BY DEF Inv, TypeOK, RequestTypes, store
  <1>2. TaskInv' /\ KeyInv' /\ Advances /\ FinalKept
    BY StoreKept DEF Inv
  <1>3. RequestInv'
    BY <1>1, <1>2, KeepRequests DEF Inv
  <1>4. CallInv'
    <2>1. \A s \in Slots : idem'[s] = idem[s] \/ idem'[s].status \in Final
      BY DEF store
    <2>2. \A d \in Clients : Calling(d)' =>
               /\ pc'[d] = pc[d] /\ cmd'[d] = cmd[d] /\ outcome'[d] = outcome[d]
               /\ idem'[Slot(cmd[d])] = idem[Slot(cmd[d])]
      BY DEF OthersKept, store
    <2> QED
      BY <2>1, <2>2, KeepCalls DEF Inv
  <1> QED
    BY <1>1, <1>2, <1>3, <1>4 DEF Inv

LEMMA QuietStep ==
    ASSUME Inv, NEW c \in Clients, UNCHANGED <<store, calls, answers>>,
           RequestTypes', OthersKept(c), ~Calling(c)', RequestOK(c)'
    PROVE  Inv'
  <1>1. AnswerInv'
    BY StoreKept, KeepAnswers DEF Inv
  <1>2. answers' \in [Operations \X Keys \X Digests -> SUBSET Responses]
    BY DEF Inv, TypeOK
  <1> QED
    BY <1>1, <1>2, RequestStep

LEMMA EndStep ==
    ASSUME TypeOK, NEW c \in Clients, End(c)
    PROVE  RequestTypes' /\ OthersKept(c) /\ pc'[c] = "idle" /\ ~Calling(c)' /\ RequestOK(c)'
  <1>1. RequestTypes'
    BY DEF TypeOK, RequestTypes, End, Steps
  <1>2. OthersKept(c) /\ pc'[c] = "idle"
    BY DEF TypeOK, OthersKept, End
  <1> QED
    BY <1>1, <1>2 DEF Calling, RequestOK

LEMMA RefuseStep ==
    ASSUME Inv, NEW c \in Clients, Refuse(c)
    PROVE  Inv'
  BY EndStep, QuietStep DEF Refuse, Inv

\* A final record with the digest of the request is what the request is answered.
LEMMA ReplayAnswer ==
    ASSUME Inv, NEW op \in Operations, NEW key \in Keys, NEW digest \in Digests,
           Replayable(op, key, digest), UNCHANGED store,
           Answer(op, key, digest, idem[<<op, key>>].response)
    PROVE  AnswerInv' /\ answers' \in [Operations \X Keys \X Digests -> SUBSET Responses]
  <1>1. FinalKept
    BY StoreKept DEF Inv
  <1>2. idem[<<op, key>>] \in Records
    BY DEF Inv, TypeOK, Slots
  <1>3. idem[<<op, key>>].response \in Responses
    BY <1>2 DEF Records
  <1>4. /\ idem'[<<op, key>>].status \in Final
        /\ idem'[<<op, key>>].digest = digest
        /\ idem'[<<op, key>>].response = idem[<<op, key>>].response
    BY DEF Replayable, Final, store
  <1> QED
    BY <1>1, <1>3, <1>4, AddAnswer, Zenon DEF Inv

LEMMA ReplayStep ==
    ASSUME Inv, NEW c \in Clients, pc[c] # "idle",
           Replayable(cmd[c].op, cmd[c].key, cmd[c].digest), Replay(c)
    PROVE  Inv'
  <1>1. cmd[c] \in Requests
    BY DEF Inv, RequestInv, RequestOK
  <1>2. cmd[c].op \in Operations /\ cmd[c].key \in Keys /\ cmd[c].digest \in Digests
    BY <1>1, RequestShape, Zenon
  <1>3. AnswerInv' /\ answers' \in [Operations \X Keys \X Digests -> SUBSET Responses]
    BY <1>2, ReplayAnswer, Zenon DEF Replay
  <1> QED
    BY <1>3, EndStep, RequestStep DEF Replay, Inv

\* An answer that no request in flight is part of.
LEMMA AnswerStep ==
    ASSUME Inv, UNCHANGED <<store, request, calls>>,
           AnswerInv', answers' \in [Operations \X Keys \X Digests -> SUBSET Responses]
    PROVE  Inv'
  <1>1. TypeOK'
    BY DEF Inv, TypeOK, store, request
  <1>2. TaskInv' /\ KeyInv' /\ Advances /\ FinalKept
    BY StoreKept DEF Inv
  <1>3. RequestInv'
    <2> SUFFICES ASSUME NEW d \in Clients PROVE RequestOK(d)'
      BY DEF RequestInv
    <2>1. RequestOK(d)
      BY DEF Inv, RequestInv
    <2> QED
      BY <1>1, <1>2, <2>1, RequestKept DEF Inv, request
  <1>4. CallInv'
    BY KeepCalls DEF Inv, store, request
  <1> QED
    BY <1>1, <1>2, <1>3, <1>4 DEF Inv

LEMMA CreateTaskReplayStep ==
    ASSUME Inv, NEW key \in Keys, NEW digest \in Digests, CreateTaskReplay(key, digest)
    PROVE  Inv'
  <1>1. <<"create", None>> \in Operations
    BY DEF Operations
  <1>2. AnswerInv' /\ answers' \in [Operations \X Keys \X Digests -> SUBSET Responses]
    BY <1>1, ReplayAnswer DEF CreateTaskReplay
  <1> QED
    BY <1>2, AnswerStep DEF CreateTaskReplay

LEMMA LookupStep ==
    ASSUME Inv, NEW c \in Clients, NEW r \in Requests, Lookup(c, r)
    PROVE  Inv'
  <1>1. CASE /\ pc' = [pc EXCEPT ![c] = "load"]
             /\ cmd' = [cmd EXCEPT ![c] = r]
             /\ UNCHANGED <<store, seen, outcome, calls, answers>>
    <2>1. RequestTypes' /\ OthersKept(c) /\ pc'[c] = "load" /\ cmd'[c] = r
      BY <1>1 DEF Inv, TypeOK, RequestTypes, OthersKept, Steps
    <2>2. ~Calling(c)' /\ RequestOK(c)'
      BY <2>1 DEF Calling, RequestOK
    <2> QED
      BY <1>1, <2>1, <2>2, QuietStep
  <1>2. CASE /\ Replayable(r.op, r.key, r.digest)
             /\ Answer(r.op, r.key, r.digest, idem[<<r.op, r.key>>].response)
             /\ UNCHANGED <<store, request, calls>>
    <2>1. r.op \in Operations /\ r.key \in Keys /\ r.digest \in Digests
      BY RequestShape, Zenon
    <2>2. AnswerInv' /\ answers' \in [Operations \X Keys \X Digests -> SUBSET Responses]
      BY <1>2, <2>1, ReplayAnswer, Zenon
    <2> QED
      BY <1>2, <2>2, AnswerStep
  <1> QED
    BY <1>1, <1>2 DEF Lookup

\* The row a request reads is a snapshot.
LEMMA ReadsSnapshot ==
    ASSUME TypeOK, NEW t \in Tasks
    PROVE  Snapshot(task[t], t)
  <1>1. task[t] \in Rows /\ task[t].version \in Nat
    BY DEF TypeOK, Rows
  <1> QED
    BY <1>1 DEF Snapshot

LEMMA LoadStep ==
    ASSUME Inv, NEW c \in Clients, Load(c)
    PROVE  Inv'
  <1> DEFINE row == task[cmd[c].op[2]]
             step == IF cmd[c].op[1] = "route" THEN RouteStep(row.status) ELSE ModelStep(row.status)
  <1>1. pc[c] = "load"
    BY DEF Load
  <1>2. cmd[c] \in Requests
    BY <1>1 DEF Inv, RequestInv, RequestOK
  <1>3. cmd[c].op[2] \in Tasks /\ cmd[c].op[1] \in {"route", "model"}
    BY <1>2, RequestShape, Zenon
  <1>4. CASE Refuse(c)
    BY <1>4, RefuseStep
  <1>5. CASE /\ step # "refused"
             /\ pc' = [pc EXCEPT ![c] = step]
             /\ seen' = [seen EXCEPT ![c] = row]
             /\ UNCHANGED <<store, cmd, outcome, calls, answers>>
    <2>1. /\ \/ step \in {"planning", "route", "relookup"} /\ cmd[c].op[1] = "route"
             \/ step = "begin" /\ cmd[c].op[1] = "model"
          /\ step = "planning" => row.status = "CREATED"
      BY <1>3, <1>5 DEF RouteStep, ModelStep
    <2>2. Snapshot(row, cmd[c].op[2]) /\ row \in Rows
      BY <1>3, ReadsSnapshot DEF Inv, Snapshot
    <2> HIDE DEF step
    <2>3. step \in Steps
      BY <2>1 DEF Steps
    <2>4. /\ RequestTypes' /\ OthersKept(c)
          /\ pc'[c] = step /\ seen'[c] = row /\ cmd'[c] = cmd[c]
      BY <1>5, <2>2, <2>3 DEF Inv, TypeOK, RequestTypes, OthersKept
    <2>5. Snapshot(seen[c], cmd[c].op[2])'
      BY <1>5, <2>2, <2>4 DEF Snapshot, store
    <2>6. ~Calling(c)' /\ RequestOK(c)'
      BY <1>2, <2>1, <2>4, <2>5 DEF Calling, RequestOK
    <2> QED
      BY SMTT(30), <1>5, <2>4, <2>6, QuietStep
  <1> QED
    BY <1>4, <1>5 DEF Load

LEMMA ReloadStep ==
    ASSUME Inv, NEW c \in Clients, Reload(c)
    PROVE  Inv'
  <1> DEFINE row == task[cmd[c].op[2]]
  <1>1. pc[c] = "reload"
    BY DEF Reload
  <1>2. cmd[c] \in Requests /\ cmd[c].op[1] = "route"
    BY <1>1 DEF Inv, RequestInv, RequestOK
  <1>3. cmd[c].op[2] \in Tasks
    BY <1>2, RequestShape, Zenon
  <1>4. CASE Refuse(c)
    BY <1>4, RefuseStep
  <1>5. CASE /\ pc' = [pc EXCEPT ![c] = "route"]
             /\ seen' = [seen EXCEPT ![c] = row]
             /\ UNCHANGED <<store, cmd, outcome, calls, answers>>
    <2>2. Snapshot(row, cmd[c].op[2]) /\ row \in Rows
      BY <1>3, ReadsSnapshot DEF Inv, Snapshot
    <2>4. /\ RequestTypes' /\ OthersKept(c)
          /\ pc'[c] = "route" /\ seen'[c] = row /\ cmd'[c] = cmd[c]
      BY <1>5, <2>2 DEF Inv, TypeOK, RequestTypes, OthersKept, Steps
    <2>5. Snapshot(seen[c], cmd[c].op[2])'
      BY <1>5, <2>2, <2>4 DEF Snapshot, store
    <2>6. ~Calling(c)' /\ RequestOK(c)'
      BY <1>2, <2>4, <2>5 DEF Calling, RequestOK
    <2> QED
      BY <1>5, <2>4, <2>6, QuietStep
  <1> QED
    BY <1>4, <1>5 DEF Reload

LEMMA RelookupStep ==
    ASSUME Inv, NEW c \in Clients, Relookup(c)
    PROVE  Inv'
  BY RefuseStep, ReplayStep DEF Relookup

LEMMA AbandonStep ==
    ASSUME Inv, NEW c \in Clients, Abandon(c)
    PROVE  Inv'
  BY RefuseStep DEF Abandon

-----------------------------------------------------------------------------
(* The transactions that write a task.                                     *)

EventNames == Statuses \cup {"VALIDATING"}

\* One more legal move, with its event.
LEMMA ExtendPath ==
    ASSUME NEW es \in Seq(EventNames), NEW version \in Nat \ {0}, NEW status, NEW to \in EventNames,
           status # "none", to # "none",
           Explains(es, version, status), CanTransition(status, to)
    PROVE  /\ es \o <<to>> \in Seq(EventNames)
           /\ Explains(es \o <<to>>, version + 1, to)
  <1> DEFINE fs == es \o <<to>>
  <1>1. Len(es) = version /\ es[1] = "CREATED" /\ es[version] = status
    BY DEF Explains
  <1>2. fs \in Seq(EventNames) /\ Len(fs) = version + 1
    BY <1>1
  <1>3. fs[version + 1] = to /\ \A i \in 1..version : fs[i] = es[i]
    BY <1>1
  <1> HIDE DEF fs
  <1>4. fs[1] = "CREATED"
    BY <1>1, <1>3
  <1>5. ASSUME NEW i \in 1..(Len(fs) - 1)
        PROVE  CanTransition(fs[i], fs[i + 1])
    <2>1. CASE i = version
      BY <1>1, <1>3, <2>1
    <2>2. CASE i # version
      <3>1. i \in 1..(Len(es) - 1) /\ i \in 1..version /\ i + 1 \in 1..version
        BY <1>1, <1>2, <2>2
      <3> QED
        BY <1>3, <3>1 DEF Explains
    <2> QED
      BY <2>1, <2>2
  <1>6. Explains(fs, version + 1, to)
    BY <1>2, <1>3, <1>4, <1>5 DEF Explains
  <1> QED
    BY <1>2, <1>6 DEF fs

\* The row after one transition.
LEMMA AppliedOne ==
    ASSUME NEW row \in Rows, NEW to \in Statuses
    PROVE  /\ Applied(row, <<to>>) \in Rows
           /\ Applied(row, <<to>>).status = to
           /\ Applied(row, <<to>>).version = row.version + 1
           /\ Applied(row, <<to>>).route = row.route
           /\ Applied(row, <<to>>).result = row.result
  <1>1. row.version + 1 \in Nat
    BY DEF Rows
  <1>2. Len(<<to>>) = 1 /\ <<to>>[1] = to
    OBVIOUS
  <1>3. Applied(row, <<to>>) = [row EXCEPT !.status = to, !.version = row.version + 1]
    BY <1>2 DEF Applied
  <1> QED
    BY <1>1, <1>3, Zenon DEF Rows

\* The row after the two transitions of a success.
LEMMA AppliedTwo ==
    ASSUME NEW row \in Rows, NEW via, NEW to \in Statuses
    PROVE  /\ Applied(row, <<via, to>>) \in Rows
           /\ Applied(row, <<via, to>>).status = to
           /\ Applied(row, <<via, to>>).version = row.version + 2
           /\ Applied(row, <<via, to>>).route = row.route
           /\ Applied(row, <<via, to>>).result = row.result
  <1>1. row.version + 2 \in Nat
    BY DEF Rows
  <1>2. Len(<<via, to>>) = 2 /\ <<via, to>>[2] = to
    OBVIOUS
  <1>3. Applied(row, <<via, to>>) = [row EXCEPT !.status = to, !.version = row.version + 2]
    BY <1>2 DEF Applied
  <1> QED
    BY <1>1, <1>3, Zenon DEF Rows

LEMMA TaskMove ==
    ASSUME TypeOK, TaskInv, NEW t \in Tasks, NEW new \in Rows, NEW es \in Seq(EventNames),
           task' = [task EXCEPT ![t] = new], events' = [events EXCEPT ![t] = es], UNCHANGED outbox,
           task[t].status # "none", new.status # "none",
           new.version > task[t].version,
           new.status \notin {"COMPLETED", "FAILED"} => new.result = None,
           Explains(es, new.version, new.status)
    PROVE  /\ TaskInv' /\ Advances
           /\ task' \in [Tasks -> Rows] /\ events' \in [Tasks -> Seq(EventNames)]
           /\ task'[t] = new
           /\ \A u \in Tasks : u # t => task'[u] = task[u]
  <1>1. /\ task' \in [Tasks -> Rows] /\ events' \in [Tasks -> Seq(EventNames)]
        /\ task'[t] = new /\ events'[t] = es
        /\ \A u \in Tasks : u # t => task'[u] = task[u] /\ events'[u] = events[u]
    BY DEF TypeOK, EventNames
  <1>2. new.version \in Nat /\ \A u \in Tasks : task[u].version \in Nat
    BY DEF TypeOK, Rows
  <1>3. Advances
    BY <1>1, <1>2 DEF Advances
  <1>4. ASSUME NEW u \in Tasks
        PROVE  /\ task'[u].status = "none" <=> task'[u].version = 0
               /\ task'[u].status \notin {"COMPLETED", "FAILED"} => task'[u].result = None
               /\ outbox'[u] = IF task'[u].status # "none" THEN 1 ELSE 0
               /\ Explains(events'[u], task'[u].version, task'[u].status)
    <2>1. CASE u = t
      BY <1>1, <1>2, <2>1 DEF TaskInv
    <2>2. CASE u # t
      BY <1>1, <2>2 DEF TaskInv
    <2> QED
      BY <2>1, <2>2
  <1> QED
    BY <1>1, <1>3, <1>4 DEF TaskInv, Explains

LEMMA SlotWrite ==
    ASSUME TypeOK, NEW s \in Slots, NEW rec \in Records, idem' = [idem EXCEPT ![s] = rec]
    PROVE  /\ idem' \in [Slots -> Records]
           /\ idem'[s] = rec
           /\ \A x \in Slots : x # s => idem'[x] = idem[x]
  BY DEF TypeOK

LEMMA RecordedTyped ==
    ASSUME NEW status \in {"in_progress", "failed_retryable"} \cup Final,
           NEW digest \in Digests, NEW response \in Responses
    PROVE  /\ Recorded(status, digest, response) \in Records
           /\ Recorded(status, digest, response).status = status
           /\ Recorded(status, digest, response).digest = digest
           /\ Recorded(status, digest, response).response = response
  BY DEF Recorded, Records

PlanningSlot(t, k) == <<<<"planning", t>>, k>>

\* Records of different operations, tasks or keys are different rows.
LEMMA SlotsApart ==
    /\ \A k1, k2 \in Keys : CreateSlot(k1) = CreateSlot(k2) => k1 = k2
    /\ \A t1, t2 \in Tasks, k1, k2 \in Keys :
          /\ RouteSlot(t1, k1) = RouteSlot(t2, k2) => t1 = t2 /\ k1 = k2
          /\ ModelSlot(t1, k1) = ModelSlot(t2, k2) => t1 = t2 /\ k1 = k2
          /\ RouteSlot(t1, k1) # ModelSlot(t2, k2)
          /\ PlanningSlot(t1, k1) # RouteSlot(t2, k2)
          /\ PlanningSlot(t1, k1) # ModelSlot(t2, k2)
          /\ CreateSlot(k1) # PlanningSlot(t2, k2)
          /\ CreateSlot(k1) # RouteSlot(t2, k2)
          /\ CreateSlot(k1) # ModelSlot(t2, k2)
  BY DEF CreateSlot, RouteSlot, ModelSlot, PlanningSlot

\* A request in the middle of a call works on a model record.
LEMMA CallerSlot ==
    ASSUME RequestInv, NEW d \in Clients, Calling(d)
    PROVE  /\ cmd[d] \in Requests
           /\ cmd[d].op[2] \in Tasks /\ cmd[d].key \in Keys
           /\ Slot(cmd[d]) = ModelSlot(cmd[d].op[2], cmd[d].key)
           /\ Slot(cmd[d]) \in Slots
  <1>1. cmd[d] \in Requests /\ cmd[d].op[1] = "model"
    BY DEF RequestInv, RequestOK, Calling
  <1>2. cmd[d].op[2] \in Tasks /\ cmd[d].key \in Keys /\ Slot(cmd[d]) \in Slots
    BY <1>1, RequestShape, Zenon
  <1>3. cmd[d].op = <<"model", cmd[d].op[2]>>
    BY <1>1, RequestShape, Zenon
  <1> QED
    BY <1>1, <1>2, <1>3 DEF Slot, ModelSlot

\* What a completed create, planning or route record leaves to show.
LEMMA KeepCallsOther ==
    ASSUME TypeOK, RequestInv, CallInv, UNCHANGED calls, NEW s \in Slots,
           \A t \in Tasks, k \in Keys : s # ModelSlot(t, k),
           \A x \in Slots : x # s => idem'[x] = idem[x],
           idem'[s].status = "completed",
           \A d \in Clients : Calling(d)' =>
               pc'[d] = pc[d] /\ cmd'[d] = cmd[d] /\ outcome'[d] = outcome[d]
    PROVE  CallInv'
  <1>1. \A x \in Slots : idem'[x] = idem[x] \/ idem'[x].status \in Final
    BY DEF Final
  <1>2. ASSUME NEW d \in Clients, Calling(d)'
        PROVE  idem'[Slot(cmd[d])] = idem[Slot(cmd[d])]
    <2>1. Calling(d)
      BY <1>2 DEF Calling
    <2> QED
      BY <2>1, CallerSlot
  <1> QED
    BY <1>1, <1>2, KeepCalls

LEMMA CreateTaskStep ==
    ASSUME Inv, NEW key \in Keys, NEW digest \in Digests, NEW t \in Tasks, CreateTask(key, digest, t)
    PROVE  Inv'
  <1> DEFINE s == CreateSlot(key)
             rec == Recorded("completed", digest, t)
             new == NewTask(task[t])
  <1>1. /\ idem' = [idem EXCEPT ![s] = rec] /\ Answer(<<"create", None>>, key, digest, t)
        /\ task' = [task EXCEPT ![t] = new] /\ events' = [events EXCEPT ![t] = <<"CREATED">>]
        /\ outbox' = [outbox EXCEPT ![t] = outbox[t] + 1]
        /\ task[t].status = "none" /\ UNCHANGED <<request, calls>>
    BY DEF CreateTask, CreateSlot
  <1>2. s \in Slots /\ <<"create", None>> \in Operations
    BY SlotsTyped DEF Operations
  <1>3. idem[s].status = "none" /\ idem[s].response = None
    BY DEF Inv, KeyInv, CreateInv, CreateTask, Reservable, CreateSlot
  <1>4. /\ rec \in Records /\ rec.status = "completed" /\ rec.digest = digest /\ rec.response = t
        /\ t \in Responses
    BY RecordedTyped DEF Final, Responses
  <1>5. /\ task[t] \in Rows /\ task[t].version = 0 /\ task[t].result = None /\ outbox[t] = 0
    BY <1>1, Zenon DEF Inv, TypeOK, TaskInv
  <1>6. /\ new \in Rows /\ new.status = "CREATED" /\ new.version = 1
        /\ new.route = task[t].route /\ new.result = task[t].result
    BY <1>5, Zenon DEF NewTask, Rows, Statuses
  <1>7. t # None
    BY TaskConstants
  <1> HIDE DEF s, rec, new
  <1>8. /\ idem' \in [Slots -> Records] /\ idem'[s] = rec
        /\ \A x \in Slots : x # s => idem'[x] = idem[x]
    BY <1>1, <1>2, <1>4, SlotWrite, Zenon DEF Inv
  <1>9. FinalKept
    BY <1>3, <1>8 DEF FinalKept, Final
  <1>10. AnswerInv' /\ answers' \in [Operations \X Keys \X Digests -> SUBSET Responses]
    <2>1. s = <<<<"create", None>>, key>>
      BY DEF s, CreateSlot
    <2>2. /\ idem'[<<<<"create", None>>, key>>].status \in Final
          /\ idem'[<<<<"create", None>>, key>>].digest = digest
          /\ idem'[<<<<"create", None>>, key>>].response = t
      BY <1>4, <1>8, <2>1 DEF Final
    <2> QED
      BY <1>1, <1>2, <1>4, <1>9, <2>2, AddAnswer, Zenon DEF Inv
  <1>11. /\ task' \in [Tasks -> Rows] /\ task'[t] = new
         /\ \A u \in Tasks : u # t => task'[u] = task[u]
    BY <1>1, <1>6 DEF Inv, TypeOK
  <1>12. /\ events'[t] = <<"CREATED">> /\ \A u \in Tasks : u # t => events'[u] = events[u]
         /\ events' \in [Tasks -> Seq(EventNames)]
    <2>1. <<"CREATED">> \in Seq(EventNames)
      BY DEF EventNames, Statuses
    <2> QED
      BY <1>1, <2>1 DEF Inv, TypeOK, EventNames
  <1>13. /\ outbox'[t] = 1 /\ \A u \in Tasks : u # t => outbox'[u] = outbox[u]
         /\ outbox' \in [Tasks -> Nat]
    BY <1>1, <1>5 DEF Inv, TypeOK
  <1>14. TypeOK'
    BY <1>1, <1>8, <1>10, <1>11, <1>12, <1>13 DEF Inv, TypeOK, request, EventNames
  <1>15. TaskInv'
    <2>1. Explains(events'[t], task'[t].version, task'[t].status)
      BY <1>6, <1>11, <1>12 DEF Explains
    <2> SUFFICES ASSUME NEW u \in Tasks
                 PROVE  /\ task'[u].status = "none" <=> task'[u].version = 0
                        /\ task'[u].status \notin {"COMPLETED", "FAILED"} => task'[u].result = None
                        /\ outbox'[u] = IF task'[u].status # "none" THEN 1 ELSE 0
                        /\ Explains(events'[u], task'[u].version, task'[u].status)
      BY Zenon DEF TaskInv, Explains
    <2>2. CASE u = t
      BY <1>5, <1>6, <1>11, <1>13, <2>1, <2>2
    <2>3. CASE u # t
      BY <1>11, <1>12, <1>13, <2>3 DEF Inv, TaskInv
    <2> QED
      BY <2>2, <2>3
  <1>16. Advances
    <2>1. \A u \in Tasks : task[u].version \in Nat
      BY DEF Inv, TypeOK, Rows
    <2> QED
      BY <1>5, <1>6, <1>11, <2>1 DEF Advances
  <1>17. RouteInv' /\ ModelInv'
    <2>1. \A u \in Tasks, k \in Keys : idem'[RouteSlot(u, k)] = idem[RouteSlot(u, k)]
                                     /\ idem'[ModelSlot(u, k)] = idem[ModelSlot(u, k)]
      BY <1>8, SlotsTyped, SlotsApart DEF s
    <2>2. \A u \in Tasks : task'[u].route = task[u].route /\ task'[u].result = task[u].result
      BY <1>6, <1>11
    <2>3. \A u \in Tasks : task[u].status # "none" => task'[u].status = task[u].status
      BY <1>1, <1>11
    <2> QED
      BY <2>1, <2>2, <2>3, KeepRoute, KeepModel DEF Inv, KeyInv
  <1>18. CreateInv'
    <2>1. \A k \in Keys : k # key => idem'[CreateSlot(k)] = idem[CreateSlot(k)]
      BY <1>8, SlotsTyped, SlotsApart DEF s
    <2>2. idem'[CreateSlot(key)] = rec /\ idem[CreateSlot(key)].response = None
      BY <1>3, <1>8 DEF s
    <2>3. \A k \in Keys : idem[CreateSlot(k)].response # t
      BY <1>1 DEF Inv, KeyInv, CreateInv
    <2>4. \A u \in Tasks : u # None
      BY TaskConstants
    <2>5. ASSUME NEW k \in Keys
          PROVE  /\ idem'[CreateSlot(k)].status \in {"none", "completed"}
                 /\ idem'[CreateSlot(k)].status = "none" => idem'[CreateSlot(k)].response = None
      BY <1>4, <2>1, <2>2 DEF Inv, KeyInv, CreateInv
    <2>6. ASSUME NEW u \in Tasks
          PROVE  /\ \A k \in Keys : idem'[CreateSlot(k)].response = u => task'[u].status # "none"
                 /\ task'[u].status # "none" => \E k \in Keys : idem'[CreateSlot(k)].response = u
                 /\ \A k1, k2 \in Keys :
                       (idem'[CreateSlot(k1)].response = u /\ idem'[CreateSlot(k2)].response = u) => k1 = k2
      <3>1. CASE u = t
        BY <1>4, <1>6, <1>11, <2>1, <2>2, <2>3, <3>1
      <3>2. CASE u # t
        <4>1. task'[u] = task[u]
          BY <1>11, <3>2
        <4>2. \A k \in Keys : idem'[CreateSlot(k)].response = u <=> idem[CreateSlot(k)].response = u
          BY <1>4, <2>1, <2>2, <2>4, <3>2
        <4> QED
          BY <4>1, <4>2 DEF Inv, KeyInv, CreateInv
      <3> QED
        BY <3>1, <3>2
    <2> QED
      BY <2>5, <2>6 DEF CreateInv, CreateSlot
  <1>19. CallInv'
    <2>1. \A u \in Tasks, k \in Keys : s # ModelSlot(u, k)
      BY SlotsApart DEF s
    <2> QED
      BY <1>1, <1>2, <1>4, <1>8, <2>1, KeepCallsOther DEF Inv, request
  <1>20. RequestInv'
    <2> SUFFICES ASSUME NEW d \in Clients PROVE RequestOK(d)'
      BY DEF RequestInv
    <2>1. RequestOK(d)
      BY DEF Inv, RequestInv
    <2> QED
      BY <1>1, <1>14, <1>16, <2>1, RequestKept DEF Inv, request
  <1> QED
    BY <1>10, <1>14, <1>15, <1>17, <1>18, <1>19, <1>20 DEF Inv, KeyInv

\* The row the request read is still the row.
LEMMA CurrentStatus ==
    ASSUME NEW t \in Tasks, NEW row, Snapshot(row, t), Current(t, row)
    PROVE  task[t].status = row.status
  BY DEF Snapshot, Current

LEMMA CommitPlanningStep ==
    ASSUME Inv, NEW c \in Clients, CommitPlanning(c)
    PROVE  Inv'
  <1> DEFINE t == cmd[c].op[2]
             key == cmd[c].key
             digest == cmd[c].digest
             s == PlanningSlot(t, key)
             rec == Recorded("completed", digest, t)
             new == Applied(task[t], <<"PLANNING">>)
  <1>1. pc[c] = "planning"
    BY DEF CommitPlanning
  <1>2. /\ cmd[c] \in Requests /\ cmd[c].op[1] = "route"
        /\ Snapshot(seen[c], t) /\ seen[c].status = "CREATED"
    BY <1>1 DEF Inv, RequestInv, RequestOK
  <1>3. t \in Tasks /\ key \in Keys /\ digest \in Digests
    BY <1>2, RequestShape, Zenon
  <1>4. CASE Refuse(c)
    BY <1>4, RefuseStep
  <1>5. CASE /\ pc' = [pc EXCEPT ![c] = "reload"]
             /\ UNCHANGED <<store, cmd, seen, outcome, calls, answers>>
    <2>1. RequestTypes' /\ OthersKept(c) /\ pc'[c] = "reload" /\ cmd'[c] = cmd[c]
      BY <1>5 DEF Inv, TypeOK, RequestTypes, OthersKept, Steps
    <2>2. ~Calling(c)' /\ RequestOK(c)'
      BY <1>2, <2>1 DEF Calling, RequestOK
    <2> QED
      BY <1>5, <2>1, <2>2, QuietStep
  <1>6. CASE /\ Reservable(<<"planning", t>>, key, digest) /\ Current(t, seen[c])
             /\ task' = [task EXCEPT ![t] = new]
             /\ events' = [events EXCEPT ![t] = events[t] \o <<"PLANNING">>]
             /\ idem' = [idem EXCEPT ![s] = rec]
             /\ pc' = [pc EXCEPT ![c] = "route"]
             /\ seen' = [seen EXCEPT ![c] = task'[t]]
             /\ UNCHANGED <<outbox, cmd, outcome, calls, answers>>
    <2> HIDE DEF t, key, digest
    <2>1. task[t].status = "CREATED"
      BY <1>2, <1>3, <1>6, CurrentStatus
    <2>2. task[t] \in Rows /\ task[t].version \in Nat \ {0} /\ task[t].result = None
      BY <1>3, <2>1, Zenon DEF Inv, TypeOK, TaskInv, Rows
    <2>3. /\ new \in Rows /\ new.status = "PLANNING" /\ new.version = task[t].version + 1
          /\ new.route = task[t].route /\ new.result = task[t].result
      BY <2>2, AppliedOne DEF Statuses
    <2> DEFINE es == events[t] \o <<"PLANNING">>
    <2>4. es \in Seq(EventNames) /\ Explains(es, new.version, new.status)
      <3>1. events[t] \in Seq(EventNames) /\ Explains(events[t], task[t].version, task[t].status)
        BY <1>3 DEF Inv, TypeOK, TaskInv, EventNames
      <3>2. CanTransition(task[t].status, "PLANNING")
        BY <2>1 DEF CanTransition, IsTerminal
      <3> QED
        BY <2>1, <2>2, <2>3, <3>1, <3>2, ExtendPath DEF EventNames, Statuses
    <2>5. rec \in Records /\ rec.status = "completed"
      BY <1>3, RecordedTyped DEF Final, Responses
    <2>6. s \in Slots
      BY <1>3, SlotsTyped DEF PlanningSlot
    <2> HIDE DEF new, es, rec, s
    <2>7. /\ TaskInv' /\ Advances
          /\ task' \in [Tasks -> Rows] /\ events' \in [Tasks -> Seq(EventNames)]
          /\ task'[t] = new
          /\ \A u \in Tasks : u # t => task'[u] = task[u]
      <3>1. new.version > task[t].version
        BY <2>2, <2>3
      <3> QED
        BY <1>3, <1>6, <2>1, <2>2, <2>3, <2>4, <3>1, TaskMove, Zenon DEF Inv, es
    <2>8. /\ idem' \in [Slots -> Records] /\ idem'[s] = rec
          /\ \A x \in Slots : x # s => idem'[x] = idem[x]
      BY <1>6, <2>5, <2>6, SlotWrite, Zenon DEF Inv
    <2>9. FinalKept
      <3>1. idem[s].status \notin Final
        BY <1>6 DEF Reservable, Final, s, PlanningSlot
      <3> QED
        BY <2>8, <3>1 DEF FinalKept
    <2>10. /\ RequestTypes' /\ OthersKept(c)
           /\ pc'[c] = "route" /\ seen'[c] = new /\ cmd'[c] = cmd[c]
      BY <1>6, <2>3, <2>7 DEF Inv, TypeOK, RequestTypes, OthersKept, Steps
    <2>11. TypeOK'
      BY <1>6, <2>7, <2>8, <2>10, SMTT(30) DEF Inv, TypeOK, RequestTypes, EventNames
    <2>12. RequestOK(c)'
      <3>1. cmd'[c].op[2] = t
        BY <2>10 DEF t
      <3>2. Snapshot(seen[c], cmd[c].op[2])'
        BY <2>2, <2>3, <2>7, <2>10, <3>1 DEF Snapshot
      <3> QED
        BY <1>2, <2>10, <3>2 DEF RequestOK
    <2>13. RequestInv'
      BY <2>7, <2>10, <2>11, <2>12, KeepRequests DEF Inv
    <2>14. KeyInv'
      <3>1. \A u \in Tasks, k \in Keys :
               /\ idem'[CreateSlot(k)] = idem[CreateSlot(k)]
               /\ idem'[RouteSlot(u, k)] = idem[RouteSlot(u, k)]
               /\ idem'[ModelSlot(u, k)] = idem[ModelSlot(u, k)]
        BY <1>3, <2>8, SlotsTyped, SlotsApart DEF s
      <3>2. \A u \in Tasks : task'[u].route = task[u].route /\ task'[u].result = task[u].result
        BY SMTT(30), <2>3, <2>7
      <3>3. \A u \in Tasks : task'[u].status = task[u].status \/ (u = t)
        BY <2>7
      <3>4. \A u \in Tasks : task'[u].status = "none" <=> task[u].status = "none"
        BY <2>1, <2>3, <2>7, <3>3, Zenon
      <3>5. \A u \in Tasks : task[u].status \notin {"none", "CREATED", "PLANNING"} =>
                                task'[u].status = task[u].status
        BY <2>1, <3>3
      <3>6. CreateInv'
        BY <1>3, <3>1, <3>4, KeepCreate DEF Inv, KeyInv
      <3>7. RouteInv'
        BY <3>1, <3>2, <3>5, KeepRoute DEF Inv, KeyInv
      <3>8. ModelInv'
        BY <3>1, <3>2, <3>5, KeepModel DEF Inv, KeyInv
      <3> QED
        BY <3>6, <3>7, <3>8 DEF KeyInv
    <2>15. CallInv'
      <3>1. \A u \in Tasks, k \in Keys : s # ModelSlot(u, k)
        BY <1>3, SlotsApart DEF s
      <3>2. \A d \in Clients : Calling(d)' =>
               pc'[d] = pc[d] /\ cmd'[d] = cmd[d] /\ outcome'[d] = outcome[d]
        BY <2>10 DEF OthersKept, Calling
      <3> QED
        BY <1>6, <2>5, <2>6, <2>8, <3>1, <3>2, KeepCallsOther DEF Inv
    <2>16. AnswerInv'
      BY <1>6, <2>9, KeepAnswers, SMTT(30) DEF Inv
    <2> QED
      BY <2>7, <2>11, <2>13, <2>14, <2>15, <2>16, SMTT(30) DEF Inv
  <1> QED
    BY <1>4, <1>5, <1>6, ZenonT(30) DEF CommitPlanning, PlanningSlot

LEMMA CommitRouteStep ==
    ASSUME Inv, NEW c \in Clients, NEW decision \in Decisions, CommitRoute(c, decision)
    PROVE  Inv'
  <1> DEFINE t == cmd[c].op[2]
             key == cmd[c].key
             digest == cmd[c].digest
             s == RouteSlot(t, key)
             rec == Recorded("completed", digest, decision)
             new == [Applied(task[t], <<"ROUTING">>) EXCEPT !.route = decision]
  <1>1. pc[c] = "route"
    BY DEF CommitRoute
  <1>2. cmd[c] \in Requests /\ cmd[c].op[1] = "route"
    BY <1>1 DEF Inv, RequestInv, RequestOK
  <1>3. /\ t \in Tasks /\ key \in Keys /\ digest \in Digests
        /\ cmd[c].op = <<"route", t>> /\ cmd[c].op \in Operations
    BY <1>2, RequestShape, Zenon
  <1>4. CASE Refuse(c)
    BY <1>4, RefuseStep
  <1>5. CASE Replayable(cmd[c].op, key, digest) /\ Replay(c)
    BY SMTT(30), <1>1, <1>5, ReplayStep
  <1>6. CASE /\ Reservable(cmd[c].op, key, digest) /\ Routable(t, seen[c])
             /\ task' = [task EXCEPT ![t] = new]
             /\ events' = [events EXCEPT ![t] = events[t] \o <<"ROUTING">>]
             /\ idem' = [idem EXCEPT ![<<cmd[c].op, key>>] = rec]
             /\ Answer(cmd[c].op, key, digest, decision)
             /\ End(c)
             /\ UNCHANGED <<outbox, calls>>
    <2>0. <<cmd[c].op, key>> = s
      BY <1>3 DEF RouteSlot
    <2> HIDE DEF t, key, digest
    <2>1. task[t].status = "PLANNING"
      BY <1>6 DEF Routable
    <2>2. task[t] \in Rows /\ task[t].version \in Nat \ {0} /\ task[t].result = None
      BY <1>3, <2>1, Zenon DEF Inv, TypeOK, TaskInv, Rows
    <2>3. /\ new \in Rows /\ new.status = "ROUTING" /\ new.version = task[t].version + 1
          /\ new.route = decision /\ new.result = task[t].result
      <3> DEFINE row == Applied(task[t], <<"ROUTING">>)
      <3>1. /\ row \in Rows /\ row.status = "ROUTING" /\ row.version = task[t].version + 1
            /\ row.result = task[t].result
        BY <2>2, AppliedOne DEF Statuses
      <3> HIDE DEF row
      <3>2. new = [row EXCEPT !.route = decision]
        BY DEF row
      <3> QED
        BY <3>1, <3>2 DEF Rows
    <2> DEFINE es == events[t] \o <<"ROUTING">>
    <2>4. es \in Seq(EventNames) /\ Explains(es, new.version, new.status)
      <3>1. events[t] \in Seq(EventNames) /\ Explains(events[t], task[t].version, task[t].status)
        BY <1>3 DEF Inv, TypeOK, TaskInv, EventNames
      <3>2. CanTransition(task[t].status, "ROUTING")
        BY <2>1 DEF CanTransition, IsTerminal
      <3> HIDE DEF new
      <3> QED
        BY <2>1, <2>2, <2>3, <3>1, <3>2, ExtendPath, SMTT(30) DEF EventNames, Statuses
    <2>5. /\ rec \in Records /\ rec.status = "completed" /\ rec.digest = digest
          /\ rec.response = decision /\ decision \in Responses
      BY <1>3, RecordedTyped DEF Final, Responses
    <2>6. s \in Slots
      BY <1>3, SlotsTyped
    <2> HIDE DEF new, es, rec, s
    <2>7. /\ TaskInv' /\ Advances
          /\ task' \in [Tasks -> Rows] /\ events' \in [Tasks -> Seq(EventNames)]
          /\ task'[t] = new
          /\ \A u \in Tasks : u # t => task'[u] = task[u]
      <3>1. new.version > task[t].version
        BY <2>2, <2>3
      <3> QED
        BY <1>3, <1>6, <2>1, <2>2, <2>3, <2>4, <3>1, TaskMove, Zenon DEF Inv, es
    <2>8. /\ idem' \in [Slots -> Records] /\ idem'[s] = rec
          /\ \A x \in Slots : x # s => idem'[x] = idem[x]
      BY <1>6, <2>0, <2>5, <2>6, SlotWrite, Zenon DEF Inv
    <2>9. FinalKept
      <3>1. idem[s].status \notin Final
        BY <1>6, <2>0 DEF Reservable, Final
      <3> QED
        BY <2>8, <3>1 DEF FinalKept
    <2>10. AnswerInv' /\ answers' \in [Operations \X Keys \X Digests -> SUBSET Responses]
      <3>1. /\ idem'[<<cmd[c].op, key>>].status \in Final
            /\ idem'[<<cmd[c].op, key>>].digest = digest
            /\ idem'[<<cmd[c].op, key>>].response = decision
        BY <2>0, <2>5, <2>8 DEF Final
      <3> QED
        BY <1>3, <1>6, <2>5, <2>9, <3>1, AddAnswer, Zenon DEF Inv
    <2>11. RequestTypes' /\ OthersKept(c) /\ ~Calling(c)' /\ RequestOK(c)'
      BY <1>6, EndStep, Zenon DEF Inv
    <2>12. TypeOK'
      BY <1>6, <2>7, <2>8, <2>10, <2>11, SMTT(30) DEF Inv, TypeOK, RequestTypes, EventNames
    <2>13. RequestInv'
      BY <2>7, <2>11, <2>12, KeepRequests DEF Inv
    <2>14. KeyInv'
      <3>1. \A u \in Tasks, k \in Keys :
               /\ idem'[CreateSlot(k)] = idem[CreateSlot(k)]
               /\ idem'[ModelSlot(u, k)] = idem[ModelSlot(u, k)]
        BY <1>3, <2>8, SlotsTyped, SlotsApart, SMTT(30) DEF s
      <3>2. \A u \in Tasks : task'[u].result = task[u].result
        BY <2>3, <2>7
      <3>3. \A u \in Tasks : task'[u] = task[u] \/ (u = t)
        BY <2>7
      <3>4. \A u \in Tasks : task'[u].status = "none" <=> task[u].status = "none"
        BY SMTT(30), <2>1, <2>3, <2>7, <3>3
      <3>5. \A u \in Tasks : task[u].status \notin {"none", "CREATED", "PLANNING"} =>
                                task'[u].status = task[u].status
        BY <2>1, <3>3
      <3>6. CreateInv'
        BY <1>3, <3>1, <3>4, KeepCreate DEF Inv, KeyInv
      <3>7. RouteInv'
        <4> SUFFICES ASSUME NEW u \in Tasks, NEW k \in Keys,
                            idem'[RouteSlot(u, k)].status = "completed"
                     PROVE  /\ task'[u].route = idem'[RouteSlot(u, k)].response
                            /\ task'[u].status \notin {"none", "CREATED", "PLANNING"}
          BY DEF RouteInv, RouteSlot
        <4>1. CASE RouteSlot(u, k) = s
          <5>1. u = t
            BY <1>3, <4>1, SlotsApart DEF s
          <5> QED
            BY SMTT(30), <2>3, <2>5, <2>7, <2>8, <4>1, <5>1
        <4>2. CASE RouteSlot(u, k) # s
          <5>1. idem'[RouteSlot(u, k)] = idem[RouteSlot(u, k)]
            BY <2>8, <4>2, SlotsTyped
          <5>2. /\ task[u].route = idem[RouteSlot(u, k)].response
                /\ task[u].status \notin {"none", "CREATED", "PLANNING"}
            BY <5>1 DEF Inv, KeyInv, RouteInv
          <5> QED
            BY <2>1, <3>3, <5>1, <5>2
        <4> QED
          BY <4>1, <4>2
      <3>8. ModelInv'
        BY <3>1, <3>2, <3>5, KeepModel DEF Inv, KeyInv
      <3> QED
        BY <3>6, <3>7, <3>8, SMTT(30) DEF KeyInv
    <2>15. CallInv'
      <3>1. \A u \in Tasks, k \in Keys : s # ModelSlot(u, k)
        BY <1>3, SlotsApart DEF s
      <3>2. \A d \in Clients : Calling(d)' =>
               pc'[d] = pc[d] /\ cmd'[d] = cmd[d] /\ outcome'[d] = outcome[d]
        BY <2>11, Zenon DEF OthersKept
      <3> QED
        BY <1>6, <2>5, <2>6, <2>8, <3>1, <3>2, KeepCallsOther, Zenon DEF Inv
    <2> QED
      BY <2>7, <2>10, <2>12, <2>13, <2>14, <2>15 DEF Inv
  <1> QED
    BY <1>4, <1>5, <1>6 DEF CommitRoute

-----------------------------------------------------------------------------
(* The model command.                                                      *)

\* The table part of a begun execution: the task is EXECUTING, by this command or
\* an earlier one.
LEMMA BegunTask ==
    ASSUME TypeOK, TaskInv, NEW t \in Tasks, NEW begun,
           begun = (IF task[t].status = "ROUTING" THEN <<"EXECUTING">> ELSE <<>>),
           task[t].status \in {"ROUTING", "EXECUTING"},
           task' = (IF begun = <<>> THEN task ELSE [task EXCEPT ![t] = Applied(task[t], begun)]),
           events' = [events EXCEPT ![t] = events[t] \o begun],
           UNCHANGED outbox
    PROVE  /\ TaskInv' /\ Advances
           /\ task' \in [Tasks -> Rows] /\ events' \in [Tasks -> Seq(EventNames)]
           /\ task'[t].status = "EXECUTING"
           /\ \A u \in Tasks : u # t => task'[u] = task[u]
           /\ \A u \in Tasks : task'[u].route = task[u].route /\ task'[u].result = task[u].result
  <1>1. CASE task[t].status = "ROUTING"
    <2> DEFINE new == Applied(task[t], <<"EXECUTING">>)
               es == events[t] \o <<"EXECUTING">>
    <2>1. begun = <<"EXECUTING">> /\ <<"EXECUTING">> # <<>>
      BY <1>1
    <2>2. task' = [task EXCEPT ![t] = new] /\ events' = [events EXCEPT ![t] = es]
      BY <2>1, Zenon
    <2>3. task[t] \in Rows /\ task[t].version \in Nat \ {0} /\ task[t].result = None
      BY <1>1, Zenon DEF TypeOK, TaskInv, Rows
    <2>4. /\ new \in Rows /\ new.status = "EXECUTING" /\ new.version = task[t].version + 1
          /\ new.route = task[t].route /\ new.result = task[t].result
      BY <2>3, AppliedOne DEF Statuses
    <2>5. es \in Seq(EventNames) /\ Explains(es, new.version, new.status)
      <3>1. events[t] \in Seq(EventNames) /\ Explains(events[t], task[t].version, task[t].status)
        BY DEF TypeOK, TaskInv, EventNames
      <3>2. CanTransition(task[t].status, "EXECUTING")
        BY <1>1 DEF CanTransition, IsTerminal
      <3> HIDE DEF new
      <3> QED
        BY <1>1, <2>3, <2>4, <3>1, <3>2, ExtendPath, SMTT(30) DEF EventNames, Statuses
    <2> HIDE DEF new, es
    <2>6. new.version > task[t].version
      BY <2>3, <2>4
    <2>7. /\ TaskInv' /\ Advances
          /\ task' \in [Tasks -> Rows] /\ events' \in [Tasks -> Seq(EventNames)]
          /\ task'[t] = new
          /\ \A u \in Tasks : u # t => task'[u] = task[u]
      BY <1>1, <2>2, <2>3, <2>4, <2>5, <2>6, TaskMove, Zenon
    <2> QED
      BY <2>4, <2>7
  <1>2. CASE task[t].status = "EXECUTING"
    <2>1. begun = <<>>
      BY <1>2
    <2>2. \A es \in Seq(EventNames) : es \o <<>> = es
      OBVIOUS
    <2>3. events \in [Tasks -> Seq(EventNames)]
      BY DEF TypeOK, EventNames
    <2>4. task' = task /\ events' = events
      BY <2>1, <2>2, <2>3
    <2>5. \A u \in Tasks : task[u].version \in Nat
      BY DEF TypeOK, Rows
    <2>6. TaskInv'
      <3>1. UNCHANGED <<task, events, outbox>>
        BY <2>4, Zenon
      <3> QED
        BY <3>1, ZenonT(30) DEF TaskInv, Explains
    <2>7. Advances
      BY <2>4, <2>5 DEF Advances
    <2> QED
      BY <1>2, <2>3, <2>4, <2>6, <2>7 DEF TypeOK
  <1> QED
    BY <1>1, <1>2

LEMMA BeginModelExecutionStep ==
    ASSUME Inv, NEW c \in Clients, BeginModelExecution(c)
    PROVE  Inv'
  <1> DEFINE t == cmd[c].op[2]
             key == cmd[c].key
             digest == cmd[c].digest
             s == ModelSlot(t, key)
             rec == Recorded("in_progress", digest, None)
             begun == IF task[t].status = "ROUTING" THEN <<"EXECUTING">> ELSE <<>>
  <1>1. pc[c] = "begin"
    BY Zenon DEF BeginModelExecution
  <1>2. cmd[c] \in Requests /\ cmd[c].op[1] = "model"
    BY <1>1 DEF Inv, RequestInv, RequestOK
  <1>3. /\ t \in Tasks /\ key \in Keys /\ digest \in Digests
        /\ cmd[c].op = <<"model", t>>
    BY <1>2, RequestShape, Zenon
  <1>4. CASE Refuse(c)
    BY <1>4, RefuseStep
  <1>5. CASE Replayable(cmd[c].op, key, digest) /\ Replay(c)
    BY <1>1, <1>5, ReplayStep
  <1>6. CASE /\ Reservable(cmd[c].op, key, digest)
             /\ task[t].status \in {"ROUTING", "EXECUTING"}
             /\ task' = IF begun = <<>> THEN task ELSE [task EXCEPT ![t] = Applied(task[t], begun)]
             /\ events' = [events EXCEPT ![t] = events[t] \o begun]
             /\ idem' = [idem EXCEPT ![<<cmd[c].op, key>>] = rec]
             /\ pc' = [pc EXCEPT ![c] = "call"]
             /\ seen' = [seen EXCEPT ![c] = task'[t]]
             /\ UNCHANGED <<outbox, cmd, outcome, calls, answers>>
    <2>0. <<cmd[c].op, key>> = s /\ Slot(cmd[c]) = s
      BY <1>3 DEF ModelSlot, Slot
    <2> HIDE DEF t, key, digest
    <2>1. /\ TaskInv' /\ Advances
          /\ task' \in [Tasks -> Rows] /\ events' \in [Tasks -> Seq(EventNames)]
          /\ task'[t].status = "EXECUTING"
          /\ \A u \in Tasks : u # t => task'[u] = task[u]
          /\ \A u \in Tasks : task'[u].route = task[u].route /\ task'[u].result = task[u].result
      <3>1. begun = (IF task[t].status = "ROUTING" THEN <<"EXECUTING">> ELSE <<>>)
        OBVIOUS
      <3> HIDE DEF begun
      <3> QED
        BY <1>3, <1>6, <3>1, BegunTask, Zenon DEF Inv
    <2> HIDE DEF begun
    <2>2. /\ rec \in Records /\ rec.status = "in_progress" /\ rec.digest = digest
      BY <1>3, RecordedTyped DEF Responses
    <2>3. s \in Slots
      BY <1>3, SlotsTyped
    <2> HIDE DEF rec, s
    <2>4. /\ idem' \in [Slots -> Records] /\ idem'[s] = rec
          /\ \A x \in Slots : x # s => idem'[x] = idem[x]
      BY <1>6, <2>0, <2>2, <2>3, SlotWrite, Zenon DEF Inv
    <2>5. idem[s].status \in {"none", "failed_retryable"} /\ idem[s].status \notin Final
      BY <1>6, <2>0 DEF Reservable, Final
    <2>6. FinalKept
      BY <2>4, <2>5, SMTT(30) DEF FinalKept
    <2>7. /\ RequestTypes' /\ OthersKept(c)
          /\ pc'[c] = "call" /\ seen'[c] = task'[t] /\ cmd'[c] = cmd[c] /\ cmd' = cmd
      BY <1>3, <1>6, <2>1, SMTT(30) DEF Inv, TypeOK, RequestTypes, OthersKept, Steps
    <2>8. TypeOK'
      BY <1>6, <2>1, <2>4, <2>7, SMTT(30) DEF Inv, TypeOK, RequestTypes, EventNames
    <2>9. RequestInv'
      <3>1. cmd'[c].op[2] = t
        BY <2>7, SMTT(30) DEF t
      <3>2. task'[t] \in Rows /\ task'[t].version \in Nat
        BY <1>3, <2>1, SMTT(30) DEF Rows
      <3>3. Snapshot(seen[c], cmd[c].op[2])'
        BY <2>7, <3>1, <3>2 DEF Snapshot
      <3>4. RequestOK(c)'
        BY <1>2, <2>7, <3>3, SMTT(30) DEF RequestOK
      <3> QED
        BY <2>1, <2>7, <2>8, <3>4, KeepRequests DEF Inv
    <2>10. KeyInv'
      <3>1. \A u \in Tasks, k \in Keys :
               /\ idem'[CreateSlot(k)] = idem[CreateSlot(k)]
               /\ idem'[RouteSlot(u, k)] = idem[RouteSlot(u, k)]
        BY <1>3, <2>4, SlotsTyped, SlotsApart DEF s
      <3>2. \A u \in Tasks, k \in Keys :
               \/ idem'[ModelSlot(u, k)] = idem[ModelSlot(u, k)]
               \/ idem[ModelSlot(u, k)].status \notin Final /\ idem'[ModelSlot(u, k)].status \notin Final
        BY <2>2, <2>4, <2>5, SlotsTyped DEF Final
      <3>3. \A u \in Tasks : \/ task'[u].status = task[u].status
                             \/ /\ task[u].status \in {"ROUTING", "EXECUTING"}
                                /\ task'[u].status = "EXECUTING"
        BY <1>6, <2>1
      <3>4. CreateInv'
        <4>1. \A u \in Tasks : task'[u].status = "none" <=> task[u].status = "none"
          BY <3>3
        <4> QED
          BY <1>3, <3>1, <4>1, KeepCreate DEF Inv, KeyInv
      <3>5. RouteInv'
        <4>1. \A u \in Tasks : task[u].status \notin {"none", "CREATED", "PLANNING"} =>
                                task'[u].status \notin {"none", "CREATED", "PLANNING"}
          BY <3>3
        <4> QED
          BY <2>1, <3>1, <4>1, KeepRoute DEF Inv, KeyInv
      <3>6. ModelInv'
        <4>1. \A u \in Tasks : task[u].status \in {"COMPLETED", "FAILED"} =>
                                task'[u].status = task[u].status
          BY <3>3
        <4> QED
          BY <2>1, <3>2, <4>1, KeepModel DEF Inv, KeyInv
      <3> QED
        BY <3>4, <3>5, <3>6 DEF KeyInv
    <2>11. CallInv'
      <3>1. ASSUME NEW d \in Clients, d # c, Calling(d)'
            PROVE  /\ Calling(d) /\ pc'[d] = pc[d] /\ outcome'[d] = outcome[d]
                   /\ Slot(cmd[d]) \in Slots /\ Slot(cmd[d]) # s
        <4>1. Calling(d) /\ pc'[d] = pc[d] /\ outcome'[d] = outcome[d]
          BY <2>7, <3>1 DEF OthersKept, Calling
        <4>2. HeldBy(cmd[d])
          BY <4>1 DEF Inv, CallInv, CallerOK
        <4>3. idem[Slot(cmd[d])].status = "in_progress"
          BY <4>2 DEF HeldBy, Slot
        <4> QED
          BY <2>5, <4>1, <4>3, CallerSlot DEF Inv
      <3>2. ASSUME NEW x \in Slots
            PROVE  SlotCalls(x)'
        <4>1. SlotCalls(x)
          BY DEF Inv, CallInv
        <4>2. calls' = calls
          BY <1>6
        <4> QED
          BY <2>2, <2>4, <4>1, <4>2 DEF SlotCalls
      <3>3. CallerOK(c)'
        <4>1. AllRetryable(calls[s])
          BY <2>3, <2>5 DEF Inv, CallInv, SlotCalls
        <4>2. calls'[Slot(cmd'[c])] = calls[s]
          BY SMTT(30), <1>6, <2>0, <2>7
        <4>3. HeldBy(cmd[c])'
          BY <2>0, <2>2, <2>4, <2>7 DEF HeldBy, digest, Slot
        <4> QED
          BY <2>7, <4>1, <4>2, <4>3 DEF CallerOK
      <3>4. ASSUME NEW d \in Clients, d # c
            PROVE  CallerOK(d)'
        <4>1. CASE Calling(d)'
          <5>1. CallerOK(d) /\ idem'[Slot(cmd[d])] = idem[Slot(cmd[d])]
            BY <2>4, <3>1, <3>4, <4>1, SMTT(30) DEF Inv, CallInv
          <5>2. calls' = calls /\ cmd' = cmd /\ pc'[d] = pc[d] /\ outcome'[d] = outcome[d]
            BY <1>6, <3>1, <3>4, <4>1
          <5> QED
            BY <5>1, <5>2, SMTT(30) DEF CallerOK, Calling, HeldBy, Slot
        <4>2. CASE ~Calling(d)'
          BY <4>2 DEF CallerOK, Calling
        <4> QED
          BY <4>1, <4>2
      <3>5. OneCaller'
        <4> SUFFICES ASSUME NEW c1 \in Clients, NEW c2 \in Clients, Calling(c1)', Calling(c2)',
                            Slot(cmd[c1]) = Slot(cmd[c2])
                     PROVE  c1 = c2
          BY <2>7, SMTT(30) DEF OneCaller, Calling, Slot
        <4>1. CASE c1 = c \/ c2 = c
          BY SMTT(30), <2>0, <3>1, <4>1
        <4>2. CASE c1 # c /\ c2 # c
          BY <3>1, <4>2 DEF Inv, CallInv, OneCaller
        <4> QED
          BY <4>1, <4>2
      <3> QED
        BY <3>2, <3>3, <3>4, <3>5, SMTT(30) DEF CallInv
    <2>12. AnswerInv'
      BY <1>6, <2>6, KeepAnswers, SMTT(30) DEF Inv
    <2> QED
      BY <2>1, <2>8, <2>9, <2>10, <2>11, <2>12 DEF Inv
  <1> QED
    BY <1>4, <1>5, <1>6, Zenon DEF BeginModelExecution

\* While c is in the middle of a call, no other request is on the same record.
LEMMA OthersElsewhere ==
    ASSUME RequestInv, CallInv, NEW c \in Clients, Calling(c), OthersKept(c),
           NEW d \in Clients, d # c, Calling(d)'
    PROVE  /\ Calling(d)
           /\ pc'[d] = pc[d] /\ cmd'[d] = cmd[d] /\ outcome'[d] = outcome[d]
           /\ Slot(cmd[d]) \in Slots
           /\ Slot(cmd[d]) # Slot(cmd[c])
           /\ CallerOK(d)
  <1>1. pc'[d] = pc[d] /\ cmd'[d] = cmd[d] /\ outcome'[d] = outcome[d]
    BY DEF OthersKept
  <1>2. Calling(d)
    BY <1>1 DEF Calling
  <1>3. Slot(cmd[d]) # Slot(cmd[c]) /\ CallerOK(d)
    BY <1>2 DEF CallInv, OneCaller
  <1> QED
    BY <1>1, <1>2, <1>3, CallerSlot

LEMMA CallProviderStep ==
    ASSUME Inv, NEW c \in Clients, NEW o \in Outcomes, CallProvider(c, o)
    PROVE  Inv'
  <1> DEFINE s == Slot(cmd[c])
  <1>1. Calling(c) /\ pc[c] = "call"
    BY DEF CallProvider, Calling
  <1>2. s \in Slots /\ cmd[c] \in Requests
    BY <1>1, CallerSlot DEF Inv
  <1>3. /\ calls' = [calls EXCEPT ![s] = Append(calls[s], o)]
        /\ outcome' = [outcome EXCEPT ![c] = o]
        /\ pc' = [pc EXCEPT ![c] = "record"]
        /\ UNCHANGED <<store, cmd, seen, answers>>
    BY DEF CallProvider, Slot
  <1>4. /\ RequestTypes' /\ OthersKept(c)
        /\ pc'[c] = "record" /\ cmd'[c] = cmd[c] /\ seen'[c] = seen[c] /\ outcome'[c] = o
    BY <1>3 DEF Inv, TypeOK, RequestTypes, OthersKept, Steps
  <1> HIDE DEF s
  <1>5. /\ calls \in [Slots -> Seq(Outcomes)] /\ calls[s] \in Seq(Outcomes)
    BY <1>2 DEF Inv, TypeOK
  <1>6. Append(calls[s], o) \in Seq(Outcomes)
    BY <1>5
  <1>7. /\ calls' \in [Slots -> Seq(Outcomes)] /\ calls'[s] = Append(calls[s], o)
        /\ \A x \in Slots : x # s => calls'[x] = calls[x]
    BY SMTT(30), <1>2, <1>3, <1>5, <1>6
  <1>8. TypeOK'
    BY <1>3, <1>4, <1>7 DEF Inv, TypeOK, RequestTypes, store
  <1>9. TaskInv' /\ KeyInv' /\ Advances /\ FinalKept
    BY <1>3, StoreKept DEF Inv
  <1>10. RequestInv'
    <2>1. RequestOK(c)
      BY SMTT(30) DEF Inv, RequestInv
    <2>2. Snapshot(seen[c], cmd[c].op[2])'
      BY <1>1, <1>3, <1>4, <2>1 DEF RequestOK, Snapshot, store
    <2>3. RequestOK(c)'
      BY <1>1, <1>4, <2>1, <2>2, Zenon DEF RequestOK
    <2> QED
      BY <1>4, <1>8, <1>9, <2>3, KeepRequests, Zenon DEF Inv
  <1>11. CallInv'
    <2>1. CallerOK(c)
      BY DEF Inv, CallInv
    <2>2. AllRetryable(calls[s]) /\ HeldBy(cmd[c])
      BY <1>1, <2>1 DEF CallerOK, s
    <2>3. idem[s].status = "in_progress"
      BY <2>2 DEF HeldBy, s, Slot
    <2>4. ASSUME NEW x \in Slots
          PROVE  SlotCalls(x)'
      <3>1. SlotCalls(x)
        BY DEF Inv, CallInv
      <3>2. idem' = idem
        BY <1>3 DEF store
      <3>3. CASE x = s
        <4>1. ASSUME NEW i \in 1..(Len(calls'[s]) - 1)
              PROVE  calls'[s][i] = "retryable"
          <5>1. i \in 1..Len(calls[s]) /\ calls'[s][i] = calls[s][i]
            BY <1>5, <1>7
          <5> QED
            BY <2>2, <5>1 DEF AllRetryable
        <4> QED
          BY <2>3, <3>2, <3>3, <4>1 DEF SlotCalls
      <3>4. CASE x # s
        BY <1>7, <3>1, <3>2, <3>4 DEF SlotCalls
      <3> QED
        BY <3>3, <3>4
    <2>5. CallerOK(c)'
      <3>1. HeldBy(cmd[c])'
        BY <1>3, <1>4, <2>2 DEF HeldBy, store
      <3>2. LastIs(calls'[s], o)
        BY <1>5, <1>7, SMTT(30) DEF LastIs
      <3>3. LastIs(calls[Slot(cmd[c])], outcome[c])'
        BY <1>4, <3>2 DEF s, LastIs, Slot
      <3> QED
        BY <1>4, <3>1, <3>3, SMTT(30) DEF CallerOK
    <2>6. ASSUME NEW d \in Clients, d # c
          PROVE  CallerOK(d)'
      <3>1. CASE Calling(d)'
        <4>1. /\ pc'[d] = pc[d] /\ cmd'[d] = cmd[d] /\ outcome'[d] = outcome[d]
              /\ CallerOK(d) /\ calls'[Slot(cmd[d])] = calls[Slot(cmd[d])]
          BY <1>1, <1>4, <1>7, <2>6, <3>1, OthersElsewhere, Zenon DEF Inv, s
        <4>2. idem' = idem
          BY <1>3 DEF store
        <4> QED
          BY <4>1, <4>2, Zenon DEF CallerOK, Calling, HeldBy, Slot
      <3>2. CASE ~Calling(d)'
        BY <3>2 DEF CallerOK, Calling
      <3> QED
        BY <3>1, <3>2
    <2>7. OneCaller'
      <3>1. \A d \in Clients : Calling(d)' => Calling(d)
        BY <1>1, <1>4 DEF OthersKept, Calling
      <3>2. cmd' = cmd
        BY <1>3
      <3> QED
        BY <3>1, <3>2 DEF Inv, CallInv, OneCaller, Slot
    <2> QED
      BY <2>4, <2>5, <2>6, <2>7 DEF CallInv
  <1>12. AnswerInv'
    BY <1>3, <1>9, KeepAnswers DEF Inv
  <1> QED
    BY <1>8, <1>9, <1>10, <1>11, <1>12 DEF Inv

\* The final projection: two moves for a success, one for a final failure.
FinalizedRow(row, o, key) == [Applied(row, FinalPath(o)) EXCEPT !.result = key]

FinalizedWell(row, o, key, new, fs) ==
    /\ new \in Rows
    /\ new.status = IF o = "ok" THEN "COMPLETED" ELSE "FAILED"
    /\ new.version > row.version
    /\ new.route = row.route
    /\ new.result = key
    /\ fs \in Seq(EventNames)
    /\ Explains(fs, new.version, new.status)

LEMMA FinalRow ==
    ASSUME TypeOK, TaskInv, NEW t \in Tasks, NEW o \in {"ok", "final"}, NEW key \in Keys,
           task[t].status = "EXECUTING"
    PROVE  FinalizedWell(task[t], o, key,
                         FinalizedRow(task[t], o, key), events[t] \o FinalPath(o))
  <1>1. task[t] \in Rows /\ task[t].version \in Nat \ {0}
    BY DEF TypeOK, TaskInv, Rows
  <1>2. events[t] \in Seq(EventNames) /\ Explains(events[t], task[t].version, "EXECUTING")
    BY DEF TypeOK, TaskInv, EventNames
  <1> DEFINE row == Applied(task[t], FinalPath(o))
             new == FinalizedRow(task[t], o, key)
  <1>3. CASE o = "ok"
    <2>1. FinalPath(o) = <<"VALIDATING", "COMPLETED">>
      BY <1>3 DEF FinalPath
    <2>2. /\ row \in Rows /\ row.status = "COMPLETED" /\ row.version = task[t].version + 2
          /\ row.route = task[t].route
      <3>1. "COMPLETED" \in Statuses
        BY DEF Statuses
      <3> DEFINE via == "VALIDATING"
      <3>2. row = Applied(task[t], <<via, "COMPLETED">>)
        BY <2>1
      <3> HIDE DEF row, via
      <3> QED
        BY <1>1, <3>1, <3>2, AppliedTwo
    <2> HIDE DEF row
    <2>3. /\ new \in Rows /\ new.status = row.status /\ new.version = row.version
          /\ new.route = row.route /\ new.result = key
      <3>1. new = [row EXCEPT !.result = key]
        BY DEF row, FinalizedRow
      <3> QED
        BY <2>2, <3>1 DEF Rows
    <2>4. /\ events[t] \o <<"VALIDATING">> \in Seq(EventNames)
          /\ Explains(events[t] \o <<"VALIDATING">>, task[t].version + 1, "VALIDATING")
      <3>1. CanTransition("EXECUTING", "VALIDATING")
        BY DEF CanTransition, IsTerminal
      <3> QED
        BY <1>1, <1>2, <3>1, ExtendPath, Zenon DEF EventNames
    <2> DEFINE es == (events[t] \o <<"VALIDATING">>) \o <<"COMPLETED">>
    <2>5. es \in Seq(EventNames) /\ Explains(es, (task[t].version + 1) + 1, "COMPLETED")
      <3>1. CanTransition("VALIDATING", "COMPLETED")
        BY DEF CanTransition, IsTerminal
      <3>2. task[t].version + 1 \in Nat \ {0}
        BY SMTT(30), <1>1
      <3> QED
        BY <2>4, <3>1, <3>2, ExtendPath, Zenon DEF EventNames, Statuses
    <2>6. es = events[t] \o <<"VALIDATING", "COMPLETED">>
      BY <1>2
    <2> HIDE DEF es, new
    <2>7. (task[t].version + 1) + 1 = new.version /\ new.version > task[t].version
      BY <1>1, <2>2, <2>3
    <2> QED
      BY <1>3, <2>1, <2>2, <2>3, <2>5, <2>6, <2>7, ZenonT(30) DEF FinalizedWell, new
  <1>4. CASE o = "final"
    <2>1. FinalPath(o) = <<"FAILED">>
      BY <1>4 DEF FinalPath
    <2>2. /\ row \in Rows /\ row.status = "FAILED" /\ row.version = task[t].version + 1
          /\ row.route = task[t].route
      BY <1>1, <2>1, AppliedOne DEF Statuses
    <2> HIDE DEF row
    <2>3. /\ new \in Rows /\ new.status = row.status /\ new.version = row.version
          /\ new.route = row.route /\ new.result = key
      <3>1. new = [row EXCEPT !.result = key]
        BY DEF row, FinalizedRow
      <3> QED
        BY <2>2, <3>1 DEF Rows
    <2>4. /\ events[t] \o <<"FAILED">> \in Seq(EventNames)
          /\ Explains(events[t] \o <<"FAILED">>, task[t].version + 1, "FAILED")
      <3>1. CanTransition("EXECUTING", "FAILED")
        BY DEF CanTransition, IsTerminal
      <3> QED
        BY <1>1, <1>2, <3>1, ExtendPath DEF EventNames, Statuses
    <2> HIDE DEF new
    <2>5. new.version > task[t].version
      BY <1>1, <2>2, <2>3
    <2> QED
      BY <1>4, <2>1, <2>2, <2>3, <2>4, <2>5, Zenon DEF FinalizedWell, new
  <1> QED
    BY SMTT(30), <1>3, <1>4

LEMMA FinalizeModelExecutionStep ==
    ASSUME Inv, NEW c \in Clients, FinalizeModelExecution(c)
    PROVE  Inv'
  <1> DEFINE t == cmd[c].op[2]
             key == cmd[c].key
             digest == cmd[c].digest
             o == outcome[c]
             s == ModelSlot(t, key)
             rec == Recorded(FinalStatus(o), digest, o)
             new == FinalizedRow(task[t], o, key)
             es == events[t] \o FinalPath(o)
  <1>1. pc[c] = "record" /\ Calling(c) /\ o \in {"ok", "final"}
    BY DEF FinalizeModelExecution, Calling
  <1>2. cmd[c] \in Requests /\ cmd[c].op[1] = "model"
    BY <1>1 DEF Inv, RequestInv, RequestOK
  <1>3. /\ t \in Tasks /\ key \in Keys /\ digest \in Digests
        /\ cmd[c].op = <<"model", t>> /\ cmd[c].op \in Operations
    BY <1>2, RequestShape, ZenonT(30)
  <1>4. CASE Refuse(c)
    BY <1>4, RefuseStep
  <1>5. CASE /\ HeldBy(cmd[c]) /\ Finalizable(t, seen[c])
             /\ task' = [task EXCEPT ![t] = new]
             /\ events' = [events EXCEPT ![t] = es]
             /\ idem' = [idem EXCEPT ![<<cmd[c].op, key>>] = rec]
             /\ Answer(cmd[c].op, key, digest, o)
             /\ End(c)
             /\ UNCHANGED <<outbox, calls>>
    <2>0. <<cmd[c].op, key>> = s /\ Slot(cmd[c]) = s
      BY <1>3, SMTT(30) DEF ModelSlot, Slot
    <2> HIDE DEF t, key, digest, o, new, es
    <2>1. task[t].status = "EXECUTING"
      BY <1>5, SMTT(30) DEF Finalizable
    <2>2. /\ new \in Rows
          /\ new.status = IF o = "ok" THEN "COMPLETED" ELSE "FAILED"
          /\ new.version > task[t].version
          /\ new.route = task[t].route
          /\ new.result = key
          /\ es \in Seq(EventNames)
          /\ Explains(es, new.version, new.status)
      BY <1>1, <1>3, <2>1, FinalRow DEF Inv, new, es, FinalizedWell
    <2>3. /\ rec \in Records /\ rec.status \in Final /\ rec.digest = digest
          /\ rec.response = o /\ o \in Responses
      <3>1. FinalStatus(o) \in Final
        BY DEF FinalStatus, Final
      <3>2. o \in Responses
        BY <1>1 DEF Responses
      <3>3. FinalStatus(o) \in {"in_progress", "failed_retryable"} \cup Final
        BY <3>1
      <3>4. digest \in Digests
        BY <1>3
      <3> HIDE DEF o, digest
      <3>5. /\ Recorded(FinalStatus(o), digest, o) \in Records
            /\ Recorded(FinalStatus(o), digest, o).status = FinalStatus(o)
            /\ Recorded(FinalStatus(o), digest, o).digest = digest
            /\ Recorded(FinalStatus(o), digest, o).response = o
        <4> DEFINE st == FinalStatus(o)
        <4>1. st \in {"in_progress", "failed_retryable"} \cup Final
          BY <3>3
        <4> HIDE DEF st
        <4>2. /\ Recorded(st, digest, o) \in Records
              /\ Recorded(st, digest, o).status = st
              /\ Recorded(st, digest, o).digest = digest
              /\ Recorded(st, digest, o).response = o
          BY ONLY <3>2, <3>4, <4>1, RecordedTyped
        <4> QED
          BY ONLY <4>2 DEF st
      <3> QED
        BY ONLY <3>1, <3>2, <3>5, Zenon DEF rec
    <2>4. s \in Slots
      BY <1>3, SlotsTyped
    <2> HIDE DEF rec, s
    <2>5. /\ TaskInv' /\ Advances
          /\ task' \in [Tasks -> Rows] /\ events' \in [Tasks -> Seq(EventNames)]
          /\ task'[t] = new
          /\ \A u \in Tasks : u # t => task'[u] = task[u]
      <3>1. new.status \in {"COMPLETED", "FAILED"} /\ new.status # "none"
        BY <2>2
      <3> QED
        BY <1>3, <1>5, <2>1, <2>2, <3>1, TaskMove, Zenon DEF Inv
    <2>6. /\ idem' \in [Slots -> Records] /\ idem'[s] = rec
          /\ \A x \in Slots : x # s => idem'[x] = idem[x]
      BY <1>5, <2>0, <2>3, <2>4, SlotWrite, Zenon DEF Inv
    <2>7. FinalKept
      <3>1. idem[s].status = "in_progress"
        BY <1>5, <2>0, Zenon DEF HeldBy, Slot
      <3> QED
        BY <2>6, <3>1 DEF FinalKept, Final
    <2>8. AnswerInv' /\ answers' \in [Operations \X Keys \X Digests -> SUBSET Responses]
      <3>1. /\ idem'[<<cmd[c].op, key>>].status \in Final
            /\ idem'[<<cmd[c].op, key>>].digest = digest
            /\ idem'[<<cmd[c].op, key>>].response = o
        BY SMTT(30), <2>0, <2>3, <2>6
      <3> QED
        BY <1>3, <1>5, <2>3, <2>7, <3>1, AddAnswer, Zenon DEF Inv
    <2>9. RequestTypes' /\ OthersKept(c) /\ ~Calling(c)' /\ RequestOK(c)'
      BY <1>5, EndStep DEF Inv
    <2>10. TypeOK'
      BY <1>5, <2>5, <2>6, <2>8, <2>9 DEF Inv, TypeOK, RequestTypes, EventNames
    <2>11. RequestInv'
      BY <2>5, <2>9, <2>10, KeepRequests, SMTT(30) DEF Inv
    <2>12. KeyInv'
      <3>1. \A u \in Tasks, k \in Keys :
               /\ idem'[CreateSlot(k)] = idem[CreateSlot(k)]
               /\ idem'[RouteSlot(u, k)] = idem[RouteSlot(u, k)]
        BY <1>3, <2>6, SlotsTyped, SlotsApart, SMTT(30) DEF s
      <3>2. \A u \in Tasks : task'[u] = task[u] \/ u = t
        BY <2>5
      <3>3. task'[t].status \in {"COMPLETED", "FAILED"} /\ task'[t].route = task[t].route
        BY <2>2, <2>5
      <3>4. CreateInv'
        <4>1. \A u \in Tasks : task'[u].status = "none" <=> task[u].status = "none"
          BY <2>1, <3>2, <3>3
        <4> QED
          BY <1>3, <3>1, <4>1, KeepCreate DEF Inv, KeyInv
      <3>5. RouteInv'
        <4>1. \A u \in Tasks : task[u].status \notin {"none", "CREATED", "PLANNING"} =>
                                task'[u].status \notin {"none", "CREATED", "PLANNING"}
          BY <3>2, <3>3
        <4>2. \A u \in Tasks : task'[u].route = task[u].route
          BY SMTT(30), <3>2, <3>3
        <4> QED
          BY <3>1, <4>1, <4>2, KeepRoute DEF Inv, KeyInv
      <3>6. ModelInv'
        <4> SUFFICES ASSUME NEW u \in Tasks, NEW k \in Keys
                     PROVE  /\ idem'[ModelSlot(u, k)].status \in Final =>
                                  /\ task'[u].result = k
                                  /\ task'[u].status =
                                        IF idem'[ModelSlot(u, k)].response = "ok" THEN "COMPLETED" ELSE "FAILED"
                            /\ task'[u].result = k => idem'[ModelSlot(u, k)].status \in Final
          BY Zenon DEF ModelInv, ModelSlot
        <4>1. /\ idem[ModelSlot(u, k)].status \in Final =>
                  /\ task[u].result = k
                  /\ task[u].status = IF idem[ModelSlot(u, k)].response = "ok" THEN "COMPLETED" ELSE "FAILED"
              /\ task[u].result = k => idem[ModelSlot(u, k)].status \in Final
          BY SMTT(30) DEF Inv, KeyInv, ModelInv
        <4>2. CASE u = t /\ k = key
          <5>1. ModelSlot(u, k) = s
            BY <4>2, SMTT(30) DEF s
          <5> QED
            BY <2>2, <2>3, <2>5, <2>6, <4>2, <5>1
        <4>3. CASE u = t /\ k # key
          <5>1. ModelSlot(u, k) # s
            BY <1>3, <4>3, SlotsApart, SMTT(30) DEF s
          <5>2. idem'[ModelSlot(u, k)] = idem[ModelSlot(u, k)]
            BY <2>6, <5>1, SlotsTyped
          <5>3. idem[ModelSlot(u, k)].status \notin Final
            BY <2>1, <4>1, <4>3
          <5> QED
            BY ZenonT(30), <2>2, <2>5, <4>3, <5>2, <5>3
        <4>4. CASE u # t
          <5>1. ModelSlot(u, k) # s
            BY <1>3, <4>4, SlotsApart, SMTT(30) DEF s
          <5>2. idem'[ModelSlot(u, k)] = idem[ModelSlot(u, k)]
            BY <2>6, <5>1, SlotsTyped
          <5> QED
            BY SMTT(30), <2>5, <4>1, <4>4, <5>2
        <4> QED
          BY <4>2, <4>3, <4>4
      <3> QED
        BY <3>4, <3>5, <3>6 DEF KeyInv
    <2>13. CallInv'
      <3>1. \A x \in Slots : idem'[x] = idem[x] \/ idem'[x].status \in Final
        BY SMTT(30), <2>3, <2>6
      <3>2. ASSUME NEW d \in Clients, Calling(d)'
            PROVE  /\ pc'[d] = pc[d] /\ cmd'[d] = cmd[d] /\ outcome'[d] = outcome[d]
                   /\ idem'[Slot(cmd[d])] = idem[Slot(cmd[d])]
        <4>1. d # c
          BY <2>9, <3>2
        <4> QED
          BY <1>1, <2>0, <2>6, <2>9, <3>2, <4>1, OthersElsewhere DEF Inv
      <3> QED
        BY <1>5, <3>1, <3>2, KeepCalls DEF Inv
    <2> QED
      BY <2>5, <2>8, <2>10, <2>11, <2>12, <2>13 DEF Inv
  <1> QED
    BY <1>4, <1>5, Zenon DEF FinalizeModelExecution, FinalizedRow

LEMMA MarkModelExecutionRetryableStep ==
    ASSUME Inv, NEW c \in Clients, MarkModelExecutionRetryable(c)
    PROVE  Inv'
  <1> DEFINE key == cmd[c].key
             digest == cmd[c].digest
             s == Slot(cmd[c])
             rec == Recorded("failed_retryable", digest, None)
  <1>1. pc[c] = "record" /\ Calling(c) /\ outcome[c] = "retryable"
    BY DEF MarkModelExecutionRetryable, Calling
  <1>2. cmd[c] \in Requests /\ s \in Slots /\ s = ModelSlot(cmd[c].op[2], key)
    BY <1>1, CallerSlot DEF Inv
  <1>3. cmd[c].op[2] \in Tasks /\ key \in Keys /\ digest \in Digests
    BY <1>2, RequestShape, Zenon
  <1>4. CASE Refuse(c)
    BY <1>4, RefuseStep
  <1>5. CASE /\ HeldBy(cmd[c])
             /\ idem' = [idem EXCEPT ![s] = rec]
             /\ End(c)
             /\ UNCHANGED <<task, events, outbox, calls, answers>>
    <2>1. idem[s].status = "in_progress"
      BY <1>5 DEF HeldBy, Slot
    <2>2. rec \in Records /\ rec.status = "failed_retryable"
      BY <1>3, RecordedTyped DEF Responses
    <2> HIDE DEF s, rec, key, digest
    <2>3. /\ idem' \in [Slots -> Records] /\ idem'[s] = rec
          /\ \A x \in Slots : x # s => idem'[x] = idem[x]
      BY <1>2, <1>5, <2>2, SlotWrite, Zenon DEF Inv
    <2>4. FinalKept
      BY <2>1, <2>3, SMTT(30) DEF FinalKept, Final
    <2>5. RequestTypes' /\ OthersKept(c) /\ ~Calling(c)' /\ RequestOK(c)'
      BY <1>5, EndStep DEF Inv
    <2>6. TypeOK'
      BY <1>5, <2>3, <2>5 DEF Inv, TypeOK, RequestTypes
    <2>7. Advances
      <3>1. \A t \in Tasks : task[t].version \in Nat
        BY Zenon DEF Inv, TypeOK, Rows
      <3> QED
        BY <1>5, <3>1 DEF Advances
    <2>8. TaskInv'
      <3>1. UNCHANGED <<task, events, outbox>>
        BY <1>5
      <3> QED
        BY <3>1, Zenon DEF Inv, TaskInv, Explains
    <2>9. RequestInv'
      BY <2>5, <2>6, <2>7, KeepRequests, SMTT(30) DEF Inv
    <2>10. KeyInv'
      <3>1. \A t \in Tasks, k \in Keys :
               /\ idem'[CreateSlot(k)] = idem[CreateSlot(k)]
               /\ idem'[RouteSlot(t, k)] = idem[RouteSlot(t, k)]
        BY <1>2, <1>3, <2>3, SlotsTyped, SlotsApart
      <3>2. \A t \in Tasks, k \in Keys :
               \/ idem'[ModelSlot(t, k)] = idem[ModelSlot(t, k)]
               \/ idem[ModelSlot(t, k)].status \notin Final /\ idem'[ModelSlot(t, k)].status \notin Final
        BY <2>1, <2>2, <2>3, SlotsTyped DEF Final
      <3>3. task' = task
        BY <1>5
      <3>4. CreateInv'
        BY <1>3, <3>1, <3>3, KeepCreate DEF Inv, KeyInv
      <3>5. RouteInv'
        BY <3>1, <3>3, KeepRoute DEF Inv, KeyInv
      <3>6. ModelInv'
        BY <3>2, <3>3, KeepModel DEF Inv, KeyInv
      <3> QED
        BY <3>4, <3>5, <3>6 DEF KeyInv
    <2>11. CallInv'
      <3>1. CallerOK(c) /\ SlotCalls(s)
        BY <1>2, SMTT(30) DEF Inv, CallInv
      <3>2. LastIs(calls[s], "retryable")
        BY <1>1, <3>1 DEF CallerOK, s
      <3>3. AllRetryable(calls[s])
        <4>1. Len(calls[s]) \in Nat
          BY <1>2 DEF Inv, TypeOK
        <4>2. \A i \in 1..Len(calls[s]) : i \in 1..(Len(calls[s]) - 1) \/ i = Len(calls[s])
          BY <4>1
        <4> QED
          BY <3>1, <3>2, <4>2, SMTT(30) DEF SlotCalls, LastIs, AllRetryable
      <3>4. ASSUME NEW x \in Slots
            PROVE  SlotCalls(x)'
        <4>1. SlotCalls(x) /\ calls' = calls
          BY <1>5 DEF Inv, CallInv
        <4> QED
          BY <2>3, <3>3, <4>1 DEF SlotCalls
      <3>5. ASSUME NEW d \in Clients, Calling(d)'
            PROVE  /\ Calling(d)
                   /\ pc'[d] = pc[d] /\ cmd'[d] = cmd[d] /\ outcome'[d] = outcome[d]
                   /\ CallerOK(d) /\ idem'[Slot(cmd[d])] = idem[Slot(cmd[d])]
        <4>1. d # c
          BY <2>5, <3>5
        <4> QED
          BY <1>1, <2>3, <2>5, <3>5, <4>1, OthersElsewhere, SMTT(30) DEF Inv, s
      <3>6. ASSUME NEW d \in Clients
            PROVE  CallerOK(d)'
        <4>1. CASE Calling(d)'
          <5>1. /\ pc'[d] = pc[d] /\ cmd'[d] = cmd[d] /\ outcome'[d] = outcome[d] /\ calls' = calls
                /\ CallerOK(d) /\ idem'[Slot(cmd[d])] = idem[Slot(cmd[d])]
            BY <1>5, <3>5, <4>1, Zenon
          <5> QED
            BY <5>1 DEF CallerOK, Calling, HeldBy, Slot
        <4>2. CASE ~Calling(d)'
          BY <4>2, Zenon DEF CallerOK, Calling
        <4> QED
          BY <4>1, <4>2
      <3>7. OneCaller'
        BY <3>5, Zenon DEF Inv, CallInv, OneCaller, Calling, Slot
      <3> QED
        BY <3>4, <3>6, <3>7 DEF CallInv
    <2>12. AnswerInv'
      BY <1>5, <2>4, KeepAnswers DEF Inv
    <2> QED
      BY <2>6, <2>8, <2>9, <2>10, <2>11, <2>12 DEF Inv
  <1> QED
    BY <1>4, <1>5 DEF MarkModelExecutionRetryable, Slot

-----------------------------------------------------------------------------
(* The invariant.                                                          *)

LEMMA InitInv == Init => Inv
  <1> SUFFICES ASSUME Init PROVE Inv
    OBVIOUS
  <1> DEFINE row0 == [status |-> "none", version |-> 0, route |-> None, result |-> None]
  <1>1. row0 \in Rows /\ row0.status = "none" /\ row0.version = 0 /\ row0.result = None
    BY DEF Rows, Statuses
  <1>2. NoRecord \in Records /\ NoRecord.status = "none" /\ NoRecord.response = None
    BY DEF NoRecord, Records, Responses
  <1> HIDE DEF row0
  <1>3. /\ task = [t \in Tasks |-> row0] /\ events = [t \in Tasks |-> <<>>]
        /\ outbox = [t \in Tasks |-> 0] /\ idem = [s \in Slots |-> NoRecord]
        /\ pc = [c \in Clients |-> "idle"] /\ cmd = [c \in Clients |-> None]
        /\ seen = [c \in Clients |-> None] /\ outcome = [c \in Clients |-> None]
        /\ calls = [s \in Slots |-> <<>>]
        /\ answers = [s \in Operations \X Keys \X Digests |-> {}]
    BY SMTT(30) DEF Init, Slots, row0
  <1>4. TypeOK
    BY <1>1, <1>2, <1>3 DEF TypeOK, Steps
  <1>5. TaskInv
    BY <1>1, <1>3 DEF TaskInv, Explains
  <1>6. KeyInv
    <2>1. /\ \A k \in Keys : idem[CreateSlot(k)] = NoRecord
          /\ \A t \in Tasks, k \in Keys : idem[RouteSlot(t, k)] = NoRecord
                                          /\ idem[ModelSlot(t, k)] = NoRecord
      BY <1>3, SlotsTyped
    <2>2. \A t \in Tasks : t # None
      BY TaskConstants
    <2>3. \A k \in Keys : k # None
      BY TaskConstants
    <2>4. \A t \in Tasks : task[t].status = "none" /\ task[t].result = None
      BY <1>1, <1>3
    <2>5. CreateInv
      BY <1>2, <2>1, <2>2, <2>4 DEF CreateInv
    <2>6. RouteInv
      BY <1>2, <2>1 DEF RouteInv
    <2>7. ModelInv
      BY <1>2, <2>1, <2>3, <2>4, SMTT(30) DEF ModelInv, Final
    <2> QED
      BY <2>5, <2>6, <2>7 DEF KeyInv
  <1>7. RequestInv
    BY <1>3 DEF RequestInv, RequestOK
  <1>8. CallInv
    BY <1>3 DEF CallInv, SlotCalls, AllRetryable, CallerOK, Calling, OneCaller
  <1>9. AnswerInv
    <2> SUFFICES ASSUME NEW s \in Slots, NEW d \in Digests PROVE answers[<<s[1], s[2], d>>] = {}
      BY DEF AnswerInv
    <2>1. <<s[1], s[2], d>> \in Operations \X Keys \X Digests
      BY DEF Slots
    <2> QED
      BY <1>3, <2>1
  <1> QED
    BY <1>4, <1>5, <1>6, <1>7, <1>8, <1>9 DEF Inv

LEMMA NextInv == Inv /\ [Next]_vars => Inv'
  <1> SUFFICES ASSUME Inv, [Next]_vars PROVE Inv'
    OBVIOUS
  <1>1. CASE UNCHANGED vars
    <2>1. UNCHANGED <<store, request, calls>> /\ UNCHANGED answers
      BY <1>1 DEF vars
    <2>2. AnswerInv'
      BY <2>1, StoreKept, KeepAnswers DEF Inv
    <2>3. answers' \in [Operations \X Keys \X Digests -> SUBSET Responses]
      BY <2>1 DEF Inv, TypeOK
    <2> QED
      BY <2>1, <2>2, <2>3, AnswerStep
  <1>2. ASSUME NEW body \in Bodies,
               (\E t \in Tasks : CreateTask(body[1], body[2], t)) \/ CreateTaskReplay(body[1], body[2])
        PROVE  Inv'
    <2>1. body[1] \in Keys /\ body[2] \in Digests
      BY TaskConstants
    <2> QED
      BY <1>2, <2>1, CreateTaskStep, CreateTaskReplayStep
  <1>3. ASSUME NEW c \in Clients, NEW r \in Requests, Lookup(c, r)
        PROVE  Inv'
    BY <1>3, LookupStep
  <1>4. ASSUME NEW c \in Clients, Load(c) PROVE Inv'
    BY <1>4, LoadStep
  <1>5. ASSUME NEW c \in Clients, CommitPlanning(c) PROVE Inv'
    BY <1>5, CommitPlanningStep
  <1>6. ASSUME NEW c \in Clients, Reload(c) PROVE Inv'
    BY <1>6, ReloadStep
  <1>7. ASSUME NEW c \in Clients, Relookup(c) PROVE Inv'
    BY <1>7, RelookupStep
  <1>8. ASSUME NEW c \in Clients, NEW decision \in Decisions, CommitRoute(c, decision)
        PROVE  Inv'
    BY <1>8, CommitRouteStep
  <1>9. ASSUME NEW c \in Clients, BeginModelExecution(c) PROVE Inv'
    BY <1>9, BeginModelExecutionStep
  <1>10. ASSUME NEW c \in Clients, NEW o \in {"ok", "retryable", "final"}, CallProvider(c, o)
         PROVE  Inv'
    BY <1>10, CallProviderStep DEF Outcomes
  <1>11. ASSUME NEW c \in Clients, FinalizeModelExecution(c) PROVE Inv'
    BY <1>11, FinalizeModelExecutionStep
  <1>12. ASSUME NEW c \in Clients, MarkModelExecutionRetryable(c) PROVE Inv'
    BY <1>12, MarkModelExecutionRetryableStep
  <1>13. ASSUME NEW c \in Clients, Abandon(c) PROVE Inv'
    BY <1>13, AbandonStep
  <1> QED
    BY <1>1, <1>2, <1>3, <1>4, <1>5, <1>6, <1>7, <1>8, <1>9, <1>10, <1>11, <1>12, <1>13 DEF Next

\* Every reachable state of the command kernel satisfies the inductive invariant,
\* whichever transactions of CreateTask, DecideRoute and ExecuteModel raced.
THEOREM InvHolds == Spec => []Inv
  BY InitInv, NextInv, PTL DEF Spec

-----------------------------------------------------------------------------
\* The events of a task are a gap-free path of the state machine to its status,
\* and its version counts them, for any number of racing commands: every transaction
\* that moves a task inserts its event and compares the version it read.
THEOREM EventsExplained == Spec => []EventsExplainTask
  <1>1. Inv => EventsExplainTask
    BY DEF Inv, TaskInv, Explains, EventsExplainTask
  <1> QED
    BY <1>1, InvHolds, PTL

\* A task exists exactly when one completed create command answers with it, and it
\* has one workflow.start message: CreateTask is one transaction.
THEOREM TaskCreatedOnce == Spec => []CreatedOnce
  <1>1. ASSUME Inv PROVE CreatedOnce
    <2> SUFFICES ASSUME NEW t \in Tasks
                 PROVE  LET creators == {k \in Keys : idem[<<<<"create", None>>, k>>].response = t}
                            exists == task[t].status # "none"
                        IN  /\ \A j, k \in creators : j = k
                            /\ exists <=> creators # {}
                            /\ outbox[t] = IF exists THEN 1 ELSE 0
      BY DEF CreatedOnce
    <2> DEFINE creators == {k \in Keys : idem[CreateSlot(k)].response = t}
    <2>1. outbox[t] = IF task[t].status # "none" THEN 1 ELSE 0
      BY <1>1 DEF Inv, TaskInv
    <2>2. CASE task[t].status = "none"
      <3>1. creators = {}
        BY <1>1, <2>2 DEF Inv, KeyInv, CreateInv
      <3> QED
        BY <2>1, <2>2, <3>1, Zenon DEF CreateSlot
    <2>3. CASE task[t].status # "none"
      <3>1. PICK k \in Keys : idem[CreateSlot(k)].response = t
        BY <1>1, <2>3 DEF Inv, KeyInv, CreateInv
      <3>2. \A j \in Keys : idem[CreateSlot(j)].response = t => j = k
        BY <1>1, <3>1 DEF Inv, KeyInv, CreateInv
      <3>3. creators = {k}
        BY <3>1, <3>2
      <3> QED
        BY <2>1, <2>3, <3>3, Zenon DEF CreateSlot
    <2> QED
      BY <2>2, <2>3
  <1> QED
    BY <1>1, InvHolds, PTL

\* The decision a completed route command answers is the one the task carries:
\* CommitRouteTransition checks the status in the transaction that writes both.
THEOREM RouteAnswered == Spec => []RouteIsTheAnswered
  <1>1. Inv => RouteIsTheAnswered
    BY DEF Inv, KeyInv, RouteInv, RouteIsTheAnswered, RouteSlot
  <1> QED
    BY <1>1, InvHolds, PTL

\* Only the model command whose result the task carries is completed or failed for
\* good, and its stored answer is how the task ended: FinalizeModelExecution writes
\* the projection and the record in one transaction.
THEOREM ResultAnswered == Spec => []ResultIsTheAnswered
  <1>1. ASSUME Inv PROVE ResultIsTheAnswered
    <2> SUFFICES ASSUME NEW t \in Tasks, NEW k \in Keys
                 PROVE  idem[ModelSlot(t, k)].status \in Final <=>
                           /\ task[t].result = k
                           /\ task[t].status =
                                 (IF idem[ModelSlot(t, k)].response = "ok" THEN "COMPLETED" ELSE "FAILED")
      BY Zenon DEF ResultIsTheAnswered, ModelSlot, Final
    <2> QED
      BY <1>1 DEF Inv, KeyInv, ModelInv
  <1> QED
    BY <1>1, InvHolds, PTL

\* A command calls the provider again only after a call it knows to be retryable:
\* the in_progress record excludes a second caller, and only MarkModelExecutionRetryable
\* gives it back.
THEOREM CalledAgainAfterRetryable == Spec => []CalledAgainOnlyAfterRetryable
  <1>1. Inv => CalledAgainOnlyAfterRetryable
    BY DEF Inv, CallInv, SlotCalls, CalledAgainOnlyAfterRetryable, Slots
  <1> QED
    BY <1>1, InvHolds, PTL

\* All the answers a key ever gives are one answer to requests with one digest:
\* reserveIdempotency compares the digest and replays the stored response.
THEOREM OneAnswer == Spec => []OneAnswerPerKey
  <1>1. ASSUME Inv PROVE OneAnswerPerKey
    <2> SUFFICES ASSUME NEW s \in Slots
                 PROVE  LET given == {x \in Digests \X Responses : x[2] \in answers[<<s[1], s[2], x[1]>>]}
                        IN  \A x, y \in given : x = y
      BY DEF OneAnswerPerKey, Slots
    <2> DEFINE given == {x \in Digests \X Responses : x[2] \in answers[<<s[1], s[2], x[1]>>]}
    <2>1. \A x \in given : x = <<idem[s].digest, idem[s].response>>
      <3> SUFFICES ASSUME NEW x \in given PROVE x = <<idem[s].digest, idem[s].response>>
        OBVIOUS
      <3>1. x = <<x[1], x[2]>> /\ x[1] \in Digests /\ x[2] \in answers[<<s[1], s[2], x[1]>>]
        OBVIOUS
      <3>2. idem[s].digest = x[1] /\ x[2] = idem[s].response
        BY <1>1, <3>1 DEF Inv, AnswerInv
      <3> QED
        BY <3>1, <3>2
    <2> QED
      BY <2>1
  <1> QED
    BY <1>1, InvHolds, PTL

-----------------------------------------------------------------------------
(* What no step undoes.                                                    *)

Kept ==
    /\ \A t \in Tasks :
          /\ Len(events[t]) <= Len(events'[t])
          /\ events[t] = SubSeq(events'[t], 1, Len(events[t]))
    /\ \A s \in Slots :
          /\ idem[s].status \in Final => idem'[s] = idem[s]
          /\ (idem[s].status = "in_progress" /\ idem'[s].status # "in_progress") =>
                \E c \in Clients : pc[c] = "record" /\ <<cmd[c].op, cmd[c].key>> = s

LEMMA PrefixKept ==
    ASSUME NEW es \in Seq(EventNames), NEW path \in Seq(EventNames)
    PROVE  Len(es) <= Len(es \o path) /\ es = SubSeq(es \o path, 1, Len(es))
  OBVIOUS

LEMMA EventsKept ==
    ASSUME TypeOK,
           \/ events' = events
           \/ \E t \in Tasks, path \in Seq(EventNames) : events' = [events EXCEPT ![t] = events[t] \o path]
    PROVE  \A t \in Tasks :
               /\ Len(events[t]) <= Len(events'[t])
               /\ events[t] = SubSeq(events'[t], 1, Len(events[t]))
  <1>1. events \in [Tasks -> Seq(EventNames)]
    BY DEF TypeOK, EventNames
  <1>2. ASSUME NEW t \in Tasks
        PROVE  \E path \in Seq(EventNames) : events'[t] = events[t] \o path
    <2>1. CASE events' = events
      <3>1. <<>> \in Seq(EventNames) /\ events[t] \o <<>> = events[t]
        BY <1>1
      <3> QED
        BY <2>1, <3>1, Zenon
    <2>2. CASE \E u \in Tasks, path \in Seq(EventNames) : events' = [events EXCEPT ![u] = events[u] \o path]
      <3>1. PICK u \in Tasks, path \in Seq(EventNames) : events' = [events EXCEPT ![u] = events[u] \o path]
        BY <2>2, Zenon
      <3>2. <<>> \in Seq(EventNames) /\ events[t] \o <<>> = events[t]
        BY <1>1
      <3>3. CASE u = t
        BY <1>1, <3>1, <3>3
      <3>4. CASE u # t
        <4>1. events'[t] = events[t]
          BY <1>1, <3>1, <3>4
        <4> QED
          BY <3>2, <4>1, Zenon
      <3> QED
        BY <3>3, <3>4
    <2> QED
      BY <2>1, <2>2
  <1> QED
    BY <1>1, <1>2, PrefixKept

\* A record is written only when it is not final, and one in progress only by the
\* request that holds it.
LEMMA RecordsKept ==
    ASSUME TypeOK,
           \/ idem' = idem
           \/ \E s \in Slots, rec \in Records :
                /\ idem' = [idem EXCEPT ![s] = rec]
                /\ idem[s].status \notin Final
                /\ idem[s].status = "in_progress" =>
                      \E c \in Clients : pc[c] = "record" /\ <<cmd[c].op, cmd[c].key>> = s
    PROVE  \A s \in Slots :
              /\ idem[s].status \in Final => idem'[s] = idem[s]
              /\ (idem[s].status = "in_progress" /\ idem'[s].status # "in_progress") =>
                    \E c \in Clients : pc[c] = "record" /\ <<cmd[c].op, cmd[c].key>> = s
  <1>1. CASE idem' = idem
    BY <1>1
  <1>2. ASSUME NEW s \in Slots, NEW rec \in Records,
               idem' = [idem EXCEPT ![s] = rec],
               idem[s].status \notin Final,
               idem[s].status = "in_progress" =>
                  \E c \in Clients : pc[c] = "record" /\ <<cmd[c].op, cmd[c].key>> = s
        PROVE  \A x \in Slots :
                  /\ idem[x].status \in Final => idem'[x] = idem[x]
                  /\ (idem[x].status = "in_progress" /\ idem'[x].status # "in_progress") =>
                        \E c \in Clients : pc[c] = "record" /\ <<cmd[c].op, cmd[c].key>> = x
    <2>1. \A x \in Slots : x # s => idem'[x] = idem[x]
      BY <1>2, SlotWrite
    <2> QED
      BY <1>2, <2>1
  <1> QED
    BY <1>1, <1>2

LEMMA StoreUnchangedKept ==
    ASSUME TypeOK, UNCHANGED store
    PROVE  Kept
  BY EventsKept, RecordsKept DEF Kept, store

\* A command that reserved its key writes a record nobody holds.
LEMMA ReservedKept ==
    ASSUME TypeOK, NEW op \in Operations, NEW key \in Keys, NEW digest, NEW rec \in Records,
           Reservable(op, key, digest), idem' = [idem EXCEPT ![<<op, key>>] = rec],
           NEW t \in Tasks, NEW path \in Seq(EventNames), events' = [events EXCEPT ![t] = events[t] \o path]
    PROVE  Kept
  <1> DEFINE s == <<op, key>>
  <1>1. s \in Slots
    BY DEF Slots
  <1>2. idem[s].status \notin Final /\ idem[s].status # "in_progress"
    BY DEF Reservable, Final
  <1>3. idem' = [idem EXCEPT ![s] = rec]
    OBVIOUS
  <1> HIDE DEF s
  <1> QED
    BY <1>1, <1>2, <1>3, EventsKept, RecordsKept, Zenon DEF Kept

LEMMA NextKept ==
    ASSUME Inv, Next
    PROVE  Kept
  <1> USE DEF Final
  <1>1. TypeOK
    BY DEF Inv
  <1>2. ASSUME NEW c \in Clients, Refuse(c) \/ Replay(c) PROVE Kept
    BY <1>1, <1>2, StoreUnchangedKept DEF Refuse, Replay
  <1>3. ASSUME NEW body \in Bodies, NEW t \in Tasks, CreateTask(body[1], body[2], t) PROVE Kept
    <2>1. /\ body[1] \in Keys /\ body[2] \in Digests
          /\ <<"create", None>> \in Operations
      BY TaskConstants DEF Operations
    <2>2. Recorded("completed", body[2], t) \in Records
      BY <2>1, RecordedTyped DEF Responses
    <2>3. events[t] = <<>>
      <3>1. task[t].status = "none"
        BY <1>3 DEF CreateTask
      <3>2. Len(events[t]) = 0 /\ events[t] \in Seq(EventNames)
        BY <1>1, <3>1, Zenon DEF Inv, TypeOK, TaskInv, Explains, EventNames
      <3> QED
        BY <3>2
    <2>4. <<"CREATED">> = events[t] \o <<"CREATED">> /\ <<"CREATED">> \in Seq(EventNames)
      BY <2>3 DEF EventNames, Statuses
    <2>5. events' = [events EXCEPT ![t] = events[t] \o <<"CREATED">>]
      BY <1>3, <2>4, Zenon DEF CreateTask
    <2> QED
      BY <1>1, <1>3, <2>1, <2>2, <2>4, <2>5, ReservedKept, Zenon DEF CreateTask
  <1>4. ASSUME NEW body \in Bodies, CreateTaskReplay(body[1], body[2]) PROVE Kept
    BY <1>1, <1>4, StoreUnchangedKept DEF CreateTaskReplay
  <1>5. ASSUME NEW c \in Clients, NEW r \in Requests, Lookup(c, r) PROVE Kept
    BY <1>1, <1>5, StoreUnchangedKept, Zenon DEF Lookup
  <1>6. ASSUME NEW c \in Clients, Load(c) \/ Reload(c) \/ Relookup(c) \/ Abandon(c) PROVE Kept
    BY <1>1, <1>2, <1>6, StoreUnchangedKept, ZenonT(30) DEF Load, Reload, Relookup, Abandon
  <1>7. ASSUME NEW c \in Clients, NEW o \in {"ok", "retryable", "final"}, CallProvider(c, o) PROVE Kept
    BY <1>1, <1>7, StoreUnchangedKept DEF CallProvider
  <1>8. ASSUME NEW c \in Clients, pc[c] # "idle"
        PROVE  /\ cmd[c].op \in Operations /\ cmd[c].op[2] \in Tasks
               /\ cmd[c].key \in Keys /\ cmd[c].digest \in Digests
               /\ <<"planning", cmd[c].op[2]>> \in Operations
    <2>1. cmd[c] \in Requests
      BY <1>8 DEF Inv, RequestInv, RequestOK
    <2> QED
      BY <2>1, RequestShape, ZenonT(30) DEF Operations
  <1>9. \A status \in Statuses : <<status>> \in Seq(EventNames)
    BY DEF EventNames
  <1>10. ASSUME NEW c \in Clients, CommitPlanning(c) PROVE Kept
    <2> DEFINE t == cmd[c].op[2]
               rec == Recorded("completed", cmd[c].digest, t)
    <2>1. CASE Refuse(c) \/ UNCHANGED store
      BY <1>1, <1>2, <2>1, StoreUnchangedKept
    <2>2. CASE /\ Reservable(<<"planning", t>>, cmd[c].key, cmd[c].digest)
               /\ events' = [events EXCEPT ![t] = events[t] \o <<"PLANNING">>]
               /\ idem' = [idem EXCEPT ![<< <<"planning", t>>, cmd[c].key>>] = rec]
      <3>1. pc[c] # "idle" /\ <<"PLANNING">> \in Seq(EventNames)
        BY <1>9, <1>10, Zenon DEF CommitPlanning, Statuses
      <3>2. rec \in Records
        BY <1>8, <3>1, RecordedTyped, ZenonT(30) DEF Responses
      <3> HIDE DEF rec, t
      <3> QED
        BY <1>1, <1>8, <2>2, <3>1, <3>2, ReservedKept, Zenon DEF t
    <2> QED
      BY <1>10, <2>1, <2>2, Zenon DEF CommitPlanning
  <1>11. ASSUME NEW c \in Clients, NEW decision \in Decisions, CommitRoute(c, decision) PROVE Kept
    <2> DEFINE t == cmd[c].op[2]
               rec == Recorded("completed", cmd[c].digest, decision)
    <2>1. CASE Refuse(c) \/ Replay(c)
      BY <1>2, <2>1
    <2>2. CASE /\ Reservable(cmd[c].op, cmd[c].key, cmd[c].digest)
               /\ events' = [events EXCEPT ![t] = events[t] \o <<"ROUTING">>]
               /\ idem' = [idem EXCEPT ![<<cmd[c].op, cmd[c].key>>] = rec]
      <3>1. pc[c] # "idle" /\ <<"ROUTING">> \in Seq(EventNames)
        BY <1>9, <1>11 DEF CommitRoute, Statuses
      <3>2. rec \in Records
        BY <1>8, <3>1, RecordedTyped, Zenon DEF Responses
      <3> HIDE DEF rec, t
      <3> QED
        BY <1>1, <1>8, <2>2, <3>1, <3>2, ReservedKept, ZenonT(30) DEF t
    <2> QED
      BY <1>11, <2>1, <2>2 DEF CommitRoute
  <1>12. ASSUME NEW c \in Clients, BeginModelExecution(c) PROVE Kept
    <2> DEFINE t == cmd[c].op[2]
               rec == Recorded("in_progress", cmd[c].digest, None)
               begun == IF task[t].status = "ROUTING" THEN <<"EXECUTING">> ELSE <<>>
    <2>1. CASE Refuse(c) \/ Replay(c)
      BY <1>2, <2>1
    <2>2. CASE /\ Reservable(cmd[c].op, cmd[c].key, cmd[c].digest)
               /\ events' = [events EXCEPT ![t] = events[t] \o begun]
               /\ idem' = [idem EXCEPT ![<<cmd[c].op, cmd[c].key>>] = rec]
      <3>1. pc[c] # "idle" /\ begun \in Seq(EventNames)
        <4>1. <<>> \in Seq(EventNames) /\ <<"EXECUTING">> \in Seq(EventNames)
          BY <1>9 DEF Statuses
        <4> QED
          BY <1>12, <4>1, Zenon DEF BeginModelExecution
      <3>2. rec \in Records
        BY <1>8, <3>1, RecordedTyped, Zenon DEF Responses
      <3> HIDE DEF rec, t, begun
      <3> QED
        BY <1>1, <1>8, <2>2, <3>1, <3>2, ReservedKept, Zenon DEF t
    <2> QED
      BY <1>12, <2>1, <2>2, Zenon DEF BeginModelExecution
  <1>13. ASSUME NEW c \in Clients, FinalizeModelExecution(c) PROVE Kept
    <2> DEFINE t == cmd[c].op[2]
               s == <<cmd[c].op, cmd[c].key>>
               rec == Recorded(FinalStatus(outcome[c]), cmd[c].digest, outcome[c])
    <2>1. CASE Refuse(c)
      BY <1>2, <2>1
    <2>2. CASE /\ HeldBy(cmd[c])
               /\ events' = [events EXCEPT ![t] = events[t] \o FinalPath(outcome[c])]
               /\ idem' = [idem EXCEPT ![s] = rec]
      <3>1. pc[c] = "record" /\ outcome[c] \in {"ok", "final"}
        BY <1>13 DEF FinalizeModelExecution
      <3>2. FinalPath(outcome[c]) \in Seq(EventNames)
        <4>1. <<"VALIDATING", "COMPLETED">> \in Seq(EventNames) /\ <<"FAILED">> \in Seq(EventNames)
          BY DEF EventNames, Statuses
        <4> QED
          BY <4>1 DEF FinalPath
      <3>3. rec \in Records
        BY <1>8, <3>1, RecordedTyped, ZenonT(30) DEF Responses, FinalStatus
      <3>4. s \in Slots /\ t \in Tasks
        BY <1>8, <3>1, Zenon DEF Slots
      <3>5. idem[s].status = "in_progress"
        BY <2>2 DEF HeldBy
      <3>6. \E d \in Clients : pc[d] = "record" /\ <<cmd[d].op, cmd[d].key>> = s
        BY <3>1
      <3> HIDE DEF rec, t, s
      <3> QED
        BY <1>1, <2>2, <3>2, <3>3, <3>4, <3>5, <3>6, EventsKept, RecordsKept, ZenonT(30) DEF Kept
    <2> QED
      BY <1>13, <2>1, <2>2, Zenon DEF FinalizeModelExecution
  <1>14. ASSUME NEW c \in Clients, MarkModelExecutionRetryable(c) PROVE Kept
    <2> DEFINE s == <<cmd[c].op, cmd[c].key>>
               rec == Recorded("failed_retryable", cmd[c].digest, None)
    <2>1. CASE Refuse(c)
      BY <1>2, <2>1
    <2>2. CASE HeldBy(cmd[c]) /\ events' = events /\ idem' = [idem EXCEPT ![s] = rec]
      <3>1. pc[c] = "record"
        BY <1>14 DEF MarkModelExecutionRetryable
      <3>3. rec \in Records
        BY <1>8, <3>1, RecordedTyped, Zenon DEF Responses
      <3>4. s \in Slots
        BY <1>8, <3>1, ZenonT(30) DEF Slots
      <3>5. idem[s].status = "in_progress"
        BY <2>2 DEF HeldBy
      <3>6. \E d \in Clients : pc[d] = "record" /\ <<cmd[d].op, cmd[d].key>> = s
        BY <3>1
      <3> HIDE DEF rec, s
      <3> QED
        BY <1>1, <2>2, <3>3, <3>4, <3>5, <3>6, EventsKept, RecordsKept, SMTT(30) DEF Kept
    <2> QED
      BY <1>14, <2>1, <2>2, SMTT(30) DEF MarkModelExecutionRetryable
  <1> QED
    BY <1>3, <1>4, <1>5, <1>6, <1>7, <1>10, <1>11, <1>12, <1>13, <1>14 DEF Next

\* Events are only appended, a stored result never changes, and a key in progress is
\* given up only by the request that holds it, in every step of every command.
THEOREM HistoryKept == Spec => HistoryIsKept
  <1>1. Inv /\ [Next]_vars => [Kept]_vars
    BY NextKept
  <1>2. [Kept]_vars =>
        [/\ \A t \in Tasks :
             /\ Len(events[t]) <= Len(events'[t])
             /\ events[t] = SubSeq(events'[t], 1, Len(events[t]))
         /\ \A s \in Operations \X Keys :
             /\ idem[s].status \in {"completed", "failed_final"} => idem'[s] = idem[s]
             /\ (idem[s].status = "in_progress" /\ idem'[s].status # "in_progress") =>
                   \E c \in Clients : pc[c] = "record" /\ <<cmd[c].op, cmd[c].key>> = s
        ]_vars
    BY DEF Kept, Slots, Final
  <1> QED
    BY <1>1, <1>2, InvHolds, PTL DEF Spec, HistoryIsKept
=============================================================================
