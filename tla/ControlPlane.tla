---------------------------- MODULE ControlPlane ----------------------------
(***************************************************************************)
(* The control plane's own path over the in-memory stores: create a task,  *)
(* decide its route, execute its model.  (With PostgreSQL the same three   *)
(* commands go through the command kernel of TaskCommands.)  HTTP handlers *)
(* run concurrently on copies of the task and save them with the version   *)
(* they read; administrators change models and admission evidence between  *)
(* any two steps.  Executors run the model runtime of ModelRuntime on the  *)
(* decision they loaded.                                                   *)
(*                                                                         *)
(* A decision is named after the routing request that made it.             *)
(***************************************************************************)
EXTENDS ModelRuntime, Routing, TaskAggregate

CONSTANTS
  Routers,        \* concurrent routing requests
  ModelOrder,     \* the models, in the order the catalog lists them
  FirstRow,       \* model -> the row it starts with
  ModelRows,      \* the rows an administrator may write
  FirstRecord,    \* the admission record every model starts with
  EvidenceRecords,\* the admission records an administrator may append
  RouteRequests,  \* the bodies of routing requests
  Loads           \* sets of requests that arrive together, each with a bound
                  \* on administrators' changes: [routers, executors, changes]

VARIABLES
  task,           \* the stored task: [status, version, route, result, actual]
  decisions,      \* routing request -> the candidates of its decision, or None
  models,         \* model -> its row
  evidence,       \* model -> its admission records, oldest first
  changes,        \* administrators' changes still to come
  rt,             \* router -> the local state of its request
  ex,             \* executor -> the local state of its request
  fit             \* router -> the models whose row allowed routing at some
                  \* moment of its request, each with the mode of that row,
                  \* and the modes their evidence allowed (history)

taskVars == <<task, decisions>>
catalogVars == <<models, evidence, changes>>
controlVars == <<task, decisions, models, evidence, changes, rt, ex, fit>>

None == "none"

Models == {ModelOrder[i] : i \in DOMAIN ModelOrder}

(* The rows a model can have and the requests as they are decided on.      *)
CatalogRows == {FirstRow[m] : m \in Models} \cup {ApplyDefaults(row) : row \in ModelRows}

Modes == {row.mode : row \in CatalogRows}

Requests == {DefaultClass(req) : req \in RouteRequests}

ASSUME ControlConstants ==
  /\ None \notin Routers
  /\ ModelOrder \in Seq(Targets)
  /\ FirstRow \in [Models -> CatalogRows]
  /\ \A row \in CatalogRows :
       /\ row.pricing.input \in Int /\ row.pricing.output \in Int /\ row.pricing.factor \in Int
       /\ row.latency \in Int /\ row.capacity \in Int
  /\ \A req \in Requests : req.input \in Int /\ req.output \in Int

NoTask == [status |-> "ABSENT", version |-> 0, route |-> None, result |-> None, actual |-> {}]

Arrival(load, who) == IF who \in load.routers \cup load.executors THEN "idle" ELSE "absent"

ControlInit ==
  /\ task = NoTask
  /\ decisions = [r \in Routers |-> <<None>>]
  /\ models = FirstRow
  /\ evidence = [m \in Models |-> <<FirstRecord>>]
  /\ \E load \in Loads :
       /\ changes = load.changes
       /\ rt = [r \in Routers |->
                 [pc |-> Arrival(load, r), copy |-> NoTask, req |-> None, listed |-> <<>>,
                  left |-> <<>>, eligible |-> {}, answer |-> None]]
       /\ ex = [e \in Executors |-> [pc |-> Arrival(load, e), copy |-> NoTask, answer |-> None]]
  /\ fit = [r \in Routers |-> [row |-> {}, evidence |-> {}]]

-----------------------------------------------------------------------------
(* Stores.  MemoryTasks.Update is a compare-and-swap on the version.       *)

\* Mutation: the last writer wins.
CurrentAlways(copy) == TRUE

Current(copy) == task.version = copy.version

Saved(copy) == [copy EXCEPT !.version = @ + 1]

\* transitionTask: move the copy, then save it.
Moved(copy, to) == Transition(copy, to)

CreateTask ==
  /\ task.status = "ABSENT"
  /\ task' = NewTask(NoTask)
  /\ UNCHANGED <<decisions, catalogVars, rt, ex, fit, runtimeVars>>

(* A decision names its candidates, selected one first; a deterministic    *)
(* one names none.                                                         *)
Decided(r) == decisions[r] # <<None>>

-----------------------------------------------------------------------------
(* Administrators.                                                         *)

(* A record stands when no decisive record follows it.                     *)
Stands(mode, records) ==
  \E i \in DOMAIN records :
    /\ records[i].status \in {"approved", "restricted"} /\ ValidateEvidence(mode, records[i])
    /\ \A j \in DOMAIN records : j > i => ~Decisive(records[j])

(* What a request may still claim to have seen.                            *)
Fits(req, rows, records) ==
  [row |-> {<<m, rows[m].mode>> : m \in {n \in Models : Evaluate(rows[n], req) = {}}},
   evidence |-> {c \in Models \X Modes : Stands(c[2], records[c[1]])}]

Observe(rows, records) ==
  fit' = [r \in Routers |->
            IF rt[r].pc \in {"absent", "idle", "done"} THEN fit[r]
            ELSE [row |-> fit[r].row \cup Fits(rt[r].req, rows, records).row,
                  evidence |-> fit[r].evidence \cup Fits(rt[r].req, rows, records).evidence]]

(* PUT /models/{id}: the row is replaced, defaults applied.                *)
UpdateModel(m) ==
  /\ changes > 0
  /\ \E row \in ModelRows :
       /\ ApplyDefaults(row) # models[m]
       /\ models' = [models EXCEPT ![m] = ApplyDefaults(row)]
  /\ changes' = changes - 1
  /\ Observe(models', evidence)
  /\ UNCHANGED <<taskVars, evidence, rt, ex, runtimeVars>>

(* POST /models/{id}/admission: a record is appended, never replaced.      *)
AppendAdmissionEvidence(m) ==
  /\ changes > 0
  /\ \E record \in EvidenceRecords : evidence' = [evidence EXCEPT ![m] = Append(@, record)]
  /\ changes' = changes - 1
  /\ Observe(models, evidence')
  /\ UNCHANGED <<taskVars, models, rt, ex, runtimeVars>>

-----------------------------------------------------------------------------
(* DecideRoute.                                                            *)

Reply(r, answer) == [rt[r] EXCEPT !.pc = "done", !.answer = answer]

RouteLoad(r) ==
  /\ rt[r].pc = "idle"
  /\ task.status # "ABSENT"
  /\ \E req \in RouteRequests :
       LET loaded == [rt[r] EXCEPT !.copy = task, !.req = DefaultClass(req)]
       IN  /\ rt' = [rt EXCEPT ![r] =
                       CASE task.status = "CREATED"  -> [loaded EXCEPT !.pc = "plan"]
                         [] task.status = "PLANNING" -> [loaded EXCEPT !.pc = "route"]
                         [] task.status = "ROUTING"  -> [loaded EXCEPT !.pc = "list"]
                         [] OTHER -> Reply(r, "conflict")]
           /\ fit' = [fit EXCEPT ![r] = Fits(DefaultClass(req), models, evidence)]
  /\ UNCHANGED <<taskVars, catalogVars, ex, runtimeVars>>

(* transitionTask to PLANNING and to ROUTING: a lost version answers 500.  *)
RouteMove(r, from, to, then) ==
  /\ rt[r].pc = from
  /\ IF Current(rt[r].copy)
     THEN /\ task' = Moved(rt[r].copy, to)
          /\ rt' = [rt EXCEPT ![r] = [@ EXCEPT !.pc = then, !.copy = task']]
     ELSE /\ rt' = [rt EXCEPT ![r] = Reply(r, "error")]
          /\ UNCHANGED task
  /\ UNCHANGED <<decisions, catalogVars, ex, fit, runtimeVars>>

(* Decide lists the models once, and checks the admission of one model     *)
(* after the other.  A deterministic request needs neither.                *)
ListModels(r) ==
  /\ rt[r].pc = "list"
  /\ rt' = [rt EXCEPT ![r] =
              IF @.req.class = "deterministic"
              THEN [@ EXCEPT !.pc = "persist"]
              ELSE [@ EXCEPT !.pc = "check", !.listed = models, !.left = ModelOrder]]
  /\ UNCHANGED <<taskVars, catalogVars, ex, fit, runtimeVars>>

Candidate(r, m) ==
  LET row == rt[r].listed[m]
  IN  [target |-> m, place |-> CHOOSE i \in DOMAIN ModelOrder : ModelOrder[i] = m,
       cost |-> EstimateCost(row.pricing, rt[r].req), score |-> Score(row, rt[r].req)]

CheckAdmission(r) ==
  /\ rt[r].pc = "check"
  /\ rt[r].left # <<>>
  /\ LET m == Head(rt[r].left)
         row == rt[r].listed[m]
         allowed == Evaluate(row, rt[r].req) = {} /\ Check(row.approval, row.mode, evidence[m])
         rest == [rt[r] EXCEPT !.left = Tail(@), !.pc = IF Tail(rt[r].left) = <<>> THEN "persist" ELSE "check"]
     IN  rt' = [rt EXCEPT ![r] =
                  IF allowed THEN [rest EXCEPT !.eligible = @ \cup {Candidate(r, m)}] ELSE rest]
  /\ UNCHANGED <<taskVars, catalogVars, ex, fit, runtimeVars>>

(* The eligible candidates are ranked and the decision is stored.  With    *)
(* none the request is refused and the task stays in ROUTING.              *)
Chains(candidates) ==
  {[i \in DOMAIN ranked |-> ranked[i].target] : ranked \in Rankings(candidates)}

Persist(r) ==
  /\ rt[r].pc = "persist"
  /\ IF rt[r].req.class # "deterministic" /\ rt[r].eligible = {}
     THEN /\ rt' = [rt EXCEPT ![r] = Reply(r, "unavailable")]
          /\ UNCHANGED decisions
     ELSE /\ \E chain \in Chains(rt[r].eligible) : decisions' = [decisions EXCEPT ![r] = chain]
          /\ rt' = [rt EXCEPT ![r].pc = "update"]
  /\ UNCHANGED <<task, catalogVars, ex, fit, runtimeVars>>

(* The task's reference to the decision is saved with the version the      *)
(* request holds; a decision that loses this race stays unreferenced.      *)
UpdateRoute(r) ==
  /\ rt[r].pc = "update"
  /\ IF Current(rt[r].copy)
     THEN /\ task' = Saved([rt[r].copy EXCEPT !.route = r])
          /\ rt' = [rt EXCEPT ![r] = Reply(r, "created")]
     ELSE /\ rt' = [rt EXCEPT ![r] = Reply(r, "error")]
          /\ UNCHANGED task
  /\ UNCHANGED <<decisions, catalogVars, ex, fit, runtimeVars>>

RouteStep(r) ==
  \/ RouteLoad(r)
  \/ RouteMove(r, "plan", "PLANNING", "route")
  \/ RouteMove(r, "route", "ROUTING", "list")
  \/ ListModels(r) \/ CheckAdmission(r) \/ Persist(r) \/ UpdateRoute(r)

-----------------------------------------------------------------------------
(* ExecuteModel.                                                           *)

Refuse(e, answer) == [ex[e] EXCEPT !.pc = "done", !.answer = answer]

(* The task and the decision it references are loaded.  A ROUTING task is  *)
(* to be moved to EXECUTING; an EXECUTING one is executed again, without a *)
(* look at its version.                                                    *)
ExecuteLoad(e) ==
  /\ ex[e].pc = "idle"
  /\ task.status # "ABSENT"
  /\ LET loaded == [ex[e] EXCEPT !.copy = task]
     IN  IF task.route = None \/ task.status \notin {"ROUTING", "EXECUTING"}
         THEN /\ ex' = [ex EXCEPT ![e] = Refuse(e, "conflict")]
              /\ UNCHANGED run
         ELSE IF task.status = "ROUTING"
         THEN /\ ex' = [ex EXCEPT ![e] = [loaded EXCEPT !.pc = "begin"]]
              /\ UNCHANGED run
         ELSE /\ ex' = [ex EXCEPT ![e] = [loaded EXCEPT !.pc = "running"]]
              /\ run' = [run EXCEPT ![e] = StartRun(decisions[task.route])]
  /\ UNCHANGED <<taskVars, catalogVars, rt, fit, breaker, costs, failed, storeFaults>>

BeginExecuting(e) ==
  /\ ex[e].pc = "begin"
  /\ IF Current(ex[e].copy)
     THEN /\ task' = Moved(ex[e].copy, "EXECUTING")
          /\ ex' = [ex EXCEPT ![e] = [@ EXCEPT !.pc = "running", !.copy = task']]
          /\ run' = [run EXCEPT ![e] = StartRun(decisions[ex[e].copy.route])]
     ELSE /\ ex' = [ex EXCEPT ![e] = Refuse(e, "error")]
          /\ UNCHANGED <<task, run>>
  /\ UNCHANGED <<decisions, catalogVars, rt, fit, breaker, costs, failed, storeFaults>>

(* The runtime's answer is put into the copy, with the cost events of the  *)
(* task as they are now (AggregateTask).                                   *)
\* Mutation: only the events of the selected candidate are added up.
AggregateSelected(e) == {c \in costs : c.target = run[e].chain[1]}

AggregateTask(e) == costs

Returned(e) ==
  /\ ex[e].pc = "running" /\ run[e].pc = "done"
  /\ ex' = [ex EXCEPT ![e] = [@ EXCEPT !.pc = IF run[e].outcome = "ok" THEN "validate" ELSE "fail",
                                        !.copy.result = [by |-> e, outcome |-> run[e].outcome],
                                        !.copy.actual = AggregateTask(e)]]
  /\ UNCHANGED <<taskVars, catalogVars, rt, fit, runtimeVars>>

ExecuteMove(e, from, to, then, answer) ==
  /\ ex[e].pc = from
  /\ IF Current(ex[e].copy)
     THEN /\ task' = Moved(ex[e].copy, to)
          /\ ex' = [ex EXCEPT ![e] = [@ EXCEPT !.pc = then, !.copy = task', !.answer = answer]]
     ELSE /\ ex' = [ex EXCEPT ![e] = Refuse(e, "error")]
          /\ UNCHANGED task
  /\ UNCHANGED <<decisions, catalogVars, rt, fit, runtimeVars>>

ExecutorStep(e) ==
  \/ ExecuteLoad(e) \/ BeginExecuting(e)
  \/ ex[e].pc = "running" /\ ExecuteStep(e) /\ UNCHANGED controlVars
  \/ Returned(e)
  \/ ExecuteMove(e, "fail", "FAILED", "done", "failed")
  \/ ExecuteMove(e, "validate", "VALIDATING", "complete", None)
  \/ ExecuteMove(e, "complete", "COMPLETED", "done", "ok")

ControlNext ==
  \/ CreateTask
  \/ \E m \in Models : UpdateModel(m) \/ AppendAdmissionEvidence(m)
  \/ \E r \in Routers : RouteStep(r)
  \/ \E e \in Executors : ExecutorStep(e)
  \/ \E k \in Targets : CoolDown(k) /\ UNCHANGED controlVars

ControlStart == RuntimeInit /\ ControlInit

ControlSpec == ControlStart /\ [][ControlNext]_<<runtimeVars, controlVars>>

-----------------------------------------------------------------------------
(* A provider is only ever called for the route the task references: while *)
(* an execution is under way, whoever else routes or executes the task,    *)
(* the task's route is the decision that execution walks, and the task has *)
(* left ROUTING.                                                           *)
ExecutedRouteIsReferenced ==
  \A e \in Executors :
    ex[e].pc \in {"running", "fail", "validate", "complete"} =>
      /\ ex[e].copy.route = task.route
      /\ run[e].chain = decisions[task.route]
      /\ task.status \in {"EXECUTING", "VALIDATING", "COMPLETED", "FAILED"}

(* The outcome a finished task keeps is that of one execution of its own   *)
(* route, and a completed task was charged for it: of all executions only  *)
(* that one answered its caller with success, its attempts ended with the  *)
(* successful call, and the task's actual cost counts every component of   *)
(* that call, a fallback's included.                                       *)
OutcomeIsPaid ==
  task.status \in {"VALIDATING", "COMPLETED", "FAILED"} =>
    LET e == task.result.by
    IN  /\ run[e].outcome = task.result.outcome
        /\ (task.result.outcome = "ok") <=> (task.status # "FAILED")
        /\ \A f \in Executors : ex[f].answer \in {"ok", "failed"} => f = e
        /\ task.result.outcome = "ok" /\ run[e].chain # <<>> =>
             /\ \A j \in 1..run[e].i : (run[e].tried[j].status = "SUCCEEDED") <=> (j = run[e].i)
             /\ {CostEvent(e, Components[j]) : j \in DOMAIN Components} \subseteq task.actual

(* "A later `revoked` evidence record immediately prevents new routing":   *)
(* every candidate of a decision, the fallbacks included, has been allowed *)
(* by its row at some moment of the routing request, and by its admission  *)
(* evidence, for the mode of that row, at some moment of it.  A model that *)
(* was disabled or revoked when the request arrived, and stayed so, is     *)
(* never chosen.                                                           *)
RoutedWasRoutable ==
  \A r \in Routers :
    Decided(r) => \A i \in DOMAIN decisions[r] :
                    \E mode \in Modes : <<decisions[r][i], mode>> \in fit[r].row \cap fit[r].evidence
=============================================================================
