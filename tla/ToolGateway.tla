----------------------------- MODULE ToolGateway -----------------------------
(***************************************************************************)
(* The secure tool path: policy, approval, sandbox plan, credential lease, *)
(* sandbox execution, audit, revocation.  Every store locks each call, so  *)
(* between any two steps of a request other requests run, approvals are    *)
(* put, revoked and expire.  Policy rules and the tool registry are fixed  *)
(* at start-up.                                                            *)
(***************************************************************************)
EXTENDS Integers, Sequences

CONSTANTS
  Calls,          \* tool requests
  Body,           \* call -> [task, agent, tool, action, approval, path, env]
  ToolDefs,       \* tool -> [network, hosts, limits] of the registered tools
  Rules,          \* the static policy's rules, in order
  Approvals,      \* approval identifiers
  Grants,         \* the records an approver may put
  MaxGrants,      \* bound: approvers' writes
  MaxToolFaults   \* bound: failures of the broker and of the sandbox

VARIABLES
  approvals,      \* approval -> its record, or NoGrant
  leases,         \* call -> its credential lease, or NoLease
  audit,          \* sequence of audit events
  call,           \* call -> [pc, decision, answer]
  grants,         \* approvers' writes so far
  toolFaults,     \* failures so far
  covered         \* calls whose approval has been in force at some moment of
                  \* the request (history)

ASSUME ToolConstants ==
  /\ Body \in [Calls -> [task : STRING, agent : STRING, tool : STRING, action : STRING,
                         approval : STRING, path : STRING, env : STRING]]
  /\ Grants \subseteq [task : STRING, tool : STRING, action : STRING,
                       revoked : BOOLEAN, expired : BOOLEAN]

toolVars == <<approvals, leases, audit, call, grants, toolFaults, covered>>

NoGrant == [task |-> "", tool |-> "", action |-> "", revoked |-> TRUE, expired |-> TRUE]

NoLease == [task |-> "", tool |-> "", revoked |-> TRUE]

NoDecision == [allowed |-> FALSE, approval |-> FALSE]

ToolInit ==
  /\ approvals = [a \in Approvals |-> NoGrant]
  /\ leases = [c \in Calls |-> NoLease]
  /\ audit = <<>>
  /\ call = [c \in Calls |-> [pc |-> "idle", decision |-> NoDecision, answer |-> "none"]]
  /\ grants = 0 /\ toolFaults = 0 /\ covered = {}

-----------------------------------------------------------------------------
(* StaticEngine.Evaluate: the first matching rule decides, none denies.    *)
Matches(pattern, value) == pattern = "*" \/ pattern = value

EvaluatePolicy(body) ==
  LET matching == {i \in DOMAIN Rules : /\ Matches(Rules[i].subject, body.agent)
                                        /\ Matches(Rules[i].action, body.action)
                                        /\ Matches(Rules[i].resource, body.tool)}
  IN  IF matching = {} THEN NoDecision
      ELSE LET first == CHOOSE i \in matching : \A j \in matching : i <= j
           IN  [allowed |-> Rules[first].allowed, approval |-> Rules[first].approval]

(* approval Validate: the record is bound to task, tool and action.        *)
\* Mutation: an approval is good for every action of its tool.
ValidApprovalAnyAction(record, body) ==
  /\ ~record.revoked /\ ~record.expired
  /\ record.task = body.task /\ record.tool = body.tool

ValidApproval(record, body) ==
  /\ ~record.revoked /\ ~record.expired
  /\ record.task = body.task /\ record.tool = body.tool /\ record.action = body.action

(* sandbox validate: limits, network mode, workspace path, environment.    *)
ValidSandbox(def, body) ==
  /\ def.limits
  /\ def.network \in {"", "deny-all"} \/ (def.network = "allow-list" /\ def.hosts)
  /\ body.path \in {"", "workspace"}
  /\ body.env # "secret-like"

Audited(c, status, approval, lease) ==
  Append(audit, [call |-> c, status |-> status, approval |-> approval, lease |-> lease])

Goto(c, pc) == [call EXCEPT ![c].pc = pc]

End(c, answer) == [call EXCEPT ![c] = [@ EXCEPT !.pc = "done", !.answer = answer]]

-----------------------------------------------------------------------------
(* Approvers: Put replaces the record; time passes over it.                *)
InForce(records) == {c \in Calls : Body[c].approval \in Approvals
                                    /\ records[Body[c].approval].task = Body[c].task
                                    /\ records[Body[c].approval].tool = Body[c].tool
                                    /\ records[Body[c].approval].action = Body[c].action
                                    /\ ~records[Body[c].approval].revoked
                                    /\ ~records[Body[c].approval].expired}

PutApproval(a) ==
  /\ grants < MaxGrants
  /\ \E record \in Grants : approvals' = [approvals EXCEPT ![a] = record]
  /\ grants' = grants + 1
  /\ covered' = covered \cup {c \in InForce(approvals') : call[c].pc # "idle"}
  /\ UNCHANGED <<leases, audit, call, toolFaults>>

ExpireApproval(a) ==
  /\ ~approvals[a].expired
  /\ approvals' = [approvals EXCEPT ![a].expired = TRUE]
  /\ UNCHANGED <<leases, audit, call, grants, toolFaults, covered>>

-----------------------------------------------------------------------------
(* Service.Execute, up to the approval: registry and policy never change.  *)
(* An unknown tool is the one refusal of this part without audit event.    *)
EvaluateCall(c) ==
  /\ call[c].pc = "idle"
  /\ covered' = IF c \in InForce(approvals) THEN covered \cup {c} ELSE covered
  /\ LET decision == EvaluatePolicy(Body[c])
     IN  \/ /\ Body[c].tool \notin DOMAIN ToolDefs
            /\ call' = End(c, "not-found")
            /\ UNCHANGED audit
         \/ /\ Body[c].tool \in DOMAIN ToolDefs /\ ~decision.allowed
            /\ call' = End(c, "denied")
            /\ audit' = Audited(c, "DENIED", "", FALSE)
         \/ /\ Body[c].tool \in DOMAIN ToolDefs /\ decision.allowed
            /\ decision.approval /\ Body[c].approval = ""
            /\ call' = End(c, "approval-required")
            /\ audit' = Audited(c, "WAITING_APPROVAL", "", FALSE)
         \/ /\ Body[c].tool \in DOMAIN ToolDefs /\ decision.allowed
            /\ decision.approval => Body[c].approval # ""
            /\ call' = [call EXCEPT ![c] = [@ EXCEPT !.decision = decision,
                                              !.pc = IF decision.approval THEN "approval" ELSE "plan"]]
            /\ UNCHANGED audit
  /\ UNCHANGED <<approvals, leases, grants, toolFaults>>

ValidateApproval(c) ==
  /\ call[c].pc = "approval"
  /\ LET a == Body[c].approval
     IN  IF a \in Approvals /\ ValidApproval(approvals[a], Body[c])
         THEN call' = Goto(c, "plan") /\ UNCHANGED audit
         ELSE call' = End(c, "approval-required") /\ audit' = Audited(c, "DENIED", "", FALSE)
  /\ UNCHANGED <<approvals, leases, grants, toolFaults, covered>>

PlanSandbox(c) ==
  /\ call[c].pc = "plan"
  /\ IF ValidSandbox(ToolDefs[Body[c].tool], Body[c])
     THEN call' = Goto(c, "issue") /\ UNCHANGED audit
     ELSE call' = End(c, "invalid") /\ audit' = Audited(c, "DENIED", Body[c].approval, FALSE)
  /\ UNCHANGED <<approvals, leases, grants, toolFaults, covered>>

(* Issue puts a lease for this task and tool.  When the broker fails the   *)
(* request ends with an error and no audit event.                          *)
Issue(c) ==
  /\ call[c].pc = "issue"
  /\ \/ /\ leases' = [leases EXCEPT ![c] = [task |-> Body[c].task, tool |-> Body[c].tool, revoked |-> FALSE]]
        /\ call' = Goto(c, "execute")
        /\ UNCHANGED toolFaults
     \/ /\ toolFaults < MaxToolFaults
        /\ toolFaults' = toolFaults + 1
        /\ call' = End(c, "error")
        /\ UNCHANGED leases
  /\ UNCHANGED <<approvals, audit, grants, covered>>

(* The sandbox runs the plan under the lease; either way the event is      *)
(* appended before the deferred revocation.                                *)
ExecuteSandbox(c) ==
  /\ call[c].pc = "execute"
  /\ \/ /\ audit' = Audited(c, "PLANNED", Body[c].approval, TRUE)
        /\ call' = [call EXCEPT ![c] = [@ EXCEPT !.pc = "revoke", !.answer = "created"]]
        /\ UNCHANGED toolFaults
     \/ /\ toolFaults < MaxToolFaults
        /\ toolFaults' = toolFaults + 1
        /\ audit' = Audited(c, "FAILED", Body[c].approval, TRUE)
        /\ call' = [call EXCEPT ![c] = [@ EXCEPT !.pc = "revoke", !.answer = "error"]]
  /\ UNCHANGED <<approvals, leases, grants, covered>>

(* The deferred Revoke, then the answer (writeToolError on an error).      *)
Revoke(c) ==
  /\ call[c].pc = "revoke"
  /\ leases' = [leases EXCEPT ![c].revoked = TRUE]
  /\ call' = Goto(c, "done")
  /\ UNCHANGED <<approvals, audit, grants, toolFaults, covered>>

ToolNext ==
  \/ \E a \in Approvals : PutApproval(a) \/ ExpireApproval(a)
  \/ \E c \in Calls : \/ EvaluateCall(c) \/ ValidateApproval(c) \/ PlanSandbox(c)
                      \/ Issue(c) \/ ExecuteSandbox(c) \/ Revoke(c)

-----------------------------------------------------------------------------
EventsOf(c) == {i \in DOMAIN audit : audit[i].call = c}

(* Every tool run is accounted for.  A call that reached the sandbox was   *)
(* allowed by the policy and, where the policy asks for one, by an         *)
(* approval for its task, tool and action that was in force at some moment *)
(* of the call; the sandbox ran under a lease that was not yet revoked;    *)
(* the call has one audit event that names the lease; and once the caller  *)
(* has an answer no call, whatever way it ended, leaves a live lease.      *)
ToolRunIsAccounted ==
  \A c \in Calls :
    /\ call[c].pc \in {"execute", "revoke"} => ~leases[c].revoked
    /\ call[c].pc = "done" => leases[c].revoked
    /\ \A i, j \in EventsOf(c) : i = j
    /\ (\E i \in EventsOf(c) : audit[i].lease) =>
         /\ EvaluatePolicy(Body[c]).allowed
         /\ EvaluatePolicy(Body[c]).approval => c \in covered
    /\ call[c].answer = "created" => \E i \in EventsOf(c) : audit[i].status = "PLANNED"
=============================================================================
