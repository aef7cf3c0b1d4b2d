------------------------------- MODULE Pricing -------------------------------
(***************************************************************************)
(* Routing by deployment and pricing policy, over PostgreSQL.  A planner   *)
(* takes the time, lists the deployments, quotes one after the other under *)
(* the policy it resolves for that time, and commits its decision; the     *)
(* trigger on route_decisions resolves the policies once more and captures *)
(* them as evidence.  Cost events come later and are priced again, from    *)
(* the evidence.  Policies are only ever added, but with any effective     *)
(* date, a past one included, and between any two of these steps.          *)
(*                                                                         *)
(* A route decision, and its task, are named after the planner.            *)
(***************************************************************************)
EXTENDS Routing

CONSTANTS
  Planners,        \* routing requests
  Unevidenced,     \* decisions from before the trigger was installed
  PlanRequests,    \* bodies of routing requests
  CatalogModel,    \* the row of the model version
  ModelRecords,    \* its admission evidence
  DeploymentOrder, \* its deployments, as listed
  ConfiguredRow,   \* deployment -> the row the server writes when it starts
  OperatorRows,    \* rows an operator may write
  FirstPolicies, MorePolicies,
  Usage,           \* component of a cost event -> its quantity of tokens
  MaxClock,        \* bound: the clock
  MaxUpdates       \* bound: new policies and deployment updates

VARIABLES
  clock,
  policies,        \* rows of pricing_policies
  deployments,     \* deployment -> its row
  updates,         \* new policies and deployment updates so far
  pl,              \* planner -> the local state of its request
  routed,          \* planner -> its committed decision, or NoRoute
  captured,        \* rows of route_pricing_evidence
  bills            \* rows of cost_events

pricingVars == <<clock, policies, deployments, updates, pl, routed, captured, bills>>

NoRoute == [at |-> 0, req |-> <<>>, chain |-> <<>>]

DeploymentIds == {DeploymentOrder[i] : i \in DOMAIN DeploymentOrder}

(* The rows a deployment can have and the requests as they are planned.    *)
DeploymentRows == {ConfiguredRow[d] : d \in DeploymentIds} \cup OperatorRows

PlannedRequests == {DefaultClass(req) : req \in PlanRequests}

(* Deployments are listed by their key.                                    *)
ASSUME PricingConstants ==
  /\ DeploymentOrder \in Seq(DeploymentIds) \ {<<>>}
  /\ \A i, j \in DOMAIN DeploymentOrder : DeploymentOrder[i] = DeploymentOrder[j] => i = j
  /\ ConfiguredRow \in [DeploymentIds -> DeploymentRows]
  /\ \A row \in DeploymentRows \cup {CatalogModel} :
       /\ row.pricing.input \in Int /\ row.pricing.output \in Int /\ row.pricing.factor \in Int
       /\ row.latency \in Int /\ row.capacity \in Int
  /\ \A req \in PlannedRequests : req.input \in Int /\ req.output \in Int
  /\ IsFiniteSet(FirstPolicies)
  /\ \A p \in FirstPolicies \cup MorePolicies :
       /\ p.from \in Int /\ p.created \in Int /\ p.version \in Int
       /\ p.price \in Int /\ p.batch \in Int
       /\ DOMAIN p.bands \subseteq Nat /\ \A i \in DOMAIN p.bands : p.bands[i].price \in Int
       /\ \A tier \in DOMAIN p.tiers : p.tiers[tier] \in Int
       /\ \A effort \in DOMAIN p.efforts : p.efforts[effort] \in Int

(* The deployments a decision may use: the selected one and its fallbacks. *)
Deployments(decision) == {decision.chain[i] : i \in DOMAIN decision.chain}

(* A decision from before the trigger, and before some of the prices.      *)
PricingInit ==
  /\ clock = 1
  /\ policies = FirstPolicies
  /\ deployments = ConfiguredRow
  /\ updates = 0
  /\ pl = [p \in Planners |-> [pc |-> IF p \in Unevidenced THEN "done" ELSE "idle", at |-> 0,
                               req |-> <<>>, listed |-> ConfiguredRow, left |-> <<>>,
                               candidates |-> {}]]
  /\ \E req \in PlanRequests :
       routed = [p \in Planners |->
                   IF p \in Unevidenced
                   THEN [at |-> 1, req |-> req, chain |-> DeploymentOrder] ELSE NoRoute]
  /\ captured = {} /\ bills = {}

-----------------------------------------------------------------------------
ClockTick ==
  /\ clock < MaxClock
  /\ clock' = clock + 1
  /\ UNCHANGED <<policies, deployments, updates, pl, routed, captured, bills>>

CreatePolicy ==
  /\ updates < MaxUpdates
  /\ \E p \in MorePolicies \ policies : ValidPolicy(p) /\ policies' = policies \cup {p}
  /\ updates' = updates + 1
  /\ UNCHANGED <<clock, deployments, pl, routed, captured, bills>>

(* An operator drains or re-prices a deployment ...                        *)
UpdateDeployment(d) ==
  /\ updates < MaxUpdates
  /\ \E row \in OperatorRows : row # deployments[d] /\ deployments' = [deployments EXCEPT ![d] = row]
  /\ updates' = updates + 1
  /\ UNCHANGED <<clock, policies, pl, routed, captured, bills>>

(* ... until a server starts: upsertDeployment writes the configured row   *)
(* over whatever is there.                                                 *)
UpsertDeployment(d) ==
  /\ deployments[d] # ConfiguredRow[d]
  /\ deployments' = [deployments EXCEPT ![d] = ConfiguredRow[d]]
  /\ UNCHANGED <<clock, policies, updates, pl, routed, captured, bills>>

-----------------------------------------------------------------------------
(* PlanWithDeployments.                                                    *)
PlanRoute(p) ==
  /\ pl[p].pc = "idle"
  /\ \E req \in PlanRequests :
       pl' = [pl EXCEPT ![p] = [@ EXCEPT !.pc = "list", !.at = clock, !.req = DefaultClass(req)]]
  /\ UNCHANGED <<clock, policies, deployments, updates, routed, captured, bills>>

ListByModelVersion(p) ==
  /\ pl[p].pc = "list"
  /\ pl' = [pl EXCEPT ![p] = [@ EXCEPT !.pc = "quote", !.listed = deployments, !.left = DeploymentOrder]]
  /\ UNCHANGED <<clock, policies, deployments, updates, routed, captured, bills>>

Admitted(c, mode) ==
  [c EXCEPT !.reasons = @ \cup (IF Check(CatalogModel.approval, mode, ModelRecords) THEN {} ELSE {"admission"})]

Place(d) == CHOOSE i \in DOMAIN DeploymentOrder : DeploymentOrder[i] = d

Quote(p) ==
  /\ pl[p].pc = "quote"
  /\ LET d == Head(pl[p].left)
         row == pl[p].listed[d]
         c == DeploymentCandidate(d, Place(d), CatalogModel, row, pl[p].req)
         quoted == QuoteCandidate(policies, c, row.region, pl[p].req, pl[p].at)
     IN  pl' = [pl EXCEPT ![p].candidates = @ \cup {Admitted(quoted, row.mode)},
                          ![p].left = Tail(@),
                          ![p].pc = IF Len(pl[p].left) = 1 THEN "select" ELSE "quote"]
  /\ UNCHANGED <<clock, policies, deployments, updates, routed, captured, bills>>

Refused(p) ==
  /\ pl[p].pc = "select"
  /\ \A c \in pl[p].candidates : c.reasons # {}
  /\ pl' = [pl EXCEPT ![p].pc = "done"]
  /\ UNCHANGED <<clock, policies, deployments, updates, routed, captured, bills>>

(* capture_route_pricing_evidence: every candidate of the new decision     *)
(* whose deployment has a policy in effect at the decision's time gets     *)
(* that policy, with the candidate's estimate as its quote.                *)
CaptureRoutePricingEvidence(p) ==
  {[route |-> p, deployment |-> c.target, policy |-> Resolve(policies, c.target, pl[p].at), total |-> c.cost] :
     c \in {k \in pl[p].candidates : Resolvable(policies, k.target, pl[p].at) # {}}}

(* The decision is inserted with the time of its plan.                     *)
CommitDecision(p) ==
  /\ pl[p].pc = "select"
  /\ \E ranked \in SelectDeploymentCandidate(pl[p].candidates) :
       /\ ranked # <<>>
       /\ routed' = [routed EXCEPT ![p] = [at |-> pl[p].at, req |-> pl[p].req,
                                           chain |-> [i \in DOMAIN ranked |-> ranked[i].target]]]
  /\ captured' = captured \cup CaptureRoutePricingEvidence(p)
  /\ pl' = [pl EXCEPT ![p].pc = "done"]
  /\ UNCHANGED <<clock, policies, deployments, updates, bills>>

-----------------------------------------------------------------------------
EvidenceOf(p, d) == {e \in captured : e.route = p /\ e.deployment = d}

(* The policy a cost event is priced by: the captured one, else the one in *)
(* effect when the route was decided, as the table says by now.            *)
\* Mutation: the policy in effect when the usage is recorded.
PolicyAtUsage(p, d) ==
  IF Resolvable(policies, d, clock) = {} THEN {} ELSE {Resolve(policies, d, clock)}

PolicyOf(p, d) ==
  IF EvidenceOf(p, d) # {} THEN {e.policy : e \in EvidenceOf(p, d)}
  ELSE IF Resolvable(policies, d, routed[p].at) # {} THEN {Resolve(policies, d, routed[p].at)}
  ELSE {}

(* The service-tier component costs nothing of its own.                    *)
Reconciled(policy, component, req) ==
  IF component = "service-tier" THEN 0 ELSE QuotePricing(policy, Usage[component], req)

(* PostgresDeploymentCostEvents.Append.  An event of a deployment without  *)
(* policy keeps the price it came with.                                    *)
AppendCostEvent(p, d, component) ==
  /\ d \in Deployments(routed[p])
  /\ \A b \in bills : ~(b.route = p /\ b.deployment = d /\ b.component = component)
  /\ \/ \E policy \in PolicyOf(p, d) :
          bills' = bills \cup {[route |-> p, deployment |-> d, component |-> component,
                                policy |-> policy, amount |-> Reconciled(policy, component, routed[p].req)]}
     \/ /\ PolicyOf(p, d) = {}
        /\ bills' = bills \cup {[route |-> p, deployment |-> d, component |-> component,
                                 policy |-> <<>>, amount |-> 0]}
  /\ UNCHANGED <<clock, policies, deployments, updates, pl, routed, captured>>

PricingNext ==
  \/ ClockTick \/ CreatePolicy
  \/ \E d \in DeploymentIds : UpdateDeployment(d) \/ UpsertDeployment(d)
  \/ \E p \in Planners : PlanRoute(p) \/ ListByModelVersion(p) \/ Quote(p) \/ Refused(p) \/ CommitDecision(p)
  \/ \E p \in Planners, d \in DeploymentIds, c \in DOMAIN Usage : AppendCostEvent(p, d, c)

-----------------------------------------------------------------------------
(* "Exact policy snapshots remain replayable after later pricing changes   *)
(* and across fallback attempts": a deployment a decision may use, as      *)
(* selected one or as fallback, has one captured policy, in effect at the  *)
(* time of the decision; and every cost event of the decision, whenever it *)
(* is recorded and whatever policies have been added since, is priced by   *)
(* that policy, all components by the same one.                            *)
PricedByRoute ==
  /\ \A p \in Planners \ Unevidenced : \A d \in Deployments(routed[p]) :
       \E e \in captured :
         /\ EvidenceOf(p, d) = {e}
         /\ Effective(e.policy, routed[p].at)
  /\ \A b \in bills : b.route \notin Unevidenced =>
       \A e \in EvidenceOf(b.route, b.deployment) :
         /\ b.policy = e.policy
         /\ b.amount = Reconciled(e.policy, b.component, routed[b.route].req)

=============================================================================
