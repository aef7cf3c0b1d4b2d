------------------------------- MODULE Routing -------------------------------
(***************************************************************************)
(* The pure part of the router: which models and deployments a request may *)
(* use, what they are estimated to cost, how the candidates are ranked,    *)
(* and what the admission evidence and the pricing policies say.  Costs    *)
(* are integers and scores are thousandths of a point, so that a latency   *)
(* in milliseconds keeps its weight.  An unset string is "".               *)
(***************************************************************************)
EXTENDS Integers, Sequences, FiniteSetsExt

-----------------------------------------------------------------------------
(* Catalog rows.  A deployment row has the same runtime signals as a model *)
(* row, and a mode, a region and its own switch "eligible".                *)

(* modelservice.applyDefaults: what a create or update leaves unset.       *)
ApplyDefaults(row) ==
  [row EXCEPT !.lifecycle = IF @ = "" THEN "draft" ELSE @,
              !.health    = IF @ = "" THEN "unknown" ELSE @,
              !.approval  = IF @ = "" THEN "discovered" ELSE @]

(* The routing request: route class, effort, tier, residency, budget,      *)
(* estimated tokens and the two switches.                                  *)
DefaultClass(req) == [req EXCEPT !.class = IF @ = "" THEN "efficient" ELSE @]

Lifecycled(model, req) ==
  model.lifecycle = "active" \/ (req.allowDegraded /\ model.lifecycle = "degraded")

Fresh(row) == row.checked = "fresh"

Reported(row) == row.checked # "none"

Resides(row, req) == req.residency = "" \/ row.residency = "" \/ req.residency = row.residency

Offers(offered, asked) == asked = "" \/ offered = {} \/ asked \in offered

(* estimateCost: tokens are counted in millions, an unset factor is 1.     *)
EstimateCost(pricing, req) ==
  (req.input * pricing.input + req.output * pricing.output)
    * (IF pricing.factor <= 0 THEN 1 ELSE pricing.factor)

WithinBudget(cost, req) == req.budget <= 0 \/ cost <= req.budget

(* evaluate: the reasons a model is rejected for, none when it may be used *)
Evaluate(model, req) ==
  {reason \in {"lifecycle", "approval", "health", "stale", "capacity", "quota",
               "residency", "capability", "effort", "tier", "budget"} :
     ~(CASE reason = "lifecycle"  -> Lifecycled(model, req)
         [] reason = "approval"   -> model.approval = "approved"
         [] reason = "health"     -> model.health # "unhealthy"
         [] reason = "stale"      -> req.fresh => Fresh(model)
         [] reason = "capacity"   -> Reported(model) => model.capacity # 0
         [] reason = "quota"      -> Reported(model) => model.quota # 0
         [] reason = "residency"  -> Resides(model, req)
         [] reason = "capability" -> req.capabilities \subseteq model.capabilities
         [] reason = "effort"     -> Offers(model.efforts, req.effort)
         [] reason = "tier"       -> Offers(model.tiers, req.tier)
         [] reason = "budget"     -> WithinBudget(EstimateCost(model.pricing, req), req))}

HealthPoints(health) == CASE health = "healthy" -> 20 [] health = "degraded" -> 5 [] OTHER -> 0

HasSpecialistCapability(model, req) ==
  req.class = "specialist" /\ req.capabilities \cap model.capabilities # {}

Score(model, req) ==
  1000 * (50 + HealthPoints(model.health)
             + (IF model.capacity > 0 THEN 10 ELSE 0)
             - EstimateCost(model.pricing, req)
             + (IF HasSpecialistCapability(model, req) THEN 15 ELSE 0))
    - (IF model.latency > 0 THEN model.latency ELSE 0)

(* The stable sort of the eligible candidates: best score first, then the  *)
(* lower estimate, then the order the catalog listed them in.  As no two   *)
(* candidates share a place, it leaves them in one order.                  *)
Better(a, b) ==
  \/ a.score > b.score
  \/ a.score = b.score /\ a.cost < b.cost
  \/ a.score = b.score /\ a.cost = b.cost /\ a.place < b.place

Rankings(candidates) ==
  {s \in [1..Cardinality(candidates) -> candidates] :
     \A i \in DOMAIN s : \A j \in DOMAIN s : i < j => Better(s[i], s[j])}

-----------------------------------------------------------------------------
(* Deployment.IsRoutingEligible; the signal age counts when asked for.     *)
IsRoutingEligible(d, req) ==
  /\ d.eligible
  /\ d.lifecycle \in {"ready", "degraded"}
  /\ d.health # "unhealthy"
  /\ req.fresh => Fresh(d)

(* A deployment without prices of its own uses those of its model.         *)
PricingOf(model, d) ==
  IF d.pricing = [input |-> 0, output |-> 0, factor |-> 0] THEN model.pricing ELSE d.pricing

DeploymentRejections(model, d, req) ==
  {reason \in {"lifecycle", "approval", "capability", "eligible", "degraded", "capacity",
               "quota", "residency", "effort", "tier", "budget"} :
     ~(CASE reason = "lifecycle"  -> Lifecycled(model, req)
         [] reason = "approval"   -> model.approval = "approved"
         [] reason = "capability" -> req.capabilities \subseteq model.capabilities
         [] reason = "eligible"   -> IsRoutingEligible(d, req)
         [] reason = "degraded"   -> d.lifecycle = "degraded" => req.allowDegraded
         [] reason = "capacity"   -> Reported(d) => d.capacity # 0
         [] reason = "quota"      -> Reported(d) => d.quota # 0
         [] reason = "residency"  -> Resides(d, req)
         [] reason = "effort"     -> Offers(d.efforts, req.effort)
         [] reason = "tier"       -> Offers(d.tiers, req.tier)
         [] reason = "budget"     -> WithinBudget(EstimateCost(PricingOf(model, d), req), req))}

(* DeploymentCandidate: the candidate with its rejections and score.       *)
DeploymentCandidate(id, place, model, d, req) ==
  LET cost == EstimateCost(PricingOf(model, d), req)
  IN  [target  |-> id, place |-> place, cost |-> cost,
       reasons |-> DeploymentRejections(model, d, req),
       score   |-> 1000 * (50 - cost + (IF d.health = "healthy" THEN 20 ELSE 0)
                             + (IF d.capacity > 0 THEN 10 ELSE 0))
                   - (IF d.latency > 0 THEN d.latency ELSE 0)]

-----------------------------------------------------------------------------
(* Admission evidence: the records of a model version, oldest first.  A    *)
(* record is [status, complete, hosted, artifact]: complete stands for the *)
(* licence, source, reviewer, review time, commercial use and notice       *)
(* fields, hosted for hosted-service use, artifact for the self-hosted     *)
(* digest, signature and scan.                                             *)
ValidateEvidence(mode, record) ==
  /\ record.complete
  /\ mode \in {"public-api", "enterprise-api", "private-endpoint"} => record.hosted
  /\ mode \in {"self-hosted", "local"} => record.artifact

Decisive(record) == record.status \in {"revoked", "approved", "restricted"}

(* Service.Check: the newest decisive record decides; other statuses, a    *)
(* rejection included, are passed over.                                    *)
\* Mutation: a revocation is passed over like any other status.
CheckPastRevocation(approval, mode, records) ==
  /\ approval = "approved"
  /\ LET decisive == {i \in DOMAIN records : records[i].status \in {"approved", "restricted"}}
     IN  decisive # {} /\ ValidateEvidence(mode, records[Max(decisive)])

Check(approval, mode, records) ==
  /\ approval = "approved"
  /\ LET decisive == {i \in DOMAIN records : Decisive(records[i])}
     IN  /\ decisive # {}
         /\ records[Max(decisive)].status # "revoked"
         /\ ValidateEvidence(mode, records[Max(decisive)])

-----------------------------------------------------------------------------
(* Pricing policies: [deployment, from, to, created, version, region,      *)
(* price, bands, batch, tiers, efforts], with one price for all kinds of   *)
(* tokens and no charge for capacity.  "to" = 0 stands for an open end,    *)
(* a band [min, max, price] for the price of a context of that size ("max" *)
(* = 0 is no upper end), a factor of 0 for one that is not set.            *)
ValidPolicy(p) == p.to # 0 => p.to > p.from

Effective(p, at) == p.from <= at /\ (p.to = 0 \/ at < p.to)

(* The order of the policies of a deployment, newest effective date first, *)
(* then the one inserted last.                                             *)
Supersedes(p, q) ==
  \/ p.from > q.from
  \/ p.from = q.from /\ p.created > q.created
  \/ p.from = q.from /\ p.created = q.created /\ p.version > q.version

ListByDeployment(policies, d) == {p \in policies : p.deployment = d}

Resolvable(policies, d, at) == {p \in ListByDeployment(policies, d) : Effective(p, at)}

(* The first in that order; between equals the choice is left open.        *)
Resolve(policies, d, at) ==
  LET found == Resolvable(policies, d, at)
  IN  CHOOSE p \in found : \A q \in found : ~Supersedes(q, p)

(* QuotePricing: refused outside the policy's effect or region.            *)
Quotable(p, region, at) ==
  ValidPolicy(p) /\ Effective(p, at) /\ (p.region = "" \/ region = "" \/ p.region = region)

(* The first band the context falls in replaces the base price.            *)
BandPrice(p, context) ==
  LET bands == {i \in DOMAIN p.bands :
                  context >= p.bands[i].min /\ (p.bands[i].max = 0 \/ context <= p.bands[i].max)}
  IN  IF bands = {} THEN p.price ELSE p.bands[Min(bands)].price

SetFactor(factor) == IF factor > 0 THEN factor ELSE 1

QuoteFactor(p, req) ==
  (IF req.tier = "batch" THEN SetFactor(p.batch) ELSE 1)
    * (IF req.tier \in DOMAIN p.tiers THEN SetFactor(p.tiers[req.tier]) ELSE 1)
    * (IF req.effort \in DOMAIN p.efforts THEN SetFactor(p.efforts[req.effort]) ELSE 1)

(* The amount of a quantity of tokens under the price and the factors of   *)
(* the request; a quote's total is the sum over its components.            *)
QuotePricing(p, tokens, req) == tokens * BandPrice(p, req.input + req.output) * QuoteFactor(p, req)

(* quoteCandidate replaces the estimate by the policy's quote and moves    *)
(* the score with it.  Reasons already given, a refusal of the estimate    *)
(* that the quote replaces included, stay.                                 *)
QuoteCandidate(policies, c, region, req, at) ==
  IF Resolvable(policies, c.target, at) = {}
  THEN [c EXCEPT !.reasons = @ \cup {"unpriced"}]
  ELSE LET p == Resolve(policies, c.target, at)
           total == QuotePricing(p, req.input, req) + QuotePricing(p, req.output, req)
       IN  IF ~Quotable(p, region, at)
           THEN [c EXCEPT !.reasons = @ \cup {"unquotable"}]
           ELSE [c EXCEPT !.score = @ + 1000 * (c.cost - total),
                          !.cost = total,
                          !.reasons = @ \cup (IF WithinBudget(total, req) THEN {} ELSE {"budget"})]

(* SelectDeploymentCandidate: the eligible candidates, ranked; the first   *)
(* is selected and the others are its fallback chain.                      *)
SelectDeploymentCandidate(candidates) == Rankings({c \in candidates : c.reasons = {}})
=============================================================================
