----------------------------- MODULE MCServices -----------------------------
(* The tool gateway, routing by price, the in-memory supervisor and access  *)
(* to the API.                                                              *)
EXTENDS ToolGateway, Pricing, Supervisor, Access, TLC

Tool == [task |-> "t1", agent |-> "agent", tool |-> "workspace-command", action |-> "execute",
         approval |-> "p1", path |-> "", env |-> ""]

Inspect == [Tool EXCEPT !.tool = "repo-inspect", !.action = "inspect", !.approval = ""]

MCBody == [c \in Calls |->
  CASE c = "execute"     -> Tool
    [] c = "inspect"     -> Inspect
    [] c = "unknown"     -> [Tool EXCEPT !.tool = "unknown"]
    [] c = "unapproved"  -> [Tool EXCEPT !.approval = ""]
    [] c = "denied"      -> [Inspect EXCEPT !.action = "delete"]
    [] c = "out of tree" -> [Inspect EXCEPT !.path = "elsewhere"]]

MCToolDefs == [t \in {"workspace-command", "repo-inspect"} |->
                 [network |-> "deny-all", hosts |-> FALSE, limits |-> TRUE]]

MCRules ==
  <<[subject |-> "*", action |-> "inspect", resource |-> "repo-inspect", allowed |-> TRUE, approval |-> FALSE],
    [subject |-> "*", action |-> "execute", resource |-> "workspace-command", allowed |-> TRUE, approval |-> TRUE]>>

Grant == [task |-> "t1", tool |-> "workspace-command", action |-> "execute", revoked |-> FALSE, expired |-> FALSE]

MCGrants ==
  {Grant, [Grant EXCEPT !.revoked = TRUE], [Grant EXCEPT !.action = "delete"], [Grant EXCEPT !.task = "t2"]}

-----------------------------------------------------------------------------
Priced == [input |-> 1, output |-> 1, factor |-> 0]

Row == [lifecycle |-> "active", approval |-> "approved", health |-> "healthy",
        checked |-> "fresh", capacity |-> -1, quota |-> -1, latency |-> 0,
        residency |-> "", capabilities |-> {}, efforts |-> {}, tiers |-> {},
        mode |-> "local", pricing |-> Priced]

Record == [status |-> "approved", complete |-> TRUE, hosted |-> TRUE, artifact |-> TRUE]

MCModelRecords == <<Record>>

Request == [class |-> "", allowDegraded |-> FALSE, fresh |-> FALSE, residency |-> "",
            capabilities |-> {}, effort |-> "", tier |-> "", budget |-> 10, input |-> 1, output |-> 1]

Deployment == [eligible |-> TRUE, region |-> "eu", lifecycle |-> "ready"] @@ Row

MCPlanRequests == {[Request EXCEPT !.tier = "batch"], [Request EXCEPT !.budget = 3]}

MCDeploymentOrder == <<"d1", "d2">>

MCConfiguredRow == [d \in {"d1", "d2"} |-> IF d = "d1" THEN Deployment ELSE [Deployment EXCEPT !.latency = 5]]

MCOperatorRows == {[Deployment EXCEPT !.lifecycle = "draining"]}

Policy == [deployment |-> "d1", from |-> 1, to |-> 0, created |-> 1, version |-> 1, region |-> "",
           price |-> 1, bands |-> <<>>, batch |-> 2, tiers |-> <<>>, efforts |-> <<>>]

(* The first deployment has a price that ends, the second one that begins, *)
(* with a band for long contexts.                                          *)
MCFirstPolicies ==
  {[Policy EXCEPT !.to = 2],
   [Policy EXCEPT !.deployment = "d2", !.from = 2, !.bands = <<[min |-> 2, max |-> 0, price |-> 2]>>]}

(* A correction that takes effect in the past, a successor, another region *)
MCMorePolicies ==
  {[Policy EXCEPT !.created = 2, !.version = 2, !.price = 3],
   [Policy EXCEPT !.from = 2, !.created = 2, !.version = 3, !.price = 2],
   [Policy EXCEPT !.deployment = "d2", !.version = 2, !.region = "us"]}

MCUsage == [c \in {"input", "service-tier"} |-> 1]

-----------------------------------------------------------------------------
MCLimit == [d \in Dimensions |-> IF d = "cost" THEN 3 ELSE 0]

MCNodeOrder == <<"n1", "n2", "n3">>

(* Every set of dependencies, and a repeated and an unknown one.           *)
MCDependsOn == [n \in Reservations |->
  {<<>>, <<"n1">>, <<"n2">>, <<"n3">>, <<"n1", "n2">>, <<"n1", "n3">>, <<"n2", "n3">>,
   <<"n1", "n1">>, <<"n4">>}]

MCEstimated == [n \in Reservations |-> [d \in Dimensions |-> IF n = "n3" /\ d = "cost" THEN 2 ELSE 1]]

-----------------------------------------------------------------------------
Token == [kid |-> "k1", wellFormed |-> TRUE, issued |-> TRUE, exp |-> 4, nbf |-> 0, iat |-> 1,
          type |-> "", subject |-> "ann", tenant |-> "a", project |-> "p", roles |-> {"developer"}]

(* One signed with the next key that expires early, one without a project, *)
(* one that is no token.                                                   *)
MCTokens ==
  {Token,
   [Token EXCEPT !.kid = "k2", !.exp = 2, !.iat = 2, !.tenant = "b", !.roles = {"viewer"}],
   [Token EXCEPT !.type = "service_account", !.project = "", !.roles = {"viewer"}],
   [Token EXCEPT !.wellFormed = FALSE, !.subject = ""]}

MCAPICalls ==
  {[path |-> "tasks", method |-> "GET", task |-> ""], [path |-> "tasks", method |-> "POST", task |-> ""],
   [path |-> "routes", method |-> "GET", task |-> "x"], [path |-> "models", method |-> "GET", task |-> ""]}

MCFirstOwners ==
  [t \in ScopedTasks |-> IF t = "x" THEN [tenant |-> "a", project |-> "p", creator |-> "ann"] ELSE NoOne]

-----------------------------------------------------------------------------
(* The four share no state: a behaviour is one of them.  PostgreSQL is     *)
(* taken with one way to authenticate and memory with the other.           *)
VARIABLE service

Init ==
  /\ service \in {"tools", "pricing", "supervisor", "access"}
  /\ ToolInit /\ PricingInit /\ BudgetInit /\ SupervisorInit /\ AccessInit
  /\ service # "pricing" => routed["old"].req = CHOOSE req \in PlanRequests : TRUE
  /\ service # "supervisor" => plan = [n \in Reservations |-> <<>>]
  /\ durable = (authMode = "oidc") /\ (service # "access" => durable)

Next ==
  /\ UNCHANGED service
  /\ \/ service = "tools" /\ ToolNext /\ UNCHANGED <<pricingVars, budgetVars, supervisorVars, accessVars>>
     \/ service = "pricing" /\ PricingNext /\ UNCHANGED <<toolVars, budgetVars, supervisorVars, accessVars>>
     \/ service = "supervisor" /\ SupervisorNext /\ UNCHANGED <<toolVars, pricingVars, accessVars>>
     \/ service = "access" /\ AccessNext /\ UNCHANGED <<toolVars, pricingVars, budgetVars, supervisorVars>>

Spec == Init /\ [][Next]_<<service, toolVars, pricingVars, budgetVars, supervisorVars, accessVars>>
=============================================================================
