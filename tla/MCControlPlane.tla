--------------------------- MODULE MCControlPlane ---------------------------
EXTENDS ControlPlane, TLC

Priced == [input |-> 1, output |-> 1, factor |-> 0]

Row == [lifecycle |-> "active", approval |-> "approved", health |-> "healthy",
        checked |-> "fresh", capacity |-> -1, quota |-> -1, latency |-> 0,
        residency |-> "", capabilities |-> {}, efforts |-> {}, tiers |-> {},
        mode |-> "local", pricing |-> Priced]

MCModelOrder == <<"m1", "m2", "m3">>

MCFirstRow == [m \in {"m1", "m2", "m3"} |->
                 CASE m = "m1" -> Row
                   [] m = "m2" -> [Row EXCEPT !.latency = 5]
                   [] m = "m3" -> [Row EXCEPT !.pricing.input = 9]]

MCModelRows == {[Row EXCEPT !.health = "unhealthy"], [Row EXCEPT !.mode = "public-api"]}

Record == [status |-> "approved", complete |-> TRUE, hosted |-> FALSE, artifact |-> TRUE]

MCEvidenceRecords == {[Record EXCEPT !.status = "revoked"], [Record EXCEPT !.hosted = TRUE]}

Request == [class |-> "", allowDegraded |-> FALSE, fresh |-> FALSE, residency |-> "",
            capabilities |-> {}, effort |-> "", tier |-> "", budget |-> 10, input |-> 1, output |-> 1]

MCRouteRequests ==
  {Request, [Request EXCEPT !.class = "deterministic"], [Request EXCEPT !.budget = 1]}

MCComponents == <<"input", "output">>

MCLoads ==
  {[routers |-> {"a", "b"}, executors |-> {e}, changes |-> 1] : e \in Executors}
    \cup {[routers |-> {"a"}, executors |-> Executors, changes |-> 0]}

ExecutorSymmetry == Permutations(Executors)
=============================================================================
