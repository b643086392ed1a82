----------------------------- MODULE MCPipeline -----------------------------
(* Instances of Pipeline for TLC. The routes stand for the ways provider_for can turn out: a
   metasearch route, a commercial one, one nobody configured; in the Restarts instance, one the
   provider does not serve and one routed to the direct-scrape stub. *)
EXTENDS Pipeline, TLC

CONSTANTS r1, r2, q

MCRequests == {r1, r2}
MCSymmetry == Permutations(MCRequests)
MCKeys == {"k"}
MCVerticals == {"search", "places", "patents"}
MCProviderFor == [v \in MCVerticals |->
    CASE v = "search" -> "genxng" [] v = "places" -> "commercial" [] v = "patents" -> "direct_scrape"]
MCCostOf == [v \in MCVerticals |-> IF v = "search" THEN 1 ELSE 2]
MCSupported == [p \in Providers |-> IF p = "genxng" THEN {"search"} ELSE MCVerticals]
MCPolicyFiles == {{}, {q}}

(* Enrichment off; the metasearch is asked for a route it does not serve, and the stub is on. *)
RestartsVerticals == {"search", "shopping", "patents"}
RestartsProviderFor == [v \in RestartsVerticals |-> IF v = "patents" THEN "direct_scrape" ELSE "genxng"]
RestartsCostOf == [v \in RestartsVerticals |-> 1]
RestartsSupported == [p \in Providers |-> IF p = "genxng" THEN {"search"} ELSE RestartsVerticals]
=============================================================================
