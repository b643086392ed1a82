------------------------------ MODULE Pipeline ------------------------------
(* One POST /{vertical} request from the API key to the answer: authentication, policy gate, rate
   limiter, quota check, response cache, provider call, quality fall-through, enrichment, cache
   fill, charge, usage log and response validation (src/app/api/verticals.py handle_vertical and
   what it calls). The handlers are coroutines of one event loop: everything between two awaits is
   one action, every await is a point where another request, the operator or a restart may run.

   A result payload is abstracted to what the control flow and the properties tell apart: who
   produced the main blocks, whether they are absent, well formed or malformed, the same for an
   enrichment block, and searchMeta. "kg" is either of knowledgeGraph and peopleAlsoAsk: enrichment
   fills the two by the same rule, each without regard to the other, and no property relates them. *)
EXTENDS Integers, FiniteSets, FiniteSetsExt

CONSTANTS
    Requests,            \* identities of HTTP requests
    Keys,                \* rows of api_keys
    Verticals,           \* routes
    Queries,             \* q together with every other cache-key parameter
    SearchVertical,      \* the route enrichment applies to
    PrimaryVerticals,    \* verticals with an entry in PRIMARY_BLOCK
    ProviderFor,         \* [Verticals -> Providers], provider_for
    CostOf,              \* [Verticals -> Nat], credits_for
    Supported,           \* [Providers -> SUBSET Verticals], what each adapter serves
    Configured,          \* providers the factory can build
    QualityFallthrough, SearchEnrichment,   \* settings
    PolicyFiles,         \* sets of queries a policy file may deny
    InitialCredits, TopUp,
    MaxTopUps, MaxRestarts                  \* bounds on what the operator does

Providers == {"genxng", "commercial", "direct_scrape"}

ASSUME FiniteAssumption == IsFiniteSet(Requests) /\ IsFiniteSet(Keys)
ASSUME CostAssumption == CostOf \in [Verticals -> Nat]
ASSUME RoutingAssumption ==
    /\ ProviderFor \in [Verticals -> Providers]
    /\ Supported \in [Providers -> SUBSET Verticals]
    /\ PrimaryVerticals \subseteq Verticals
    /\ QualityFallthrough \in BOOLEAN /\ SearchEnrichment \in BOOLEAN
ASSUME CreditAssumption == InitialCredits \in Nat /\ TopUp \in Nat
ASSUME PolicyAssumption == PolicyFiles \subseteq SUBSET Queries /\ PolicyFiles # {}
ASSUME BoundAssumption == MaxTopUps \in Nat /\ MaxRestarts \in Nat

VARIABLES
    credits, active,     \* api_keys, per key
    cache,               \* Redis response cache, per vertical and query
    usage,               \* usage_log rows
    policy,              \* the deny-list this process loaded
    pc, job, snapshot,   \* per request: next await, what it asks for, api_key.credits
    work,                \* per request: blocks, source_provider, provenance, served_from_cache
    status,              \* per request: the answer
    paid,                \* history: what deduct_credits did for the request
    overtaken,           \* history: another request on the key was charged since the snapshot
    topUps, restarts     \* bounds

keyVars == <<credits, active, topUps>>
requestVars == <<pc, job, snapshot, work, status>>
historyVars == <<paid, overtaken>>
vars == <<credits, active, cache, usage, policy, pc, job, snapshot, work, status, paid, overtaken,
          topUps, restarts>>

-----------------------------------------------------------------------------
(* Data *)

Shapes == {"none", "ok", "bad"}      \* absent or empty; passes the response model; does not
Metas == {"none", "good", "degraded"}
Blocks == [main : Providers, results : Shapes, kg : Shapes, kgFrom : Providers, meta : Metas]
Sources == Providers \cup {"cache"}
Work == [blocks : Blocks, source : Providers, mainFrom : Sources, kgFrom : Sources, hit : BOOLEAN]
Miss == [kind |-> "miss"]
Entries == [kind : {"hit"}, blocks : Blocks, provider : Providers]
NoBlocks == [main |-> "genxng", results |-> "none", kg |-> "none", kgFrom |-> "genxng",
             meta |-> "none"]
NoWork == [blocks |-> NoBlocks, source |-> "genxng", mainFrom |-> "genxng", kgFrom |-> "genxng",
           hit |-> FALSE]

Pending == 0                         \* no answer yet
Lost == 1                            \* the process died: connection closed without an answer
Codes == {200, 401, 402, 403, 429, 500, 501, 502}
Stages == {"idle", "auth", "gate", "limit", "lookup", "call", "fallthrough", "enrich", "store",
           "charge", "log", "reply", "done"}
InFlight == Stages \ {"idle", "done"}
PastGate == InFlight \ {"auth", "gate"}
Rows == [req : Requests, key : Keys, vertical : Verticals, credits : Nat, provider : Providers,
         cached : BOOLEAN]

Jobs == [key : Keys, vertical : Verticals, query : Queries]
NoJob == CHOOSE j \in Jobs : TRUE

ASSUME SomeJobAssumption == Jobs # {}

Cost(r) == CostOf[job[r].vertical]
Slot(r) == <<job[r].vertical, job[r].query>>
WellFormed(b) == b.results # "bad" /\ b.kg # "bad"

(* Only genxng's metasearch verticals carry searchMeta, and either verdict is possible. *)
MetasOf(p, v) ==
    IF p = "genxng" /\ v \in PrimaryVerticals THEN {"good", "degraded"} ELSE {"none"}

(* What an adapter may return for a vertical. Serper's forwards the upstream's non-empty blocks, the
   others copy the upstream's values into blocks of their own: none checks them against the response
   model, so what any of them returns may not fit it. *)
Payloads(p, v) ==
    [main : {p}, results : Shapes, kg : IF v = SearchVertical THEN Shapes ELSE {"none"},
     kgFrom : {p}, meta : MetasOf(p, v)]

CanServe(p, v) == p # "direct_scrape" /\ v \in Supported[p]
-----------------------------------------------------------------------------
(* Steps of the handlers *)

Goto(r, stage) == pc' = [pc EXCEPT ![r] = stage]

(* An HTTPException, an unhandled exception (500) or the response: the handler is over and its
   local variables are gone. A served request keeps its blocks: they are in the response. *)
Answer(r, code) ==
    /\ pc' = [pc EXCEPT ![r] = "done"]
    /\ status' = [status EXCEPT ![r] = code]
    /\ work' = IF code = 200 THEN work ELSE [work EXCEPT ![r] = NoWork]

QuotaUnchecked(balance, cost) == TRUE
QuotaAllows(balance, cost) == balance >= cost

(* UPDATE ... SET credits = credits - cost WHERE id = k AND credits >= cost *)
DeductUnguarded(balance, cost) == TRUE
DeductAllows(balance, cost) == balance >= cost

GateOpen(q) == FALSE
GateBlocks(q) == q \in policy

(* The cached entry carries the blocks and source_provider. *)
EntryOfPrimary(r) == [kind |-> "hit", blocks |-> work[r].blocks,
                      provider |-> ProviderFor[job[r].vertical]]
EntryOf(r) == [kind |-> "hit", blocks |-> work[r].blocks, provider |-> work[r].source]

(* On a hit every block's provenance is "cache" and source_provider the cached one. *)
FromCache(e) == [blocks |-> e.blocks, source |-> e.provider, mainFrom |-> "cache",
                 kgFrom |-> "cache", hit |-> TRUE]

(* provenance = {b: source_provider for b in blocks if b != "searchMeta"} *)
FromProvider(b, source) == [blocks |-> b, source |-> source, mainFrom |-> source,
                            kgFrom |-> source, hit |-> FALSE]

FallsThrough(b, v) ==
    /\ b.meta = "degraded" /\ QualityFallthrough
    /\ b.main # "commercial" /\ v \in PrimaryVerticals
    /\ "commercial" \in Configured       \* else the factory raises and nothing is awaited

Enriches(source, v) ==
    /\ v = SearchVertical /\ SearchEnrichment /\ source # "commercial"
    /\ "commercial" \in Configured

AfterPrimary(source, v) == IF Enriches(source, v) THEN "enrich" ELSE "store"

(* The alternative replaces the degraded result only if its primary block is non-empty. *)
Replaces(alternative) == alternative.results # "none"

(* Fill kg from the commercial payload when it has one and the primary has none. *)
Enriched(w, extra) ==
    IF extra.kg # "none" /\ w.blocks.kg = "none"
    THEN [w EXCEPT !.blocks.kg = extra.kg, !.blocks.kgFrom = "commercial",
                   !.kgFrom = "commercial"]
    ELSE w

(* Requests whose api_key snapshot is live when deduct_credits of another one commits. *)
Overtaken(r) ==
    {s \in Requests \ {r} :
        job[s].key = job[r].key /\ pc[s] \in InFlight \ {"auth", "log", "reply"}}

RowOf(r) == [req |-> r, key |-> job[r].key, vertical |-> job[r].vertical, credits |-> Cost(r),
             provider |-> work[r].source, cached |-> work[r].hit]

-----------------------------------------------------------------------------
Init ==
    /\ credits = [k \in Keys |-> InitialCredits]
    /\ active = [k \in Keys |-> TRUE]
    /\ cache = [s \in Verticals \X Queries |-> Miss]
    /\ usage = {}
    /\ policy \in PolicyFiles
    /\ pc = [r \in Requests |-> "idle"]
    /\ job = [r \in Requests |-> NoJob]
    /\ snapshot = [r \in Requests |-> 0]
    /\ work = [r \in Requests |-> NoWork]
    /\ status = [r \in Requests |-> Pending]
    /\ paid = [r \in Requests |-> "open"]
    /\ overtaken = {}
    /\ topUps = 0 /\ restarts = 0

Arrive(r) ==
    /\ pc[r] = "idle"
    /\ job' \in {[job EXCEPT ![r] = j] : j \in Jobs}
    /\ Goto(r, "auth")
    /\ UNCHANGED <<keyVars, cache, usage, policy, snapshot, work, status, historyVars, restarts>>

(* require_api_key: an active row becomes the request's snapshot, anything else is 401. *)
Authenticate(r) ==
    /\ pc[r] = "auth"
    /\ \/ /\ active[job[r].key]
          /\ snapshot' = [snapshot EXCEPT ![r] = credits[job[r].key]]
          /\ Goto(r, "gate")
          /\ UNCHANGED <<work, status>>
       \/ /\ ~active[job[r].key]
          /\ Answer(r, 401)
          /\ UNCHANGED snapshot
    /\ UNCHANGED <<keyVars, cache, usage, policy, job, historyVars, restarts>>

(* policy.check, before the first await of handle_vertical. *)
Gate(r) ==
    /\ pc[r] = "gate"
    /\ IF GateBlocks(job[r].query) THEN Answer(r, 403)
       ELSE Goto(r, "limit") /\ UNCHANGED <<work, status>>
    /\ UNCHANGED <<keyVars, cache, usage, policy, job, snapshot, historyVars, restarts>>

(* limiter.check answers, then the quota is checked against the snapshot. The bucket itself is
   module RateLimiter: here either verdict is possible. *)
Limit(r) ==
    /\ pc[r] = "limit"
    /\ \/ Answer(r, 429)
       \/ /\ QuotaAllows(snapshot[r], Cost(r))
          /\ Goto(r, "lookup")
          /\ UNCHANGED <<work, status>>
       \/ /\ ~QuotaAllows(snapshot[r], Cost(r))
          /\ Answer(r, 402)
    /\ UNCHANGED <<keyVars, cache, usage, policy, job, snapshot, historyVars, restarts>>

(* cache.get answers; on a miss the factory builds the provider and its search begins. *)
Lookup(r) ==
    LET e == cache[Slot(r)]
        p == ProviderFor[job[r].vertical] IN
    /\ pc[r] = "lookup"
    /\ \/ /\ e # Miss
          /\ work' = [work EXCEPT ![r] = FromCache(e)]
          /\ Goto(r, "charge")
          /\ UNCHANGED status
       \/ /\ e = Miss /\ p \in Configured
          /\ Goto(r, "call")
          /\ UNCHANGED <<work, status>>
       \/ /\ e = Miss /\ p \notin Configured
          /\ Answer(r, 501)
    /\ UNCHANGED <<keyVars, cache, usage, policy, job, snapshot, historyVars, restarts>>

(* How the primary call may end without blocks: a ProviderError, which the stub always raises and an
   open circuit raises before the adapter is asked (502), a vertical the adapter does not serve (501),
   an exception of another class (500). *)
CallFailures(p, v) ==
    IF p = "direct_scrape" THEN {502} ELSE IF CanServe(p, v) THEN {500, 502} ELSE {501, 502}

Call(r) ==
    LET v == job[r].vertical
        p == ProviderFor[v] IN
    /\ pc[r] = "call"
    /\ \/ /\ CanServe(p, v)
          /\ \E b \in Payloads(p, v) :
                /\ work' = [work EXCEPT ![r] = FromProvider(b, p)]
                /\ Goto(r, IF FallsThrough(b, v) THEN "fallthrough" ELSE AfterPrimary(p, v))
          /\ UNCHANGED status
       \/ \E code \in CallFailures(p, v) : Answer(r, code)
    /\ UNCHANGED <<keyVars, cache, usage, policy, job, snapshot, historyVars, restarts>>

(* _try_fallthrough: served by commercial, kept, or an exception that is no ProviderError. *)
Fallthrough(r) ==
    LET v == job[r].vertical IN
    /\ pc[r] = "fallthrough"
    /\ \/ /\ CanServe("commercial", v)
          /\ \E b \in Payloads("commercial", v) :
                /\ Replaces(b)
                /\ work' = [work EXCEPT ![r] = FromProvider(b, "commercial")]
          /\ Goto(r, "store")
          /\ UNCHANGED status
       \/ /\ Goto(r, AfterPrimary(work[r].source, v))
          /\ UNCHANGED <<work, status>>
       \/ Answer(r, 500)
    /\ UNCHANGED <<keyVars, cache, usage, policy, job, snapshot, historyVars, restarts>>

(* _enrich_search: a ProviderError leaves the blocks untouched; other exceptions escape. *)
Enrich(r) ==
    /\ pc[r] = "enrich"
    /\ \/ /\ CanServe("commercial", job[r].vertical)
          /\ \E extra \in Payloads("commercial", job[r].vertical) :
                work' = [work EXCEPT ![r] = Enriched(@, extra)]
          /\ Goto(r, "store")
          /\ UNCHANGED status
       \/ /\ Goto(r, "store")
          /\ UNCHANGED <<work, status>>
       \/ Answer(r, 500)
    /\ UNCHANGED <<keyVars, cache, usage, policy, job, snapshot, historyVars, restarts>>

(* cache.set: the connection may fail although Redis has stored the entry. *)
Store(r) ==
    /\ pc[r] = "store"
    /\ cache' = [cache EXCEPT ![Slot(r)] = EntryOf(r)]
    /\ \/ Goto(r, "charge") /\ UNCHANGED <<work, status>>
       \/ Answer(r, 500)
    /\ UNCHANGED <<keyVars, usage, policy, job, snapshot, historyVars, restarts>>

(* A read-modify-write of the snapshot instead of UPDATE ... SET credits = credits - cost. *)
DebitFromSnapshot(r) ==
    LET k == job[r].key IN
    /\ credits' = [credits EXCEPT ![k] = snapshot[r] - Cost(r)]
    /\ paid' = [paid EXCEPT ![r] = "charged"]
    /\ overtaken' = IF Cost(r) > 0 THEN overtaken \cup Overtaken(r) ELSE overtaken

(* The debit as Postgres executes it, and what it returns. *)
Debit(r) ==
    LET k == job[r].key IN
    IF DeductAllows(credits[k], Cost(r))
    THEN /\ credits' = [credits EXCEPT ![k] = @ - Cost(r)]
         /\ paid' = [paid EXCEPT ![r] = "charged"]
         /\ overtaken' = IF Cost(r) > 0 THEN overtaken \cup Overtaken(r) ELSE overtaken
    ELSE /\ paid' = [paid EXCEPT ![r] = "waived"]
         /\ UNCHANGED <<credits, overtaken>>

(* deduct_credits: False is logged and the request goes on; the connection may fail before the
   statement ran or after it committed, and the exception ends the request. *)
Charge(r) ==
    /\ pc[r] = "charge"
    /\ \/ Debit(r) /\ Goto(r, "log") /\ UNCHANGED <<work, status>>
       \/ Debit(r) /\ Answer(r, 500)
       \/ Answer(r, 500) /\ UNCHANGED <<credits, historyVars>>
    /\ UNCHANGED <<active, topUps, cache, usage, policy, job, snapshot, restarts>>

(* An insert whose failure is not swallowed. *)
LogEscapes(r) ==
    /\ pc[r] = "log"
    /\ \/ usage' = usage \cup {RowOf(r)} /\ Goto(r, "reply") /\ UNCHANGED <<work, status>>
       \/ Answer(r, 500) /\ UNCHANGED usage
    /\ UNCHANGED <<keyVars, cache, policy, job, snapshot, historyVars, restarts>>

(* log_usage: Postgres has the row, or the insert failed, which is swallowed. *)
Log(r) ==
    /\ pc[r] = "log"
    /\ \/ usage' = usage \cup {RowOf(r)}
       \/ UNCHANGED usage
    /\ Goto(r, "reply")
    /\ UNCHANGED <<keyVars, cache, policy, job, snapshot, work, status, historyVars, restarts>>

(* What the validation of the finished response answers. *)
UnfitIs502(b) == IF WellFormed(b) THEN 200 ELSE 502
Validation(b) == IF WellFormed(b) THEN 200 ELSE 500

(* The handler is resumed for the last time: model_validate, and the response. *)
Finish(r) ==
    /\ pc[r] = "reply"
    /\ Answer(r, Validation(work[r].blocks))
    /\ UNCHANGED <<keyVars, cache, usage, policy, job, snapshot, historyVars, restarts>>

(* Redis or Postgres is unreachable at an await that no handler guards. *)
StoreUnavailable(r) ==
    /\ pc[r] \in {"auth", "limit", "lookup", "store"}
    /\ Answer(r, 500)
    /\ UNCHANGED <<keyVars, cache, usage, policy, job, snapshot, historyVars, restarts>>

Step(r) == \/ Authenticate(r) \/ Gate(r) \/ Limit(r) \/ Lookup(r) \/ Call(r) \/ Fallthrough(r)
           \/ Enrich(r) \/ Store(r) \/ Charge(r) \/ Log(r) \/ Finish(r) \/ StoreUnavailable(r)

-----------------------------------------------------------------------------
(* The environment *)

(* docs/RUNBOOK.md: UPDATE api_keys SET credits = credits + n *)
OperatorTopUp(k) ==
    /\ topUps < MaxTopUps
    /\ topUps' = topUps + 1
    /\ credits' = [credits EXCEPT ![k] = @ + TopUp]
    /\ UNCHANGED <<active, cache, usage, policy, requestVars, historyVars, restarts>>

(* docs/RUNBOOK.md: UPDATE api_keys SET active = false *)
Deactivate(k) ==
    /\ active[k]
    /\ active' = [active EXCEPT ![k] = FALSE]
    /\ UNCHANGED <<credits, topUps, cache, usage, policy, requestVars, historyVars, restarts>>

(* The TTL of an entry runs out, or Redis evicts it. *)
Expire(s) ==
    /\ cache[s] # Miss
    /\ cache' = [cache EXCEPT ![s] = Miss]
    /\ UNCHANGED <<keyVars, usage, policy, requestVars, historyVars, restarts>>

(* The process dies and the container restarts: requests in flight are lost with what they had in
   memory, and the policy file is read again (a missing file is
   an empty deny-list). *)
Restart ==
    /\ restarts < MaxRestarts
    /\ restarts' = restarts + 1
    /\ policy' \in PolicyFiles
    /\ pc' = [r \in Requests |-> IF pc[r] \in InFlight THEN "done" ELSE pc[r]]
    /\ status' = [r \in Requests |-> IF pc[r] \in InFlight THEN Lost ELSE status[r]]
    /\ work' = [r \in Requests |-> IF pc[r] \in InFlight THEN NoWork ELSE work[r]]
    /\ UNCHANGED <<keyVars, cache, usage, job, snapshot, historyVars>>

Environment == \/ \E k \in Keys : OperatorTopUp(k) \/ Deactivate(k)
               \/ \E s \in Verticals \X Queries : Expire(s)
               \/ Restart

Next == (\E r \in Requests : Arrive(r) \/ Step(r)) \/ Environment

(* No fairness: Redis and Postgres are awaited without a timeout, so a request may wait for ever. *)
Spec == Init /\ [][Next]_vars

-----------------------------------------------------------------------------
(* Properties *)

TypeOK ==
    /\ credits \in [Keys -> Nat]
    /\ active \in [Keys -> BOOLEAN]
    /\ cache \in [Verticals \X Queries -> {Miss} \cup Entries]
    /\ usage \subseteq Rows
    /\ policy \in PolicyFiles
    /\ pc \in [Requests -> Stages]
    /\ job \in [Requests -> Jobs]
    /\ snapshot \in [Requests -> Nat]
    /\ work \in [Requests -> Work]
    /\ status \in [Requests -> Codes \cup {Pending, Lost}]
    /\ paid \in [Requests -> {"open", "charged", "waived"}]
    /\ overtaken \subseteq Requests
    /\ topUps \in Nat /\ restarts \in Nat

(* Money is neither created nor lost, whatever requests, top-ups and restarts interleave: what the
   keys hold and what was charged is what they were given (db.py deduct_credits). *)
Taken == [r \in Requests |-> IF paid[r] = "charged" THEN Cost(r) ELSE 0]

LedgerBalanced ==
    MapThenSumSet(LAMBDA k : credits[k], Keys) + MapThenSumSet(LAMBDA r : Taken[r], Requests)
    = Cardinality(Keys) * InitialCredits + topUps * TopUp

(* A request that is refused, or whose provider fails, settles no bill and leaves no usage row
   (verticals.py: the early exits come before the charge). *)
RefusalsAreFree ==
    \A r \in Requests : status[r] \in Codes \ {200, 500} =>
        paid[r] = "open" /\ \A row \in usage : row.req # r

(* The quota check reads a snapshot, so a request can be served that the balance no longer covers:
   but only if another request on its key was charged between its authentication and its own
   charge. Nothing else, no top-up, deactivation or restart, lets a query go unbilled. *)
OnlyOvertakenGoUnbilled ==
    /\ \A r \in Requests : paid[r] = "waived" => r \in overtaken
    /\ \A row \in usage : paid[row.req] = "charged" \/ row.req \in overtaken

(* Why it holds, step by step: from its authentication to its charge a request that nobody overtook
   still has its snapshot in the bank, and from the quota check on the snapshot covers its cost. *)
Holding == InFlight \ {"auth", "log", "reply"}
QuotaPassed == Holding \ {"gate", "limit"}

SnapshotStands ==
    \A r \in Requests : pc[r] \in Holding /\ r \notin overtaken
                            => credits[job[r].key] >= snapshot[r]
QuotaHeld == \A r \in Requests : pc[r] \in QuotaPassed => snapshot[r] >= Cost(r)

(* A bill is settled at the charge and not before, and a row is written after it: also for a request
   whose process dies before it answers. *)
SettledLate ==
    \A r \in Requests :
        /\ paid[r] # "open" => pc[r] \in {"log", "reply", "done"}
        /\ pc[r] \in {"log", "reply"} => paid[r] # "open"
        /\ paid[r] # "open" /\ pc[r] = "done" => status[r] \in {200, 500, Lost}
AnsweredOnce == \A r \in Requests : pc[r] # "done" => status[r] = Pending
RowsLate ==
    \A row \in usage :
        \/ pc[row.req] = "reply"
        \/ pc[row.req] = "done" /\ status[row.req] \in {200, 500, Lost}

BillingInv == /\ SnapshotStands /\ QuotaHeld /\ SettledLate /\ AnsweredOnce /\ RowsLate
              /\ OnlyOvertakenGoUnbilled

(* What the answer and the audit trail say of a served request is true, through fall-through,
   enrichment and the cache: usage_log and providersUsed name the provider that produced the
   blocks, or the cache (verticals.py source_provider, provenance). *)
ServedTruthfully ==
    \A r \in Requests : status[r] = 200 =>
        LET w == work[r] IN
        /\ w.mainFrom = IF w.hit THEN "cache" ELSE w.blocks.main
        /\ w.blocks.kg # "none" => w.kgFrom = IF w.hit THEN "cache" ELSE w.blocks.kgFrom
        /\ \A row \in usage : row.req = r =>
              row.provider = w.blocks.main /\ row.cached = w.hit

(* Why: the truth is kept by the cache and by every request from its provider's answer on. *)
Truthful(w) ==
    /\ w.source = w.blocks.main
    /\ w.mainFrom = IF w.hit THEN "cache" ELSE w.blocks.main
    /\ w.blocks.kg # "none" => w.kgFrom = IF w.hit THEN "cache" ELSE w.blocks.kgFrom

Answering == {"fallthrough", "enrich", "store", "charge", "log", "reply"}

TruthInv ==
    /\ \A s \in Verticals \X Queries : cache[s] # Miss => cache[s].provider = cache[s].blocks.main
    /\ \A r \in Requests : pc[r] \in Answering \/ status[r] = 200 => Truthful(work[r])
    /\ \A r \in Requests : pc[r] \in {"fallthrough", "enrich", "store"} => ~work[r].hit
    /\ \A row \in usage : pc[row.req] = "reply" \/ status[row.req] = 200 =>
          row.provider = work[row.req].source /\ row.cached = work[row.req].hit

(* While the loaded policy denies a query, nothing about it happens behind the gate: no provider
   call, no cache fill, no charge and no usage row, across restarts that change the policy and
   requests that were in flight when it changed (verticals.py "nothing about it egresses"). *)
DeniedQueriesLeaveNoTrace ==
    [][\A r \in Requests : job[r].query \in policy =>
          /\ pc'[r] \notin PastGate
          /\ paid'[r] = paid[r]
          /\ cache'[Slot(r)] \in {cache[Slot(r)], Miss}
          /\ \A row \in usage' \ usage : row.req # r]_vars

(* Why: a request for a denied query never gets past the gate. *)
DeniedStayOut == \A r \in Requests : job[r].query \in policy => pc[r] \notin PastGate

(* Once the bill is settled nothing but malformed blocks, or the end of the process, stands between a
   request and its answer: neither a deduction that was refused nor a usage row that could not be
   written makes it an error (verticals.py, the two swallowed failures after the cache fill). *)
PaidForIsServed ==
    [][\A r \in Requests : pc[r] \in {"log", "reply"} /\ WellFormed(work[r].blocks) =>
          pc'[r] \in {"log", "reply"} \/ status'[r] \in {200, Lost}]_vars

(* The pipeline implements the accounting it promises: with requests, restarts, top-ups and lost
   connections interleaved, every bill is settled at most once, for its own price and key, and left
   unpaid only against a balance that does not cover it (db.py deduct_credits, verticals.py). *)
OrderOf == [r \in Requests |-> [key |-> job[r].key, price |-> Cost(r)]]
BillOf == [r \in Requests |-> IF pc[r] = "idle" THEN "none" ELSE paid[r]]

Accounting == INSTANCE Billing WITH
    Prices <- {CostOf[v] : v \in Verticals}, balance <- credits, order <- OrderOf, bill <- BillOf

AccountingSpec == Accounting!Spec

-----------------------------------------------------------------------------
(* What the documents say and the code does not do *)

(* docs/API_USAGE.md: "Failed requests (4xx/5xx) are never charged"; verticals.py before the charge:
   "Success is certain from here". A request that was charged and accounted is not failed. *)
FailedRequestsAreFree ==
    \A r \in Requests : status[r] \in Codes \ {200} =>
        ~(paid[r] = "charged" /\ \E row \in usage : row.req = r)

(* verticals.py, of fall-through: "Any failure keeps the original degraded result -- fall-through must
   never make a response worse", and of enrichment: "any failure is logged and the primary provider's
   response is returned untouched": asking a second provider leaves a request that has a well-formed
   answer with one. *)
SecondProviderIsBestEffort ==
    [][\A r \in Requests : pc[r] \in {"fallthrough", "enrich"} /\ WellFormed(work[r].blocks) =>
          \/ pc'[r] = pc[r] \/ status'[r] = Lost
          \/ pc'[r] \in {"enrich", "store"} /\ WellFormed(work'[r].blocks)]_vars
=============================================================================
