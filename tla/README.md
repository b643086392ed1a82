# Verification of gen-api

TLA+ models of gen-api, the self-hosted search API in `src/`, with TLC runs on small
instances and TLAPS proofs for every value of the constants. The models are
translated from the Python and Lua source; where the documents and the code disagree the models follow
the code, and a run shows the disagreement (section 6).

Contents: 1 the system, 2 the modules, 3 the runs, 4 fairness, 5 the proofs, 6 disagreements between
documents and code, 7 what is left out, 8 what could follow, 9 how to run everything.

## 1. The system

gen-api is one asyncio process per replica, with Redis and Postgres behind it and a SearXNG instance
("genxng") or a commercial API upstream. Coroutines of one event loop interleave only at their
`await`s. That is the unit of atomicity in every module here: **an action is what runs between two
awaits, with the whole effect of the call that completes.** A Redis script and a single SQL statement
are atomic where they execute, which is not when the coroutine that sent them is resumed.

| Component | Source | State | Operations | Talks to |
|---|---|---|---|---|
| Request pipeline | `app/api/verticals.py`, `auth.py`, `cache.py`, `api/deps.py` | locals of each request: the `api_key` snapshot, blocks, `source_provider`, `provenance`, `served_from_cache` | authenticate, gate, limit, quota, look up, call, fall through, enrich, store, charge, log, validate | everything below, by awaited calls |
| Credit accounting | `app/db.py` | `api_keys.credits`, `api_keys.active`, `usage_log` | `deduct_credits`, `log_usage`, the operator's UPDATEs | Postgres |
| Policy gate | `app/policy.py` | the deny-list, read once per process | `check` | a file |
| Breaker and retries | `app/providers/resilience.py` | `_failures`, `_opened_at`; attempt and sleep of each search | `allow`, `record_success`, `record_failure`, retry loop | the inner provider |
| Outbound pacing | `app/pacing.py` | `_next_slot` | `acquire` | the clock |
| Rate limiter | `app/ratelimit.py` | token bucket per key, in Redis | `check` (a Lua script) | Redis |
| Engine health | `app/engine_health.py` | `_states`, `_categories` | probe rounds, `healthy_for` | SearXNG, on a background task |
| genxng adapter | `app/providers/searxng.py` | a pacer; per search the engines chosen | `search`: rewrite, choose engines, acquire, fetch, re-rank, normalize, score | pacer, health monitor, SearXNG |
| Commercial adapters | `app/providers/commercial.py`, `serpapi.py` | none | `search` | the commercial API |
| Registry and secrets | `app/providers/__init__.py`, `app/secrets.py` | `lru_cache`s | `get_provider`, `load_vault_secrets` | Vault |
| Quality, re-ranking, rewriting | `app/quality.py`, `rerank.py`, `query_rewrite.py` | none | pure functions | nothing |
| Everything else | `main.py`, `config.py`, `metrics.py`, `logging_config.py`, `schemas/`, `cli.py`, `scripts/` | settings, counters | see section 7 | |

What is hard here, and what makes each component correct:

- **Pipeline and accounting.** The balance is read at authentication and debited after up to six
  awaits, with other requests on the key, the operator and restarts in between. Every await can fail,
  and the order of the last steps (cache, charge, log, validate) decides what a late failure leaves
  behind. Correct: money is conserved; refusals are free; a query goes unbilled only in the one race
  the design accepts; the audit row and `providersUsed` tell who produced the blocks, through
  fall-through, enrichment and cache; a denied query leaves no trace; a query that was paid for is served
  unless its blocks are malformed or the process dies.
- **Breaker.** Results of calls that began before an opening arrive during and after it, and the retry
  loop acts after its sleep on a verdict from before it. Correct: the two fields agree; an open
  circuit cannot be hammered; it does not stay open for ever; every search ends.
- **Pacer.** A reservation is read-check-write, the floor lets an idle pacer fall behind by a burst, a
  refusal must not consume a slot. Correct: the egress envelope holds; waits and queue are bounded;
  no call is refused unless the queue is really full.
- **Rate limiter.** The time stamp is read before the round trip, so Redis sees stamps out of order,
  and it expires the bucket. Correct: the bucket's envelope holds all the same; a client that
  keeps to Retry-After is let in.
- **Engine health.** Rounds are aborted, the map of engines is replaced before anything is probed, and
  searches select in the middle of it. Correct: a quarantine is earned; engines that settle are
  in the end asked, or avoided.
- **A genxng search.** Breaker, retries, engine choice and pacer work on each other: a full queue is a failure
  that the breaker counts and the loop retries; a retry waits for a slot again and chooses engines again.
  Correct: the composition is still a breaker with retries; the time a search is held back is bounded; the
  queue alone cannot keep a circuit open; the engines asked for are a recent choice.
- **The answer.** Rewriting decides what re-ranking weighs, re-ranking what the slice keeps, the slice what
  the score counts. Correct: nothing is served above or instead of a result that clearly answers better;
  the block is complete and numbered; an empty or collapsed search is marked degraded.

`PROJECT.json` lists each hazard with the line where it bites and the properties that cover it.

## 2. The modules

| Module | Models |
|---|---|
| `Pipeline` | one request end to end; accounts, cache, audit, policy, operator and restarts as shared state |
| `Billing` | abstract: what credit accounting promises, apart from how a request is served |
| `Resilience` | `ResilientProvider` and `CircuitBreaker` with concurrent searches |
| `Pacer` | `OutboundPacer` with concurrent calls |
| `EgressQueue` | abstract: the pacer without a clock, as its callers meet it |
| `Genxng` | one genxng search from breaker to wire: `Resilience` and `EgressQueue` composed, with the choice of engines |
| `Answers` | what a genxng search makes of a payload: rewriting, re-ranking, normalizing, quality |
| `RateLimiter` | the token bucket of one key, its script and its expiry |
| `EngineHealth` | `EngineHealthMonitor`, `probe_loop`, and the selection of engines |
| `MC*` | instances for TLC |
| `Sums` | what the proofs need to know of sums over finite sets |
| `*Proofs` | theorems and their proofs |

### Pipeline

`pc[r]` is the await a request is at: `auth` (key lookup), `gate` (the dependency is resolved, the handler
begins), `limit`, `lookup`, `call`, `fallthrough`, `enrich`, `store`, `charge`, `log`. An action completes
that await and runs to the next, so `Limit` contains the quota check and `Lookup` the choice of
provider. The last await has two halves: `Log` is what Postgres makes of the row (a failure is swallowed),
and `Finish`, from `reply`, the handler resumed for the last time, which validates the response. The process can
die between them, with the row written and nobody answered.

| Variable | Code |
|---|---|
| `credits`, `active` | `api_keys` |
| `cache` | the entry per vertical and cache key; `Expire` is its TTL |
| `usage` | `usage_log` rows |
| `policy` | the loaded deny-list; a missing file is `{}` |
| `snapshot` | `api_key.credits` as authentication read it |
| `work` | `blocks`, `source_provider`, `provenance`, `served_from_cache` |
| `paid`, `overtaken` | history: what `deduct_credits` did; who was charged past whose snapshot |

Payloads are reduced to who produced the main blocks and the `kg` blocks, whether they are absent, well
formed or malformed, and the verdict of `searchMeta`. `kg` stands for either of `knowledgeGraph` and
`peopleAlsoAsk`: enrichment fills the two by the same rule, each without regard to the other. A malformed block
can come from any adapter, since all copy upstream values and none checks them against the response model.
Rate limiter, breaker and health monitor appear as choices: either verdict of the limiter, any outcome of a
search. A connection may break before a statement ran or after it took effect: `Store` and `Charge` may both
have had theirs and still answer 500.

`Billing` has four actions (`Place`, `Debit`, `Waive`, `Credit`). The refinement maps `credits` to
`balance`, a request's key and price to `order` and `paid` to `bill`; everything else a request
does is a stutter.

### Resilience

`opened` is the age of `_opened_at`, capped at the recovery period because `is_open` asks nothing more;
`_failures` is capped at the threshold for the same reason. `Enter` asks `allow()` once; `Fail`
records, then gives up or sleeps `Backoff * 2^attempt`; `Retry` calls again without asking. `Refuse` is
an error the loop does not retry, which the breaker is not told of. `leaked` and `trials` are history.

### Pacer

`Reserve` is everything `acquire` does under its lock, whose body has no await. `Saturate` is
`OutboundSaturatedError`: `_next_slot` may have been raised to the floor and the slot is not consumed.
`slots` is history: the time each reservation gives leave to go out, without jitter, which only delays.

`EgressQueue` is what is left when the clock is taken away: `lead`, how far the next slot is ahead of now, and
`left`, what each call has still to wait. `Pacer` implements it (`QueueSpec`): the floor becomes a bound
below which `lead` does not fall, raising `_next_slot` to it changes nothing a caller can see, and a
refusal is a stutter. That makes the pacer small enough to compose, and gives `Genxng` no horizon.

### Genxng

`ResilientProvider` around `SearXNGProvider.search` and `_get_json`. The breaker's part is `Resilience` by
INSTANCE, the pacer's `EgressQueue`; both keep their own variables, and every action of `Genxng` conjoins
theirs. A search runs without interruption from the breaker, or from the end of a back-off, to its next
await; in between it chooses engines and asks for a slot, and `turn` is the search doing so. `Reserve` ends in
the pacer's sleep, `Saturated` in the retry loop's (or in the exception), `Unsupported` in the exception of a
vertical genxng does not serve. `Depart` sends the request; `Answered` is whatever the backend did with
it, an exception the breaker is not told of included. `Verdict` is a probe round that changes what
`healthy_for` answers, at any await. An autocomplete call is paced alike and carries no engines.

| Variable | Code |
|---|---|
| `failures`, `opened`, `stage`, `attempt`, `timer`, `leaked`, `trials` | as in `Resilience` (`stage` is its `pc`) |
| `lead`, `left` | the pacer, as in `EgressQueue` |
| `selection` | what `healthy_for` answers now (`EngineHealth` says how that comes about) |
| `asked` | `params["engines"]` of a search's call |
| `held`, `lapse`, `unheard` | history: ticks waited; how long `asked` has been out of date while it waits; whether the last call ended without the breaker hearing of it |

### Answers

Pure code, so one step fetches a payload and one answers; the interest is in the operators. A result is known
by the query words in its title and in its text, its engines, its normalized URL (`page`) and whether it has
an image; weights are in tenths, logarithms (the table `Ln`) and scores in thousandths. `Block` is
`Normalized(Arranged(results))` as `search` composes it, `Degraded` the verdict on it. The reference
definitions are in the properties and do not mention scores. `InOrder` stands for Python's stable `sorted` and
for building a list in a loop: the k-th member is the one with k - 1 others before it. No recursion, so that
what it gives can be proved. In the properties `Beats` says when one result clearly answers
better than another (it mentions all the other does and more, or more of it in the title), whatever the
rarity of the words.

### RateLimiter

`Sample` reads the clock; `Allow` and `Deny` are the script as Redis runs it, at any later time up to
`MaxLag`, in any order. One token is `Cost` units and a tick refills `Rate`, which makes the floating
point refill exact. `ts` is what the script stored, so a check with an older stamp makes time run
backwards for the bucket, as the code does. `Missing` is an expired key: a full bucket.

### EngineHealth

`phase` is the await of the loop: `/config`, a probe, or the sleep. `Discover` replaces the map and lists
the engines in the order of their names; `Probe` takes the first of them, records, and goes on, or
ends the round when the probe raises an exception `_probe` does not catch (a JSON payload of another
shape). `Asked(c)` is what a search asks for at any moment: the selection `healthy_for` returns, or, when
that is `None`, whatever engines the backend has configured. Restart forgets everything.

## 3. The runs

Twelve runs, eight that pass and four counterexamples; times are for two workers. Every constant that bounds
a model is named as such where it is declared.

| Run | Shows | Instance and why it is enough |
|---|---|---|
| `pipeline` | `LedgerBalanced`, `RefusalsAreFree`, `OnlyOvertakenGoUnbilled`, `ServedTruthfully` | two requests on one key, balance 2, prices 1 and 2, one top-up: both can pass the quota check on a balance that covers one, a top-up can land between them, a cache entry of one can serve the other. Routes: metasearch, commercial, unconfigured. 2.6M states, 90 s |
| `pipeline_restarts` | `PaidForIsServed`, `DeniedQueriesLeaveNoTrace`, `AccountingSpec` | two requests and one restart that may load another policy at any await; a route the provider does not serve and one to the stub. 356k states, 25 s |
| `resilience` | `BreakerCoherent`, `LeakAtMostOncePerOpening`, `EverySearchEnds`, `OpenCircuitRecovers` | four searches, threshold 3, two retries: two can sleep while others open the circuit, and a result can be late by more than one opening. 42k states, 31 s |
| `pacer` | `EgressEnvelope`, `WaitBounded`, `QueueDepthBounded`, `RefusesOnlyWhenFull`, `QueueSpec` | three calls, interval 2, burst 1, maximum wait 3: idle by more than the burst, bursts, fills up, refuses, and fills up again before the horizon. 247k states, 11 s |
| `rate_limiter` | `BucketEnvelope`, `RetryAfterHonoured` | three checks, burst 2, a token every one and a half ticks, lag up to the margin; the bucket empties, refuses, expires and empties again before the horizon. 10 s |
| `engine_health` | `QuarantineIsEarned`, `UpIsAsked`, `DownIsAvoided` | three engines, one in both categories, two configurations, threshold 2, one restart; no bound on rounds or changes. 53k states, 20 s |
| `genxng` | `BreakerSpec`, `HeldBackBounded`, `TrialFindsRoom`, `ChoiceIsRecent` | two searches, threshold 2, one retry, slots two ticks apart, a maximum wait of one: the second of two searches finds the queue full, two failures open the circuit, a retry waits again; two answers of `healthy_for`. No bound on time. 79k states, 30 s |
| `answers` | `MoreRelevantFirst`, `InformativeWordsDecide`, `EngineOrderKept`, `BlockComplete`, `EmptyIsFlagged` | every list of up to three results out of six that differ in what the properties tell apart (relevant in title, in text, by a stopword, not at all; image and page; shared page; engines), four queries, three sizes. Three results are enough for a cut between two and for a tie. 233k states, 60 s |
| four `violation` runs | section 6 | the instances above |

Each passing run also checks its module's `TypeOK`, which carries a fact or two of its own: no balance is
negative, no search retries too often, the bucket never holds more than the burst. Deadlock is not
checked: requests end, and the clocks of Pacer and RateLimiter stop at their horizon. Symmetry is
used in runs of Pipeline and RateLimiter, which have no liveness properties.

What the properties say, in short:

- `OnlyOvertakenGoUnbilled`: a query is served unbilled only if another request on the key was charged
  between its authentication and its own charge. Top-ups, deactivations, restarts and failures do not do
  it.
- `PaidForIsServed`: once a bill is settled, neither a refused deduction nor a usage row that could not be
  written makes the answer an error; only malformed blocks, or the end of the process, do.
- `LeakAtMostOncePerOpening`: an open circuit gets at most one call of each search, the one its sleep was
  scheduled to make, however often stragglers re-stamp the opening.
- `RefusesOnlyWhenFull`: whenever a call that comes now would be refused, the last one accepted is itself due no
  sooner than an interval short of the maximum wait. Refusals, idle time and bursts leave no phantom queue.
- `EgressEnvelope`: n + burst + 1 calls get leave over no less than n intervals.
- `BucketEnvelope`: k checks in a row are allowed only if their stamps are far enough apart to refill k
  tokens less the burst.
- `RetryAfterHonoured`: a check stamped no earlier than a refusal's Retry-After is refused only if another
  check was allowed in between.
- `BreakerSpec`: the whole of `Resilience`'s specification, liveness included, holds of genxng searches; so do its
  properties.
- `HeldBackBounded`: slots and back-offs of all attempts together stay within (retries + 1) waits and the sum
  of the sleeps `Backoff * 2^n`. Saturation only shortens it, since it is met without a wait.
- `TrialFindsRoom`: half-open and with no call under way, the queue has room, provided the recovery period is no
  shorter than the slots are apart. One exception is in the property: a call that ended with an exception
  the breaker is not told of took its slot during the recovery period.
- `ChoiceIsRecent`: the engines asked for were the monitor's choice at most one wait for a slot ago, however often
  the search was retried.
- `MoreRelevantFirst`, `InformativeWordsDecide`: no result is served unless every one found that clearly answers
  better is served above it, judged by the words sent, and for a question by its informative words alone.
- `EmptyIsFlagged`: an empty answer is degraded, but for one case the code has (section 6, observed).
- `UpIsAsked`, `DownIsAvoided`: an engine that stays up (down) is in the end always (never) asked. The
  premise is as weak as the code allows: no engine whose name sorts *before* it makes its probe raise, since
  that ends every round before its turn.

## 4. Fairness

- `Pipeline`: none. Redis and Postgres are opened and awaited without a timeout (`app/db.py:43`,
  `app/main.py:33`), so a request at such an await may wait for ever, and the code justifies no promise that it
  is answered. All its properties are safety.
- `Pacer`: none. That a call that was accepted goes out is the end of one sleep, which fairness would assert
  rather than show.
- `Resilience`: weak fairness of the clock, of the end of a running call (timeouts) and of a sleep's end. None
  of callers coming, so an open circuit recovers without anybody asking.
- `EngineHealth`: weak fairness of the loop, which lives as long as the process and whose requests time out.
  Nothing is assumed of the backend; what the liveness properties need of it is their premise.
- `Genxng`: weak fairness of a search that is running (nothing interrupts it before its next await), strong fairness
  of time and of each search's waking. Others' turns disable these again and again, which weak fairness
  would let go on for ever; the event loop runs callbacks in the order they became ready, so whoever is ready
  again and again gets its turn. From this follows the weak fairness that `Resilience` assumes (`BreakerSpec`).
- `RateLimiter`, `Answers`: none, nothing in them is about progress.

## 5. The proofs

All proofs are checked by TLAPS with SMT, Zenon and PTL. They assume only the named `ASSUME`s of the
modules: types of the constants, finite sets of requests, keys and engines, positive thresholds, intervals and
rates, for the limiter `LagAssumption`, and for `EmptyAnswersAreFlagged` `ThresholdAssumption`: the coverage weight
is no more than the degraded threshold (0.5 and 0.5 in `config.py`), and there are fewer engines than it takes for
the rounding to three digits to hide one of them (1000 with that weight). Each inductive invariant was checked by TLC before it was proved.

| Module | Theorem | States |
|---|---|---|
| `PipelineProofs` | `TypeCorrect`, `BillingHolds`, `OnlyOvertaken`, `RefusalsFree` | `TypeOK`, `BillingInv`, `OnlyOvertakenGoUnbilled`, `RefusalsAreFree` |
| | `ImplementsBilling` | `AccountingSpec`: Pipeline implements Billing |
| | `LedgerBalances` | `LedgerBalanced` |
| | `DeniedLeaveNoTrace` | `DeniedQueriesLeaveNoTrace` |
| | `AuditTruthful` | `ServedTruthfully` |
| | `PaidIsServed` | `PaidForIsServed` |
| `ResilienceProofs` | `TypeCorrect`, `Coherent`, `LeakOnce` | `TypeOK`, `BreakerCoherent`, `LeakAtMostOncePerOpening` |
| `PacerProofs` | `TypeCorrect`, `PacerInvariant`, `Envelope`, `SleepBounded`, `RefusalsJustified` | `TypeOK`, `PacerInv`, `EgressEnvelope`, `WaitBounded`, `RefusesOnlyWhenFull` |
| | `DepthBounded` | `QueueDepthBounded` |
| | `ImplementsQueue` | `QueueSpec`: Pacer implements EgressQueue |
| `RateLimiterProofs` | `TypeCorrect`, `LimiterInvariant`, `Envelope`, `RetryHonoured` | `TypeOK`, `LimiterInv`, `BucketEnvelope`, `RetryAfterHonoured` |
| `EngineHealthProofs` | `TypeCorrect`, `EarnedQuarantine` | `TypeOK`, `QuarantineIsEarned` |
| `GenxngProofs` | `TypeCorrect`, `TrialHasRoom`, `ChosenRecently` | `TypeOK`, `TrialFindsRoom`, `ChoiceIsRecent` |
| | `HeldBackIsBounded` | `HeldBackBounded` |
| | `ImplementsBreaker`, `LeakOnce` | `BreakerSafety`: the safety part of `BreakerSpec`; Resilience's `LeakAtMostOncePerOpening` |
| | `ImplementsQueue` | the specification of `EgressQueue` |
| `AnswersProofs` | `TypeCorrect`, `BlocksAreComplete` | `TypeOK`, `BlockComplete` |
| | `EngineOrderIsKept`, `MoreRelevantIsFirst`, `InformativeWordsRank` | `EngineOrderKept`, `MoreRelevantFirst`, `InformativeWordsDecide` |
| | `EmptyAnswersAreFlagged` | `EmptyIsFlagged` |
| `Sums` | lemmas: `SumOfChange`, `SumOfSplit`, `SumOfPart`, `SumOfLess`, `SumOfConstant`, ... | the laws of `MapThenSumSet`, for summands given as a function |

The arguments:

- **Billing.** `OnlyOvertakenGoUnbilled` says nothing of a request under way, so it is not inductive.
  `BillingInv` adds the chain that leads to it: the balance is at least the snapshot unless the request was
  overtaken (`SnapshotStands`), the snapshot covers the cost from the quota check on (`QuotaHeld`), and bills
  and rows come after the charge (`SettledLate`, `RowsLate`). A refused deduction then contradicts the
  first two unless the request was overtaken.
- **Ledger.** `SumOfChange`: changing one summand changes a sum by as much. A debit lowers one key's credits and
  raises one entry of `Taken` by the same cost, a top-up raises one key's; no other step touches either sum.
- **Refinement.** Init maps to Init and each action to `Place`, `Debit`, `Waive`, `Credit` or a stutter; a bill
  is settled only from `open`, which is `SettledLate`.
- **Policy.** `DeniedStayOut`: no request for a denied query is past the gate. A restart may deny a query
  that was allowed, but it loses every request in flight.
- **Truth.** `TruthInv` keeps for the cache, for requests from their provider's answer on, and for rows,
  that the recorded source is who produced the main blocks.
- **Paid.** No other request moves one that waits for its row or its answer (`OwnStepOnly`), its own steps there
  are `Log` and `Finish`, and neither answers an error to well-formed blocks.
- **Leak.** `LeakInv` counts a sleeping search as a call about to leak: leaked plus asleep is at most one
  while the circuit is open, since nobody goes to sleep once it is.
- **Pacer.** `SlotAhead`: the next slot is ahead of every slot given so far by the distance the calls since
  require, less the burst. A reservation adds one interval to both sides, the floor only helps.
- **Refusals.** A queue too deep is deeper than the floor (`DeepSlot`), so the next slot is one that a call left
  behind and not one that time raised: one interval after the last slot given.
- **Depth.** `DepthInv`: of the slots still ahead of the clock the next one is ahead by a full interval per call
  since, burst or not, because a reservation that has to wait gets the next slot itself; and the next slot is never
  more than the maximum wait and an interval away. So the calls ahead are among the last
  `MaxWait / Interval + 1`.
- **Queue.** `lead` is the next slot less now, cut off below at the burst; each action of Pacer is one of
  EgressQueue's or a stutter, case by case on whether the floor is in force.
- **Genxng.** Each action is one of Resilience's or leaves its variables alone, so the step lemmas of
  `ResilienceProofs` are used as they stand, through INSTANCE. `Draining`: from the last failure of an opening on,
  with nobody between the breaker and the queue, the queue has shortened by the age of the opening or is short
  enough; when the circuit is half-open that age is the recovery period. `LapseInv`: the time a choice is out of
  date and the wait still ahead together never exceed one wait.
- **Limiter.** `Level`, the tokens less what time up to the stored stamp refills, does not depend on the stamp
  the bucket is stored at, so reordering does not disturb it; a check that is allowed lowers it by a
  token, a refused one leaves it. `LevelAccounts` bounds it by every check allowed. When Redis drops the
  bucket, `LevelBounded` and the time to live show that a full bucket would have been refilled anyway. This
  is where `MaxLag <= Margin` is needed: a check later than the 60 s that `EXPIRE` adds could find a full
  bucket that its stamp does not entitle it to.
- **Quarantine.** `MissesCounted`: count, verdict and history move together.
- **Held back.** `HeldInv`: what a search has waited and what is left of its present wait fit into the budget of
  the attempts it has made, one wait for a slot each and the sleeps between them. `Budget` grows by a wait when
  an attempt gets its slot and by `Backoff * 2^n` when it fails, which is `SumOfSplit`; the sum to `MaxRetries` has
  every shorter one as a part (`SumOfPart`).
- **Leak, composed.** The steps of `Genxng` are steps of `Resilience`, so `LeakStep` is cited through INSTANCE.
- **Order.** `InOrderLists`: for a relation that puts a finite set in a row (irreflexive, transitive, total), the
  number of members before one is a different number from 0 to |S| - 1 for each, hence every number there is
  some member's (an injection between finite sets of the same size is onto); so `InOrder` lists every member
  once, earlier ones first. Positions under < and results under (score, position) are such rows.
- **Answers.** `AnswersComputed`, a lemma: the block and the verdict are the ones the operators compute from the
  payload, so what remains is about the operators. `BlockHasOrigin` gives each entry the position of its result
  in the payload, shows that entries are in the order of serving, and that a result that fits is missing only
  if the block is full and every entry precedes it: completeness at once, and the other properties once it is
  known what precedes what. `Scores`: a result that beats another has no smaller weight for any term and a
  greater one for some, since no term is worth nothing (the 0.1 added to the logarithm), so its sum is
  greater (`SumOfLess`); results that mention the same have the same sum (`SumOfSame`), and then the
  earlier comes first. `InformativeTerms`: the terms of a rewritten question are its informative words, also when
  nothing had to be taken out.
- **Empty.** Without a result the score is the coverage weight times the coverage, rounded. With c of d engines,
  c < d, that is below the threshold because 1/d of the weight is more than half a thousandth.

Sums over sets are defined by recursion over sets, and the library's induction theorems take an operator as a
parameter, which no installed prover can instantiate. `Sums` does the induction over sets of sets instead: the
strict subset ordering on the subsets of a finite set is well-founded, so the set of subsets for which a law fails
has a smallest member if it has one (`SmallestSubset`), and taking an element from that one gives the
contradiction. That works for one law at a time, each stated of functions rather than operators.

Only model-checked: all liveness (`EverySearchEnds`, `OpenCircuitRecovers`, `UpIsAsked`, `DownIsAvoided`, the
liveness in `BreakerSpec`), which with fairness and ENABLED is out of the prover's reach. Every invariant and every action property that a passing run checks is also a theorem. No
module uses a RECURSIVE operator.

## 6. Where documents and code disagree

Each is the counterexample of a run that checks the document's sentence as a property.

| Run | The document | The code |
|---|---|---|
| `failed_charged` | "Failed requests (`4xx`/`5xx`) are never charged" (docs/API_USAGE.md:188) | charges and logs before it validates the response; a malformed upstream block is a charged 500, and is cached |
| `best_effort` | "Any failure keeps the original degraded result", "fall-through must never make a response worse" (app/api/verticals.py:92-93); "any failure is logged and the primary provider's response is returned untouched" of enrichment (app/api/verticals.py:137) | both catch ProviderError only, so another exception is a 500 although an answer was at hand, and both take over blocks nobody validated: a malformed alternative replaces a well-formed answer |
| `one_trial` | "one trial call decides whether it closes or reopens" (app/providers/resilience.py:31) | half-open admits everybody who asks until a result arrives |
| `collapse` | "ten results from a single surviving engine is still a degraded search" (docs/MANUAL.md:351), "the coverage floor catches it" (app/quality.py:76) | coverage is of the engines that answered or were reported unresponsive; quarantined ones are not asked (app/providers/searxng.py:247), so the last engine left has coverage 1 |

Observed, without a run of its own:

- A request whose deduction is refused is served unbilled (docs/API_USAGE.md:187 has each successful query
  deduct); `OnlyOvertakenGoUnbilled` says exactly when.
- `DEGRADED_RESPONSES` is incremented where the primary provider answered: also for answers that fall-through
  then replaces, and not for degraded answers served from the cache. It is no count of "Responses served with
  searchMeta.degraded=true" (app/metrics.py:49).
- A usage row that cannot be written is logged and the request is served, although "every served request is
  recorded in the `usage_log` table" (docs/API_USAGE.md:283).
- A search asleep when the circuit opens calls the provider when it wakes, where docs/MANUAL.md:325 has an open
  circuit fail in milliseconds; `LeakAtMostOncePerOpening` bounds it.
- "A queue deeper than `OUTBOUND_MAX_WAIT_SECONDS` fails fast (502)" (docs/MANUAL.md:332): the refusal is a
  ProviderError, so the search backs off and tries again before it fails, and each refusal counts toward the
  circuit of a healthy backend.
- With the default weights an images answer whose items were all skipped scores exactly the threshold and is
  empty but not degraded.
- A late success of a call that began before the opening closes the circuit early; the pacer's envelope
  starts anew with a process.
- `ceiling_probe.py` counts a step as safe if it met no block, also if it met nothing but errors or could not keep
  up its rate, since it sends one request after the other.

## 7. What is left out

- **Settings that switch a component off** (`qps <= 0` in pacer and limiter, no Redis TTL): it answers at once
  and has no state.
- **Lua's number formatting.** `HSET` stores the tokens as text with some 14 digits; the model's refill is
  exact.
- **Key creation** (`create_api_key`, `cli.py`): one INSERT; keys exist from the start.
- **Health endpoints, logging, metrics**: they observe, and no component reads them back.
- **A Redis or Postgres that never answers.** Such an await has no timeout, so nothing is proved of when, or
  whether, a request ends (section 4); a connection that breaks is modelled.
- **Payload mapping** beyond the results of a genxng search: infoboxes, suggestions, dates and domains, the fields
  of the commercial adapters. The pipeline sees absent, well formed or malformed, from any
  adapter.
- **Words**: splitting, case and punctuation; a query is a sequence of words and a question mark.
- **Settings that turn rewriting, re-ranking or the coverage floor off**: the step they guard is the identity.
- **Settings parsing, Vault, provider caches**: set once per process and never changed, so constants. The vault's one
  failed read that stays (`secrets.py`) has no step after it a model could add anything to.
- **Operator scripts, the admin CLI, the example client, SearXNG's configuration, deployment files**: not part of
  the running service. The probes are single loops with no other actor; what they write (a rate, a list of
  engines) is a constant of Pacer and a choice of EngineHealth, whose properties hold for any.
- **Several replicas**: accounts, cache and limiter are shared through Postgres and Redis, so requests on
  two replicas interleave like requests on one; breaker, pacer and monitor are per process.

## 8. What could follow

Everything planned so far is modelled: the pipeline and its accounting, the breaker, the pacer, the limiter, the
health monitor, their composition in a genxng search, and the answer built from a payload. What could be added:

1. `Pipeline`'s `Call` resting on `Genxng`: a provider call as an abstract operation that both refine, so that the
   bound on the time a search is held back becomes one on a request.
2. `Genxng` over `EngineHealth` itself instead of its changing answer, and over `Pacer`'s history, so that the egress
   envelope is stated of requests that include retries.
3. The ceiling probe and the load test against `Pacer`'s envelope: what a measured rate says about the limit.

## 9. Running everything

    tlc -workers 2 -config MCPipeline.cfg MCPipeline      # likewise every cfg with its MC module
    tlapm PipelineProofs.tla                              # likewise Sums and every *Proofs module

`PROJECT.json` lists the runs, the theorems, the map from definitions to source lines and, for each
checked property, a mutation of the code that breaks it.
