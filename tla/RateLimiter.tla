----------------------------- MODULE RateLimiter -----------------------------
(* RateLimiter (src/app/ratelimit.py): the token bucket of one key. A check reads the clock, then
   awaits a script that Redis runs atomically, so checks are evaluated in any order and with old
   stamps. Redis drops the bucket when its time to live has passed, and a dropped bucket is full.

   One token is Cost units and the bucket gains Rate units a tick, so that the source's floating
   point refill is exact here. qps <= 0, which answers without asking Redis, is left out. *)
EXTENDS Integers, Sequences

CONSTANTS
    Callers,             \* checks of this key that can be in progress at the same time
    Rate, Cost,          \* qps = Rate / Cost tokens a tick
    Second,              \* ticks in a second, the unit of retry_after and of EXPIRE
    Burst,               \* max(burst, 1)
    Margin,              \* the 60 s that EXPIRE adds
    MaxLag,              \* bound: a check reaches Redis at most this long after its stamp
    Horizon              \* bound: no check begins later than this

ASSUME RateAssumption == Rate \in Nat \ {0} /\ Cost \in Nat \ {0} /\ Second \in Nat \ {0}
ASSUME BurstAssumption == Burst \in Nat \ {0}
ASSUME LagAssumption == Margin \in Nat /\ MaxLag \in Nat /\ MaxLag <= Margin
ASSUME HorizonAssumption == Horizon \in Nat

VARIABLES
    now,
    pc, stamp,           \* per check: idle or awaiting the script, and its now_ms
    tokens, ts, expireAt, \* the bucket in Redis, and until when it is kept
    granted,             \* history: the stamps of the checks allowed, in the order of evaluation
    promised             \* history: after a refusal, the earliest stamp it said to come back at

bucket == <<tokens, ts, expireAt>>
vars == <<now, pc, stamp, bucket, granted, promised>>

NoPromise == -1
Worth(k) == k * Cost             \* k tokens, in units
Gain(t) == t * Rate              \* what t ticks refill, in units
Full == Worth(Burst)
CeilDiv(a, b) == (a + b - 1) \div b
Lesser(a, b) == IF a < b THEN a ELSE b

Init ==
    /\ now = 0
    /\ pc = [c \in Callers |-> "idle"] /\ stamp = [c \in Callers |-> 0]
    /\ tokens = 0 /\ ts = 0 /\ expireAt = 0
    /\ granted = <<>> /\ promised = NoPromise

(* check() reads the clock and sends the script. *)
Sample(c) ==
    /\ pc[c] = "idle" /\ now < Horizon
    /\ pc' = [pc EXCEPT ![c] = "waiting"]
    /\ stamp' = [stamp EXCEPT ![c] = now]
    /\ UNCHANGED <<now, bucket, granted, promised>>

(* The bucket as the script finds it, refilled to a stamp that may be older than the bucket's. *)
Missing == now >= expireAt
RefilledForward(s) ==
    IF Missing THEN Full ELSE Lesser(Full, IF s < ts THEN tokens ELSE tokens + Gain(s - ts))
RefilledUncapped(s) == IF Missing THEN Full ELSE tokens + Gain(s - ts)
Refilled(s) == IF Missing THEN Full ELSE Lesser(Full, tokens + Gain(s - ts))

TimeToLive == CeilDiv(Full, Rate * Second) * Second + Margin

(* Written back whether the check was allowed or not. *)
Store(c, left) == tokens' = left /\ ts' = stamp[c] /\ expireAt' = now + TimeToLive

Answer(c) ==
    /\ pc' = [pc EXCEPT ![c] = "idle"]
    /\ stamp' = [stamp EXCEPT ![c] = 0]
    /\ UNCHANGED now

Allow(c) ==
    /\ pc[c] = "waiting" /\ Refilled(stamp[c]) >= Cost
    /\ Store(c, Refilled(stamp[c]) - Cost)
    /\ granted' = Append(granted, stamp[c])
    /\ promised' = NoPromise
    /\ Answer(c)

(* retry_after: whole seconds until the refill reaches one token. *)
RetryAfterRoundedDown(c) == (Cost - Refilled(stamp[c])) \div (Rate * Second)
RetryAfter(c) == CeilDiv(Cost - Refilled(stamp[c]), Rate * Second)

Sooner(p) == IF promised = NoPromise \/ p < promised THEN p ELSE promised

DenyDrains(c) ==
    /\ pc[c] = "waiting" /\ Refilled(stamp[c]) < Cost
    /\ Store(c, 0)
    /\ promised' = Sooner(stamp[c] + RetryAfter(c) * Second)
    /\ UNCHANGED granted
    /\ Answer(c)

Deny(c) ==
    /\ pc[c] = "waiting" /\ Refilled(stamp[c]) < Cost
    /\ Store(c, Refilled(stamp[c]))
    /\ promised' = Sooner(stamp[c] + RetryAfter(c) * Second)
    /\ UNCHANGED granted
    /\ Answer(c)

(* Time passes, though never beyond the bound on a check's way to Redis. *)
Tick ==
    /\ now < Horizon + MaxLag
    /\ \A c \in Callers : pc[c] = "waiting" => now < stamp[c] + MaxLag
    /\ now' = now + 1
    /\ UNCHANGED <<pc, stamp, bucket, granted, promised>>

Next == Tick \/ \E c \in Callers : Sample(c) \/ Allow(c) \/ Deny(c)

Spec == Init /\ [][Next]_vars

-----------------------------------------------------------------------------
(* Properties *)

TypeOK ==
    /\ now \in Nat /\ expireAt \in Nat /\ ts \in Nat
    /\ tokens \in Int /\ tokens <= Full
    /\ pc \in [Callers -> {"idle", "waiting"}]
    /\ stamp \in [Callers -> Nat]
    /\ granted \in Seq(Nat)
    /\ promised \in Nat \cup {NoPromise}

(* What the limiter is for (docs/MANUAL.md "Per-key token bucket"): k checks in a row are allowed
   only if their stamps are far enough apart to refill k tokens less the burst, whatever the
   order in which Redis sees them and however often it dropped the bucket meanwhile. *)
BucketEnvelope ==
    \A i, j \in DOMAIN granted :
        i < j => Gain(granted[j] - granted[i]) >= Worth(j - i + 1) - Full

(* A client that comes back when it was told to is allowed, if nobody else was allowed meanwhile:
   refused checks, their stamps old or new, take nothing from the bucket. *)
RetryAfterHonoured ==
    [][\A c \in Callers : Deny(c) => promised = NoPromise \/ stamp[c] < promised]_vars

(* The bucket's level does not depend on the stamp it is kept at. *)
Level == tokens - Gain(ts)

(* What keeps the envelope: for as long as the bucket is there its level accounts for every check
   allowed so far, and when it is dropped no less than a full bucket would have been refilled. *)
LevelAccounts ==
    \A i \in DOMAIN granted : Level <= Full - Gain(granted[i]) - Worth(Len(granted) + 1 - i)

Evaluated == expireAt - TimeToLive    \* when the script last ran

LevelBounded == granted # <<>> => Level >= -Gain(Evaluated) /\ Evaluated \in 0..now

(* What keeps the promise. *)
PromiseCovered == promised # NoPromise => Level + Gain(promised) >= Cost

(* A check under way began at most MaxLag ago. *)
StampRecent ==
    \A c \in Callers : pc[c] = "waiting" => stamp[c] <= now /\ now <= stamp[c] + MaxLag

LimiterInv == BucketEnvelope /\ LevelAccounts /\ LevelBounded /\ PromiseCovered /\ StampRecent
=============================================================================
