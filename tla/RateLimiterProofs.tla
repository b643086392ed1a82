------------------------- MODULE RateLimiterProofs -------------------------
(* Theorems about the token bucket of one key, for every rate, burst, number of concurrent checks and
   delay of at most the margin of its time to live, and for behaviours of every length. *)
EXTENDS RateLimiter, TLAPS

-----------------------------------------------------------------------------
(* Arithmetic: the only products are Worth and Gain, and both are linear. *)

(* One more token is worth one cost more. *)
LEMMA WorthLinear ==
    ASSUME NEW k \in Int
    PROVE Worth(k) \in Int /\ Worth(k + 1) = Worth(k) + Cost
BY RateAssumption DEF Worth

(* A full bucket holds one token at least. *)
LEMMA WorthOne == Worth(1) = Cost /\ Full \in Nat /\ Full >= Cost /\ Cost \in Nat /\ Cost > 0
BY RateAssumption, BurstAssumption DEF Worth, Full

(* What time refills adds up, and grows with time. *)
LEMMA GainLinear ==
    ASSUME NEW a \in Int, NEW b \in Int
    PROVE /\ Gain(a) \in Int /\ Gain(b) \in Int
          /\ Gain(a - b) = Gain(a) - Gain(b) /\ Gain(a + b) = Gain(a) + Gain(b)
          /\ a <= b => Gain(a) <= Gain(b)
BY RateAssumption DEF Gain

(* A refill is an integer, for elapsed times of either sign. *)
LEMMA GainType == \A t \in Int : Gain(t) \in Int
BY RateAssumption DEF Gain

(* More time refills no less. *)
LEMMA GainMonotone == \A a, b \in Int : a <= b => Gain(a) <= Gain(b)
BY RateAssumption DEF Gain

(* Rounding a quotient up covers the dividend. *)
LEMMA CeilCovers ==
    ASSUME NEW a \in Nat, NEW b \in Nat \ {0}
    PROVE CeilDiv(a, b) \in Nat /\ CeilDiv(a, b) * b >= a
<1> DEFINE q == (a + b - 1) \div b
<1>1. a + b - 1 \in Nat OBVIOUS
<1>2. q \in Nat /\ a + b - 1 = b * q + ((a + b - 1) % b) /\ (a + b - 1) % b \in 0..(b - 1)
  BY <1>1
<1>3. b * q = q * b /\ b * q \in Nat BY <1>2
<1> QED BY <1>2, <1>3 DEF CeilDiv

(* Whole seconds cover what is asked of them. *)
LEMMA SecondsCover ==
    ASSUME NEW a \in Nat
    PROVE /\ CeilDiv(a, Rate * Second) * Second \in Nat
          /\ Gain(CeilDiv(a, Rate * Second) * Second) >= a
<1> DEFINE q == CeilDiv(a, Rate * Second)
<1>1. Rate * Second \in Nat \ {0} BY RateAssumption
<1>2. q \in Nat /\ q * (Rate * Second) >= a BY <1>1, CeilCovers
<1>3. (q * Second) * Rate = q * (Rate * Second) BY <1>2, RateAssumption
<1>4. q * Second \in Nat BY <1>2, RateAssumption
<1> QED BY <1>2, <1>3, <1>4 DEF Gain

(* A bucket is kept for long enough to be full again, even for a check that was late by the maximum. *)
LEMMA TimeToLiveCovers ==
    /\ TimeToLive \in Nat
    /\ \A t \in Int : Gain(t + (TimeToLive - MaxLag)) >= Gain(t) + Full
<1> DEFINE q == CeilDiv(Full, Rate * Second) * Second
<1>1. q \in Nat /\ Gain(q) >= Full BY WorthOne, SecondsCover
<1> HIDE DEF q
<1>2. TimeToLive = q + Margin BY DEF TimeToLive, q
<1>3. TimeToLive - MaxLag \in Int /\ TimeToLive - MaxLag >= q BY <1>1, <1>2, LagAssumption
<1>4. Gain(TimeToLive - MaxLag) >= Full
  <2>1. Gain(q) <= Gain(TimeToLive - MaxLag) /\ Gain(q) \in Int
        /\ Gain(TimeToLive - MaxLag) \in Int
    BY <1>1, <1>3, GainLinear
  <2> QED BY <1>1, <2>1, WorthOne
<1>5. \A t \in Int : Gain(t + (TimeToLive - MaxLag)) = Gain(t) + Gain(TimeToLive - MaxLag)
  BY <1>3, GainLinear
<1>6. \A t \in Int : Gain(t) \in Int BY GainLinear
<1>7. Gain(TimeToLive - MaxLag) \in Int BY <1>3, GainLinear
<1>8. ASSUME NEW t \in Int PROVE Gain(t + (TimeToLive - MaxLag)) >= Gain(t) + Full
  <2>1. PICK g \in Int : g = Gain(TimeToLive - MaxLag) BY <1>7
  <2>2. PICK h \in Int : h = Gain(t) BY <1>6
  <2>3. h + g >= h + Full BY <1>4, <2>1, <2>2, WorthOne
  <2> QED BY <1>5, <2>1, <2>2, <2>3
<1>9. TimeToLive \in Nat BY <1>1, <1>2, LagAssumption
<1> QED BY <1>8, <1>9

-----------------------------------------------------------------------------
(* The script. *)

(* What the script finds is at most a full bucket, and at most what its level says. *)
LEMMA RefilledType ==
    ASSUME TypeOK, NEW s \in Nat
    PROVE /\ Refilled(s) \in Int /\ Refilled(s) <= Full
          /\ Missing => Refilled(s) = Full
          /\ ~Missing => Refilled(s) <= Level + Gain(s)
          /\ ~Missing /\ Refilled(s) < Full => Refilled(s) = Level + Gain(s)
          /\ Level \in Int /\ Gain(s) \in Int
<1>1. s \in Int /\ ts \in Int /\ tokens \in Int BY DEF TypeOK
<1>2. Gain(s) \in Int /\ Gain(ts) \in Int /\ Gain(s - ts) = Gain(s) - Gain(ts) BY <1>1, GainLinear
<1> QED BY <1>1, <1>2, WorthOne DEF Refilled, Lesser, Level

(* The effect of a check that is allowed. *)
LEMMA AllowStep ==
    ASSUME TypeOK, NEW c \in Callers, Allow(c)
    PROVE /\ stamp[c] \in Nat /\ pc[c] = "waiting" /\ now' = now
          /\ pc' = [pc EXCEPT ![c] = "idle"] /\ stamp' = [stamp EXCEPT ![c] = 0]
          /\ Refilled(stamp[c]) \in Int /\ Refilled(stamp[c]) >= Cost /\ Refilled(stamp[c]) <= Full
          /\ tokens' = Refilled(stamp[c]) - Cost /\ ts' = stamp[c] /\ expireAt' = now + TimeToLive
          /\ granted' = Append(granted, stamp[c]) /\ promised' = NoPromise
<1>1. stamp[c] \in Nat BY DEF TypeOK
<1> QED BY <1>1, RefilledType DEF Allow, Answer, Store

(* The effect of a check that is refused, which happens only to a bucket that is there. *)
LEMMA DenyStep ==
    ASSUME TypeOK, NEW c \in Callers, Deny(c)
    PROVE /\ stamp[c] \in Nat /\ pc[c] = "waiting" /\ now' = now
          /\ pc' = [pc EXCEPT ![c] = "idle"] /\ stamp' = [stamp EXCEPT ![c] = 0]
          /\ ~Missing
          /\ Refilled(stamp[c]) \in Int /\ Refilled(stamp[c]) < Cost /\ Refilled(stamp[c]) < Full
          /\ tokens' = Refilled(stamp[c]) /\ ts' = stamp[c] /\ expireAt' = now + TimeToLive
          /\ granted' = granted
          /\ RetryAfter(c) * Second \in Nat
          /\ Gain(RetryAfter(c) * Second) >= Cost - Refilled(stamp[c])
          /\ promised' \in {promised, stamp[c] + RetryAfter(c) * Second}
<1>1. stamp[c] \in Nat BY DEF TypeOK
<1>2. Refilled(stamp[c]) \in Int /\ Refilled(stamp[c]) < Cost /\ Refilled(stamp[c]) < Full
  BY <1>1, RefilledType, WorthOne DEF Deny
<1>3. ~Missing BY <1>1, <1>2, RefilledType, WorthOne
<1>4. Cost - Refilled(stamp[c]) \in Nat BY <1>2, WorthOne
<1>5. /\ RetryAfter(c) * Second \in Nat
      /\ Gain(RetryAfter(c) * Second) >= Cost - Refilled(stamp[c])
  BY <1>4, SecondsCover DEF RetryAfter
<1>6. promised' \in {promised, stamp[c] + RetryAfter(c) * Second} BY DEF Deny, Sooner
<1>7. /\ pc[c] = "waiting" /\ now' = now
      /\ pc' = [pc EXCEPT ![c] = "idle"] /\ stamp' = [stamp EXCEPT ![c] = 0]
      /\ tokens' = Refilled(stamp[c]) /\ ts' = stamp[c] /\ expireAt' = now + TimeToLive
      /\ granted' = granted
  BY DEF Deny, Answer, Store
<1> QED BY <1>1, <1>2, <1>3, <1>5, <1>6, <1>7

(* Every state is well typed. *)
THEOREM TypeCorrect == Spec => []TypeOK
<1>1. Init => TypeOK
  <2> SUFFICES ASSUME Init PROVE TypeOK OBVIOUS
  <2>1. pc \in [Callers -> {"idle", "waiting"}] /\ stamp \in [Callers -> Nat] BY DEF Init
  <2>2. granted \in Seq(Nat) BY DEF Init
  <2>3. now \in Nat /\ expireAt \in Nat /\ ts \in Nat /\ tokens \in Int /\ tokens <= Full
    BY WorthOne DEF Init
  <2>4. promised \in Nat \cup {NoPromise} BY DEF Init
  <2> QED BY <2>1, <2>2, <2>3, <2>4 DEF TypeOK
<1>2. TypeOK /\ [Next]_vars => TypeOK'
  <2> SUFFICES ASSUME TypeOK, [Next]_vars PROVE TypeOK' OBVIOUS
  <2>1. ASSUME NEW c \in Callers, Sample(c) PROVE TypeOK'
    BY <2>1 DEF Sample, TypeOK, bucket
  <2>2. ASSUME NEW c \in Callers, Allow(c) PROVE TypeOK'
    <3>1. tokens' \in Int /\ tokens' <= Full BY <2>2, AllowStep, WorthOne
    <3>2. ts' \in Nat /\ expireAt' \in Nat /\ now' \in Nat
      BY <2>2, AllowStep, TimeToLiveCovers DEF TypeOK
    <3>3. granted' \in Seq(Nat)
      <4>1. granted' = Append(granted, stamp[c]) /\ stamp[c] \in Nat BY <2>2, AllowStep
      <4>2. granted \in Seq(Nat) BY DEF TypeOK
      <4> QED BY <4>1, <4>2
    <3>4. pc' \in [Callers -> {"idle", "waiting"}] /\ stamp' \in [Callers -> Nat]
      BY <2>2, AllowStep DEF TypeOK
    <3> QED BY <2>2, <3>1, <3>2, <3>3, <3>4, AllowStep DEF TypeOK
  <2>5. ASSUME NEW c \in Callers, Deny(c) PROVE TypeOK'
    <3>1. tokens' \in Int /\ tokens' <= Full BY <2>5, DenyStep, WorthOne
    <3>2. ts' \in Nat /\ expireAt' \in Nat /\ now' \in Nat
      BY <2>5, DenyStep, TimeToLiveCovers DEF TypeOK
    <3>3. granted' \in Seq(Nat) /\ promised' \in Nat \cup {NoPromise}
      BY <2>5, DenyStep DEF TypeOK
    <3>4. pc' \in [Callers -> {"idle", "waiting"}] /\ stamp' \in [Callers -> Nat]
      <4>1. pc' = [pc EXCEPT ![c] = "idle"] /\ stamp' = [stamp EXCEPT ![c] = 0]
        BY <2>5, DenyStep
      <4> QED BY <4>1 DEF TypeOK
    <3> QED BY <3>1, <3>2, <3>3, <3>4 DEF TypeOK
  <2>3. CASE Tick BY <2>3 DEF Tick, TypeOK, bucket
  <2>4. CASE UNCHANGED vars BY <2>4 DEF vars, bucket, TypeOK
  <2> QED BY <2>1, <2>2, <2>3, <2>4, <2>5 DEF Next
<1> QED BY <1>1, <1>2, PTL DEF Spec

-----------------------------------------------------------------------------
(* The invariant. *)

(* The history of stamps as a function on its indices. *)
LEMMA HistoryType ==
    ASSUME TypeOK
    PROVE /\ Len(granted) \in Nat /\ DOMAIN granted = 1..Len(granted)
          /\ \A i \in 1..Len(granted) : granted[i] \in Nat
BY DEF TypeOK

(* The history with one more check allowed. *)
LEMMA OneMoreGrant ==
    ASSUME TypeOK, NEW s \in Nat
    PROVE /\ Len(Append(granted, s)) = Len(granted) + 1
          /\ DOMAIN Append(granted, s) = 1..(Len(granted) + 1)
          /\ \A i \in 1..Len(granted) : Append(granted, s)[i] = granted[i]
          /\ Append(granted, s)[Len(granted) + 1] = s
<1>1. granted \in Seq(Nat) BY DEF TypeOK
<1>2. Len(Append(granted, s)) = Len(granted) + 1 /\ Append(granted, s)[Len(granted) + 1] = s BY <1>1
<1>3. DOMAIN Append(granted, s) = 1..(Len(granted) + 1)
  <2>1. Append(granted, s) \in Seq(Nat) BY <1>1
  <2> QED BY <2>1, <1>2
<1>4. \A i \in 1..Len(granted) : Append(granted, s)[i] = granted[i] BY <1>1
<1> QED BY <1>2, <1>3, <1>4

(* The bucket's level falls by a token with every check allowed: refilled from what was there, or,
   when Redis had dropped it, from a full bucket, at a stamp too late for that to be more. *)
LEMMA LevelFalls ==
    ASSUME TypeOK, LevelAccounts, LevelBounded, StampRecent, NEW c \in Callers, Allow(c)
    PROVE /\ Level' \in Int
          /\ Level' <= Full - Gain(stamp[c]) - Cost
          /\ Level' >= -Gain(stamp[c])
          /\ granted # <<>> => Level' <= Level - Cost
<1> DEFINE s == stamp[c]
<1>1. /\ s \in Nat /\ tokens' = Refilled(s) - Cost /\ ts' = s
      /\ Refilled(s) \in Int /\ Refilled(s) >= Cost /\ Refilled(s) <= Full
  BY AllowStep
<1>2. s \in Int /\ Gain(s) \in Int BY <1>1, GainType
<1>3. Level' = Refilled(s) - Cost - Gain(s)
  <2>1. Level' = tokens' - Gain(ts') BY DEF Level, Gain
  <2> QED BY <1>1, <2>1
<1>4. Level' \in Int /\ Level' <= Full - Gain(s) - Cost /\ Level' >= -Gain(s)
  BY <1>1, <1>2, <1>3, WorthOne
<1>5. ASSUME granted # <<>> PROVE Level' <= Level - Cost
  <2>1. CASE ~Missing
    <3>1. Refilled(s) <= Level + Gain(s) /\ Level \in Int BY <1>1, <2>1, RefilledType
    <3> QED BY <1>1, <1>2, <1>3, <3>1, WorthOne
  <2>2. CASE Missing
    <3>1. Refilled(s) = Full /\ Level \in Int BY <1>1, <2>2, RefilledType
    <3>2. Evaluated \in Int /\ Level >= -Gain(Evaluated) BY <1>5 DEF LevelBounded
    <3>3. s >= Evaluated + (TimeToLive - MaxLag)
      <4>1. pc[c] = "waiting" BY AllowStep
      <4>2. now <= s + MaxLag /\ now >= expireAt BY <2>2, <4>1 DEF StampRecent, Missing
      <4>3. now \in Nat /\ expireAt \in Nat BY DEF TypeOK
      <4> QED BY <1>1, <4>2, <4>3, TimeToLiveCovers, LagAssumption DEF Evaluated
    <3>4. Gain(s) >= Gain(Evaluated) + Full
      <4> DEFINE e == Evaluated + (TimeToLive - MaxLag)
      <4>1. e \in Int BY <3>2, TimeToLiveCovers, LagAssumption
      <4>2. Gain(e) <= Gain(s) /\ Gain(e) \in Int BY <1>2, <3>3, <4>1, GainMonotone, GainType
      <4>3. Gain(e) >= Gain(Evaluated) + Full BY <3>2, TimeToLiveCovers
      <4>4. Gain(Evaluated) \in Int BY <3>2, GainLinear
      <4> QED BY <1>2, <4>2, <4>3, <4>4, WorthOne
    <3>5. Gain(Evaluated) \in Int BY <3>2, GainLinear
    <3> QED BY <1>2, <1>3, <3>1, <3>2, <3>4, <3>5, WorthOne
  <2> QED BY <2>1, <2>2
<1> QED BY <1>4, <1>5

(* A refused check leaves the level where it was. *)
LEMMA LevelStays ==
    ASSUME TypeOK, NEW c \in Callers, Deny(c)
    PROVE Level' = Level /\ Level \in Int
<1> DEFINE s == stamp[c]
<1>1. s \in Nat /\ tokens' = Refilled(s) /\ ts' = s /\ ~Missing /\ Refilled(s) < Full BY DenyStep
<1>2. Refilled(s) = Level + Gain(s) /\ Level \in Int /\ Gain(s) \in Int
  BY <1>1, RefilledType
<1>3. Level' = tokens' - Gain(ts') BY DEF Level, Gain
<1> QED BY <1>1, <1>2, <1>3

(* A script runs now, so that is when it last ran. *)
LEMMA EvaluatedNow ==
    ASSUME TypeOK, expireAt' = now + TimeToLive, now' = now
    PROVE Evaluated' = now
<1>1. Evaluated' = expireAt' - TimeToLive BY DEF Evaluated, TimeToLive, CeilDiv
<1> QED BY <1>1, TimeToLiveCovers DEF TypeOK

(* A check that is allowed keeps the invariant: the level falls by the token it takes. *)
LEMMA AllowPreserves ==
    ASSUME TypeOK, LimiterInv, NEW c \in Callers, Allow(c)
    PROVE LimiterInv'
<1> DEFINE s == stamp[c]
           n == Len(granted)
<1>1. /\ s \in Nat /\ pc[c] = "waiting" /\ now' = now /\ expireAt' = now + TimeToLive
      /\ granted' = Append(granted, s) /\ promised' = NoPromise
  BY AllowStep
<1>2. /\ n \in Nat /\ DOMAIN granted = 1..n /\ \A i \in 1..n : granted[i] \in Nat
      /\ Len(granted') = n + 1 /\ DOMAIN granted' = 1..(n + 1)
      /\ \A i \in 1..n : granted'[i] = granted[i]
      /\ granted'[n + 1] = s
  BY <1>1, HistoryType, OneMoreGrant
<1>3. /\ Level' \in Int /\ Level' <= Full - Gain(s) - Cost /\ Level' >= -Gain(s)
      /\ n > 0 => Level' <= Level - Cost /\ Level \in Int
  <2>1. n > 0 => granted # <<>> BY <1>2
  <2>2. Level \in Int BY <1>1, RefilledType
  <2> QED BY <2>1, <2>2, LevelFalls DEF LimiterInv
<1>4. s \in Int /\ Gain(s) \in Int BY <1>1, GainType
<1> HIDE DEF s, n
<1>5. ASSUME NEW i \in 1..(n + 1)
      PROVE /\ Level' <= Full - Gain(granted'[i]) - Worth((n + 1) + 1 - i)
            /\ granted'[i] \in Int /\ Gain(granted'[i]) \in Int
            /\ Worth((n + 1) + 1 - i) \in Int
  <2>1. (n + 1) + 1 - i \in Int BY <1>2
  <2>2. Worth((n + 1) + 1 - i) \in Int BY <2>1, WorthLinear
  <2>3. CASE i \in 1..n
    <3>1. Level <= Full - Gain(granted[i]) - Worth(n + 1 - i)
      BY <1>2, <2>3 DEF LimiterInv, LevelAccounts, n
    <3>2. n + 1 - i \in Int /\ (n + 1) + 1 - i = (n + 1 - i) + 1 /\ n > 0 BY <1>2, <2>3
    <3>3. /\ Worth((n + 1) + 1 - i) = Worth(n + 1 - i) + Cost
          /\ Worth(n + 1 - i) \in Int
      BY <3>2, WorthLinear
    <3>4. granted'[i] = granted[i] /\ granted[i] \in Int BY <1>2, <2>3
    <3>5. Gain(granted[i]) \in Int BY <3>4, GainType
    <3> QED BY <1>3, <2>2, <3>1, <3>2, <3>3, <3>4, <3>5, WorthOne
  <2>4. CASE i = n + 1
    <3>1. (n + 1) + 1 - i = 1 /\ granted'[i] = s BY <1>2, <2>4
    <3> QED BY <1>3, <1>4, <2>2, <3>1, WorthOne
  <2> QED BY <1>2, <2>3, <2>4
<1>6. LevelAccounts'
  <2>1. \A i \in 1..(n + 1) : Level' <= Full - Gain(granted'[i]) - Worth((n + 1) + 1 - i)
    BY <1>5
  <2> QED BY <1>2, <2>1 DEF LevelAccounts, Full, Gain, Worth
<1>7. BucketEnvelope'
  <2> SUFFICES ASSUME NEW i \in 1..(n + 1), NEW j \in 1..(n + 1), i < j
               PROVE Gain(granted'[j] - granted'[i]) >= Worth(j - i + 1) - Full
    BY <1>2 DEF BucketEnvelope, Full, Gain, Worth
  <2>1. i \in 1..n BY <1>2
  <2>2. CASE j \in 1..n
    <3>1. Gain(granted[j] - granted[i]) >= Worth(j - i + 1) - Full
      BY <1>2, <2>1, <2>2 DEF LimiterInv, BucketEnvelope
    <3> QED BY <1>2, <2>1, <2>2, <3>1
  <2>3. CASE j = n + 1
    <3>1. granted'[j] = s /\ (n + 1) + 1 - i = j - i + 1 BY <1>2, <2>3
    <3>2. /\ Level' <= Full - Gain(granted'[i]) - Worth(j - i + 1)
          /\ granted'[i] \in Int /\ Gain(granted'[i]) \in Int /\ Worth(j - i + 1) \in Int
      BY <1>5, <3>1
    <3>3. Gain(s - granted'[i]) = Gain(s) - Gain(granted'[i]) BY <1>4, <3>2, GainLinear
    <3>4. Gain(s) - Gain(granted'[i]) >= Worth(j - i + 1) - Full BY <1>3, <1>4, <3>2, WorthOne
    <3> QED BY <3>1, <3>3, <3>4
  <2> QED BY <1>2, <2>2, <2>3
<1>8. LevelBounded'
  <2>1. Evaluated' = now /\ now \in Nat BY <1>1, EvaluatedNow DEF TypeOK
  <2>2. s <= now BY <1>1 DEF LimiterInv, StampRecent, s
  <2>3. Gain(s) <= Gain(now) /\ Gain(now) \in Int
    <3>1. now \in Int BY <2>1
    <3> QED BY <1>4, <2>2, <3>1, GainMonotone, GainType
  <2>4. Level' >= -Gain(now) BY <1>3, <1>4, <2>3
  <2> QED BY <1>1, <2>1, <2>4 DEF LevelBounded, Gain
<1>9. PromiseCovered' BY <1>1 DEF PromiseCovered
<1>10. StampRecent'
  BY AllowStep DEF LimiterInv, StampRecent, TypeOK
<1> QED BY <1>6, <1>7, <1>8, <1>9, <1>10 DEF LimiterInv

(* A check that is refused keeps the invariant: the level stays, and the promise is what it needs. *)
LEMMA DenyPreserves ==
    ASSUME TypeOK, LimiterInv, NEW c \in Callers, Deny(c)
    PROVE LimiterInv'
<1> DEFINE s == stamp[c]
           w == RetryAfter(c) * Second
<1>1. /\ s \in Nat /\ pc[c] = "waiting" /\ now' = now /\ expireAt' = now + TimeToLive
      /\ granted' = granted /\ promised' \in {promised, s + w}
      /\ w \in Nat /\ Gain(w) >= Cost - Refilled(s) /\ Refilled(s) \in Int
  BY DenyStep
<1>2. Level' = Level /\ Level \in Int BY LevelStays
<1>3. Refilled(s) = Level + Gain(s)
  <2>1. ~Missing /\ Refilled(s) < Full BY DenyStep
  <2> QED BY <1>1, <2>1, RefilledType
<1> HIDE DEF s, w
<1>4. BucketEnvelope' /\ LevelAccounts'
  BY <1>1, <1>2 DEF LimiterInv, BucketEnvelope, LevelAccounts
<1>5. LevelBounded'
  <2> SUFFICES ASSUME granted # <<>>
               PROVE Level >= -Gain(now) /\ Evaluated' \in 0..now
    <3>1. Evaluated' = now /\ now' = now BY <1>1, EvaluatedNow
    <3> QED BY <1>1, <1>2, <3>1 DEF LevelBounded, Gain
  <2>1. Evaluated' = now /\ now \in Nat BY <1>1, EvaluatedNow DEF TypeOK
  <2>2. Level >= -Gain(Evaluated) /\ Evaluated \in 0..now BY DEF LimiterInv, LevelBounded
  <2>3. now \in Int /\ Evaluated \in Int /\ Evaluated <= now BY <2>1, <2>2
  <2>4. Gain(Evaluated) <= Gain(now) /\ Gain(Evaluated) \in Int /\ Gain(now) \in Int
    BY <2>3, GainMonotone, GainType
  <2> QED BY <1>2, <2>1, <2>2, <2>4
<1>6. PromiseCovered'
  <2>1. CASE promised' = promised
    BY <1>2, <2>1 DEF LimiterInv, PromiseCovered
  <2>2. CASE promised' = s + w
    <3>1. Gain(s + w) = Gain(s) + Gain(w) /\ Gain(s) \in Int /\ Gain(w) \in Int
      <4>1. s \in Int /\ w \in Int BY <1>1
      <4> QED BY <4>1, GainLinear
    <3>2. Level + Gain(s + w) >= Cost BY <1>1, <1>2, <1>3, <3>1, WorthOne
    <3> QED BY <1>2, <2>2, <3>2 DEF PromiseCovered
  <2> QED BY <1>1, <2>1, <2>2
<1>7. StampRecent'
  BY DenyStep DEF LimiterInv, StampRecent, TypeOK
<1> QED BY <1>4, <1>5, <1>6, <1>7 DEF LimiterInv

(* The limiter's invariant is inductive. *)
LEMMA LimiterInductive ==
    /\ Init => LimiterInv
    /\ TypeOK /\ LimiterInv /\ [Next]_vars => LimiterInv'
<1>1. Init => LimiterInv
  BY DEF Init, LimiterInv, BucketEnvelope, LevelAccounts, LevelBounded, PromiseCovered, StampRecent
<1>2. ASSUME TypeOK, LimiterInv, [Next]_vars PROVE LimiterInv'
  <2>1. ASSUME UNCHANGED <<bucket, granted, promised>>, StampRecent', now' \in Nat, now' >= now
        PROVE LimiterInv'
    <3>1. Level' = Level /\ Evaluated' = Evaluated BY <2>1 DEF Level, Evaluated, bucket
    <3>2. now \in Nat BY <1>2 DEF TypeOK
    <3>3. BucketEnvelope' /\ LevelAccounts' /\ PromiseCovered'
      BY <1>2, <2>1, <3>1 DEF LimiterInv, BucketEnvelope, LevelAccounts, PromiseCovered
    <3>4. LevelBounded'
      BY <1>2, <2>1, <3>1, <3>2 DEF LimiterInv, LevelBounded
    <3> QED BY <2>1, <3>3, <3>4 DEF LimiterInv
  <2>2. ASSUME NEW c \in Callers, Sample(c) PROVE LimiterInv'
    <3>1. StampRecent'
      BY <1>2, <2>2, LagAssumption DEF Sample, LimiterInv, StampRecent, TypeOK
    <3>2. UNCHANGED <<bucket, granted, promised>> /\ now' = now BY <2>2 DEF Sample
    <3> QED BY <1>2, <2>1, <3>1, <3>2 DEF TypeOK
  <2>3. CASE Tick
    <3>1. StampRecent' BY <1>2, <2>3, LagAssumption DEF Tick, LimiterInv, StampRecent, TypeOK
    <3>2. UNCHANGED <<bucket, granted, promised>> /\ now' = now + 1 BY <2>3 DEF Tick
    <3> QED BY <1>2, <2>1, <3>1, <3>2 DEF TypeOK
  <2>4. CASE UNCHANGED vars
    <3>1. StampRecent' BY <1>2, <2>4 DEF vars, LimiterInv, StampRecent
    <3> QED BY <1>2, <2>1, <2>4, <3>1 DEF vars, TypeOK
  <2> QED BY <1>2, <2>2, <2>3, <2>4, AllowPreserves, DenyPreserves DEF Next
<1> QED BY <1>1, <1>2

(* In every reachable state the bucket's level accounts for every check allowed so far, and covers the
   promise last made (ratelimit.py, the Lua script). *)
THEOREM LimiterInvariant == Spec => []LimiterInv
BY TypeCorrect, LimiterInductive, PTL DEF Spec

(* Whatever the order in which Redis evaluates checks, k of them in a row are allowed only over the
   time that refills k tokens less the burst. *)
THEOREM Envelope == Spec => []BucketEnvelope
<1>1. LimiterInv => BucketEnvelope BY DEF LimiterInv
<1> QED BY <1>1, LimiterInvariant, PTL

(* A check stamped no earlier than a refusal's Retry-After is not refused, unless another check was
   allowed in between. *)
THEOREM RetryHonoured == Spec => RetryAfterHonoured
<1>1. TypeOK /\ LimiterInv =>
        [\A c \in Callers : Deny(c) => promised = NoPromise \/ stamp[c] < promised]_vars
  <2> SUFFICES ASSUME TypeOK, LimiterInv, NEW c \in Callers, Deny(c), promised # NoPromise,
                      ~(stamp[c] < promised)
               PROVE FALSE
    OBVIOUS
  <2>1. /\ stamp[c] \in Nat /\ promised \in Int /\ promised <= stamp[c]
        /\ ~Missing /\ Refilled(stamp[c]) < Cost /\ Refilled(stamp[c]) < Full
    BY DenyStep DEF TypeOK
  <2>2. Refilled(stamp[c]) = Level + Gain(stamp[c]) /\ Level \in Int
    BY <2>1, RefilledType
  <2>3. stamp[c] \in Int BY <2>1
  <2>4. Gain(promised) <= Gain(stamp[c]) /\ Gain(promised) \in Int /\ Gain(stamp[c]) \in Int
    BY <2>1, <2>3, GainMonotone, GainType
  <2>5. Level + Gain(promised) >= Cost BY DEF LimiterInv, PromiseCovered
  <2> QED BY <2>1, <2>2, <2>4, <2>5, WorthOne
<1> QED BY <1>1, TypeCorrect, LimiterInvariant, PTL DEF RetryAfterHonoured
=============================================================================
