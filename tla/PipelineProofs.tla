--------------------------- MODULE PipelineProofs ---------------------------
(* Theorems about Pipeline for every set of requests, keys, routes and every configuration. *)
EXTENDS Pipeline, Sums, TLAPS

-----------------------------------------------------------------------------
(* Type correctness *)

(* Whatever an adapter returns is a payload. *)
LEMMA PayloadType ==
    ASSUME NEW p \in Providers, NEW v \in Verticals
    PROVE Payloads(p, v) \subseteq Blocks
BY DEF Payloads, MetasOf, Blocks, Shapes, Metas

(* What a request keeps while it runs has its type through every step that builds it. *)
LEMMA WorkTypes ==
    /\ NoWork \in Work
    /\ \A b \in Blocks, p \in Providers : FromProvider(b, p) \in Work
    /\ \A e \in Entries : FromCache(e) \in Work
    /\ \A w \in Work, b \in Blocks : Enriched(w, b) \in Work
<1>1. NoWork \in Work
  BY DEF NoWork, NoBlocks, Work, Blocks, Shapes, Metas, Sources, Providers
<1>2. \A b \in Blocks, p \in Providers : FromProvider(b, p) \in Work
  BY DEF FromProvider, Work, Sources
<1>3. \A e \in Entries : FromCache(e) \in Work
  BY DEF FromCache, Work, Entries, Sources
<1>4. ASSUME NEW w \in Work, NEW b \in Blocks PROVE Enriched(w, b) \in Work
  <2>1. w.blocks \in Blocks BY DEF Work
  <2>2. [w.blocks EXCEPT !.kg = b.kg, !.kgFrom = "commercial"] \in Blocks
    BY <2>1 DEF Blocks, Providers
  <2> QED BY <2>1, <2>2 DEF Enriched, Work, Blocks, Sources, Providers
<1> QED BY <1>1, <1>2, <1>3, <1>4

(* An answer keeps the types of what it changes. *)
LEMMA AnswerType ==
    ASSUME TypeOK, NEW r \in Requests, NEW code \in Codes, Answer(r, code)
    PROVE /\ pc' \in [Requests -> Stages]
          /\ status' \in [Requests -> Codes \cup {Pending, Lost}]
          /\ work' \in [Requests -> Work]
BY WorkTypes DEF TypeOK, Answer, Stages

(* Every state has the types the code declares: TypeOK is an invariant. *)
THEOREM TypeCorrect == Spec => []TypeOK
<1>1. Init => TypeOK
  <2> SUFFICES ASSUME Init PROVE TypeOK OBVIOUS
  <2>1. NoJob \in Jobs BY SomeJobAssumption DEF NoJob
  <2> QED BY <2>1, WorkTypes, CreditAssumption
          DEF Init, TypeOK, Stages, Pending
<1>2. TypeOK /\ [Next]_vars => TypeOK'
  <2> SUFFICES ASSUME TypeOK, [Next]_vars PROVE TypeOK' OBVIOUS
  <2>1. ASSUME NEW r \in Requests, Arrive(r) PROVE TypeOK'
    BY <2>1 DEF TypeOK, Arrive, Goto, Stages, keyVars, historyVars
  <2>2. ASSUME NEW r \in Requests, Authenticate(r) PROVE TypeOK'
    <3>1. credits[job[r].key] \in Nat BY DEF TypeOK, Jobs
    <3>2. CASE Answer(r, 401)
      BY <2>2, <3>1, <3>2, AnswerType DEF TypeOK, Authenticate, Codes, keyVars, historyVars
    <3>3. CASE ~Answer(r, 401)
      BY <2>2, <3>1, <3>3 DEF TypeOK, Authenticate, Goto, Stages, keyVars, historyVars
    <3> QED BY <3>2, <3>3
  <2>3. ASSUME NEW r \in Requests, Gate(r) PROVE TypeOK'
    BY <2>3, AnswerType DEF TypeOK, Gate, Goto, Stages, Codes, keyVars, historyVars
  <2>4. ASSUME NEW r \in Requests, Limit(r) PROVE TypeOK'
    BY <2>4, AnswerType DEF TypeOK, Limit, Goto, Stages, Codes, keyVars, historyVars
  <2>5. ASSUME NEW r \in Requests, Lookup(r) PROVE TypeOK'
    <3>1. cache[Slot(r)] \in {Miss} \cup Entries BY DEF TypeOK, Slot, Jobs
    <3> QED BY <2>5, <3>1, AnswerType, WorkTypes
            DEF TypeOK, Lookup, Goto, Stages, Codes, keyVars, historyVars
  <2>6. ASSUME NEW r \in Requests, Call(r) PROVE TypeOK'
    <3> DEFINE v == job[r].vertical
    <3>1. v \in Verticals /\ ProviderFor[v] \in Providers
      BY RoutingAssumption DEF TypeOK, Jobs
    <3>2. Payloads(ProviderFor[v], v) \subseteq Blocks BY <3>1, PayloadType
    <3>3. CallFailures(ProviderFor[v], v) \subseteq Codes BY DEF CallFailures, Codes
    <3>4. \A s \in Providers : AfterPrimary(s, v) \in Stages BY DEF AfterPrimary, Stages
    <3>5. CASE \E code \in CallFailures(ProviderFor[v], v) : Answer(r, code)
      BY <2>6, <3>3, <3>5, AnswerType DEF TypeOK, Call, keyVars, historyVars
    <3>6. CASE ~\E code \in CallFailures(ProviderFor[v], v) : Answer(r, code)
      BY <2>6, <3>1, <3>2, <3>4, <3>6, WorkTypes
         DEF TypeOK, Call, Goto, Stages, keyVars, historyVars
    <3> QED BY <3>5, <3>6
  <2>7. ASSUME NEW r \in Requests, Fallthrough(r) PROVE TypeOK'
    <3> DEFINE v == job[r].vertical
    <3>1. Payloads("commercial", v) \subseteq Blocks
      BY PayloadType DEF TypeOK, Jobs, Providers
    <3>2. AfterPrimary(work[r].source, v) \in Stages BY DEF AfterPrimary, Stages
    <3> QED BY <2>7, <3>1, <3>2, AnswerType, WorkTypes
            DEF TypeOK, Fallthrough, Goto, Stages, Codes, Providers, keyVars, historyVars
  <2>8. ASSUME NEW r \in Requests, Enrich(r) PROVE TypeOK'
    <3>1. Payloads("commercial", job[r].vertical) \subseteq Blocks
      BY PayloadType DEF TypeOK, Jobs, Providers
    <3> QED BY <2>8, <3>1, AnswerType, WorkTypes
            DEF TypeOK, Enrich, Goto, Stages, Codes, keyVars, historyVars
  <2>9. ASSUME NEW r \in Requests, Store(r) PROVE TypeOK'
    <3>1. EntryOf(r) \in Entries BY DEF EntryOf, Entries, TypeOK, Work
    <3>2. cache' \in [Verticals \X Queries -> {Miss} \cup Entries]
      BY <2>9, <3>1 DEF TypeOK, Store
    <3>3. CASE Answer(r, 500)
      BY <2>9, <3>2, <3>3, AnswerType DEF TypeOK, Store, Codes, keyVars, historyVars
    <3>4. CASE ~Answer(r, 500)
      BY <2>9, <3>2, <3>4 DEF TypeOK, Store, Goto, Stages, keyVars, historyVars
    <3> QED BY <3>3, <3>4
  <2>10. ASSUME NEW r \in Requests, Charge(r) PROVE TypeOK'
    <3>1. Cost(r) \in Nat BY CostAssumption DEF Cost, TypeOK, Jobs
    <3>2. /\ credits' \in [Keys -> Nat]
          /\ paid' \in [Requests -> {"open", "charged", "waived"}]
          /\ overtaken' \subseteq Requests
      <4>1. Debit(r) \/ UNCHANGED <<credits, historyVars>> BY <2>10 DEF Charge
      <4>2. job[r].key \in Keys BY DEF TypeOK, Jobs
      <4>3. CASE UNCHANGED <<credits, historyVars>> BY <4>3 DEF TypeOK, historyVars
      <4>4. CASE Debit(r) /\ credits[job[r].key] >= Cost(r)
        <5>1. credits[job[r].key] - Cost(r) \in Nat BY <4>2, <4>4, <3>1 DEF TypeOK
        <5>2. /\ credits' = [credits EXCEPT ![job[r].key] = @ - Cost(r)]
              /\ paid' = [paid EXCEPT ![r] = "charged"]
              /\ overtaken' \in {overtaken, overtaken \cup Overtaken(r)}
          BY <4>4 DEF Debit, DeductAllows
        <5> QED BY <5>1, <5>2 DEF TypeOK, Overtaken
      <4>5. CASE Debit(r) /\ ~(credits[job[r].key] >= Cost(r))
        BY <4>5 DEF TypeOK, Debit, DeductAllows
      <4> QED BY <4>1, <4>3, <4>4, <4>5
    <3>3. CASE Answer(r, 500)
      BY <2>10, <3>2, <3>3, AnswerType DEF TypeOK, Charge, Codes
    <3>4. CASE ~Answer(r, 500)
      BY <2>10, <3>2, <3>4 DEF TypeOK, Charge, Goto, Stages
    <3> QED BY <3>3, <3>4
  <2>11. ASSUME NEW r \in Requests, Log(r) \/ Finish(r) PROVE TypeOK'
    <3>1. RowOf(r) \in Rows
      BY CostAssumption DEF RowOf, Rows, Cost, TypeOK, Jobs, Work
    <3>2. Validation(work[r].blocks) \in Codes BY DEF Validation, Codes
    <3>3. CASE Log(r) BY <3>1, <3>3 DEF TypeOK, Log, Goto, Stages, keyVars, historyVars
    <3>4. CASE Finish(r) BY <3>2, <3>4, AnswerType DEF TypeOK, Finish, keyVars, historyVars
    <3> QED BY <2>11, <3>3, <3>4
  <2>12. ASSUME NEW r \in Requests, StoreUnavailable(r) PROVE TypeOK'
    BY <2>12, AnswerType DEF TypeOK, StoreUnavailable, Codes, keyVars, historyVars
  <2>13. ASSUME NEW k \in Keys, OperatorTopUp(k) PROVE TypeOK'
    BY <2>13, CreditAssumption DEF TypeOK, OperatorTopUp, requestVars, historyVars
  <2>14. ASSUME NEW k \in Keys, Deactivate(k) PROVE TypeOK'
    BY <2>14 DEF TypeOK, Deactivate, requestVars, historyVars
  <2>15. ASSUME NEW s \in Verticals \X Queries, Expire(s) PROVE TypeOK'
    BY <2>15 DEF TypeOK, Expire, keyVars, requestVars, historyVars
  <2>16. CASE Restart
    BY <2>16, WorkTypes DEF TypeOK, Restart, keyVars, historyVars, Stages
  <2>17. CASE UNCHANGED vars
    BY <2>17 DEF TypeOK, vars
  <2> QED BY <2>1, <2>2, <2>3, <2>4, <2>5, <2>6, <2>7, <2>8, <2>9, <2>10, <2>11, <2>12, <2>13,
             <2>14, <2>15, <2>16, <2>17 DEF Next, Step, Environment
<1> QED BY <1>1, <1>2, PTL DEF Spec

-----------------------------------------------------------------------------
(* Billing *)

(* An answer moves the request to "done" and touches no other. *)
LEMMA AnswerMoves ==
    ASSUME TypeOK, NEW r \in Requests, NEW code \in Codes, Answer(r, code)
    PROVE /\ pc'[r] = "done" /\ status'[r] = code
          /\ \A s \in Requests \ {r} : pc'[s] = pc[s] /\ status'[s] = status[s]
BY DEF TypeOK, Answer

(* A request that moves on inside the handler touches no other. *)
LEMMA GotoMoves ==
    ASSUME TypeOK, NEW r \in Requests, NEW stage \in Stages, Goto(r, stage)
    PROVE /\ pc'[r] = stage
          /\ \A s \in Requests \ {r} : pc'[s] = pc[s]
BY DEF TypeOK, Goto

(* A step of one request that settles nothing, writes no row and takes nothing from a balance keeps
   the billing invariant if the request stays on the same side of the quota check, of the charge
   and of its end. *)
LEMMA QuietStep ==
    ASSUME TypeOK, TypeOK', BillingInv, NEW r \in Requests,
           UNCHANGED <<credits, job, snapshot, usage, paid, overtaken>>,
           \A s \in Requests \ {r} : pc'[s] = pc[s] /\ status'[s] = status[s],
           pc[r] \notin {"log", "reply", "done"}, pc'[r] \notin {"log", "reply"},
           pc'[r] = "done" \/ status'[r] = status[r],
           pc'[r] \in Holding => pc[r] \in Holding,
           pc'[r] \in QuotaPassed => pc[r] \in QuotaPassed
    PROVE BillingInv'
<1>1. SnapshotStands' BY DEF BillingInv, SnapshotStands
<1>2. QuotaHeld' BY DEF BillingInv, QuotaHeld, Cost
<1>3. SettledLate' /\ AnsweredOnce' BY DEF BillingInv, SettledLate, AnsweredOnce
<1>4. RowsLate' BY DEF BillingInv, RowsLate, TypeOK, Rows
<1>5. OnlyOvertakenGoUnbilled' BY DEF BillingInv, OnlyOvertakenGoUnbilled
<1> QED BY <1>1, <1>2, <1>3, <1>4, <1>5 DEF BillingInv

(* The charge, where the invariant is needed: a balance that does not cover the cost lies below the
   snapshot, so the request was overtaken; a debit takes from the others only their standing. *)
LEMMA ChargeStep ==
    ASSUME TypeOK, TypeOK', BillingInv, NEW r \in Requests, Charge(r)
    PROVE BillingInv'
<1> DEFINE k == job[r].key
<1>1. /\ k \in Keys /\ Cost(r) \in Nat /\ credits[k] \in Nat /\ snapshot[r] \in Nat
      /\ pc[r] = "charge" /\ pc[r] \in Holding /\ pc[r] \in QuotaPassed
  BY CostAssumption DEF TypeOK, Jobs, Cost, Charge, Holding, QuotaPassed, InFlight, Stages
<1>2. /\ pc'[r] \in {"log", "done"}
      /\ IF pc'[r] = "done" THEN status'[r] = 500 ELSE status'[r] = status[r]
      /\ \A s \in Requests \ {r} : pc'[s] = pc[s] /\ status'[s] = status[s]
  <2>1. CASE Answer(r, 500) BY <2>1, AnswerMoves DEF Codes
  <2>2. CASE ~Answer(r, 500) BY <2>2, GotoMoves DEF Charge, Stages
  <2> QED BY <2>1, <2>2
<1>3. UNCHANGED <<job, snapshot, usage>> BY DEF Charge
<1>4. CASE Debit(r) /\ DeductAllows(credits[k], Cost(r))
  <2>1. /\ credits' = [credits EXCEPT ![k] = @ - Cost(r)]
        /\ paid' = [paid EXCEPT ![r] = "charged"]
        /\ overtaken' = IF Cost(r) > 0 THEN overtaken \cup Overtaken(r) ELSE overtaken
    BY <1>4 DEF Debit
  <2>2. SnapshotStands'
    <3> SUFFICES ASSUME NEW s \in Requests, pc'[s] \in Holding, s \notin overtaken'
                 PROVE credits'[job[s].key] >= snapshot[s]
      BY <1>3 DEF SnapshotStands
    <3>1. s # r /\ pc[s] \in Holding /\ s \notin overtaken
      BY <1>2, <2>1 DEF Holding, InFlight
    <3>2. credits[job[s].key] >= snapshot[s] BY <3>1 DEF BillingInv, SnapshotStands
    <3>3. job[s].key \in Keys /\ snapshot[s] \in Nat BY DEF TypeOK, Jobs
    <3>4. CASE job[s].key = k
      <4>1. Cost(r) = 0 BY <1>1, <2>1, <3>1, <3>4 DEF Overtaken, Holding
      <4> QED BY <1>1, <2>1, <3>2, <3>3, <4>1 DEF TypeOK
    <3>5. CASE job[s].key # k BY <2>1, <3>2, <3>5, <3>3 DEF TypeOK
    <3> QED BY <3>4, <3>5
  <2>3. QuotaHeld'
    BY <1>2, <1>3 DEF BillingInv, QuotaHeld, QuotaPassed, Holding, InFlight, Cost
  <2>4. SettledLate' /\ AnsweredOnce'
    BY <1>1, <1>2, <2>1 DEF BillingInv, SettledLate, AnsweredOnce, TypeOK
  <2>5. RowsLate' BY <1>1, <1>2, <1>3 DEF BillingInv, RowsLate, TypeOK, Rows
  <2>6. OnlyOvertakenGoUnbilled'
    BY <1>3, <2>1 DEF BillingInv, OnlyOvertakenGoUnbilled, TypeOK, Rows
  <2> QED BY <2>2, <2>3, <2>4, <2>5, <2>6 DEF BillingInv
<1>5. CASE Debit(r) /\ ~DeductAllows(credits[k], Cost(r))
  <2>1. UNCHANGED <<credits, overtaken>> /\ paid' = [paid EXCEPT ![r] = "waived"]
    BY <1>5 DEF Debit
  <2>2. r \in overtaken
    BY <1>1, <1>5 DEF DeductAllows, BillingInv, SnapshotStands, QuotaHeld
  <2>3. SnapshotStands'
    BY <1>2, <1>3, <2>1 DEF BillingInv, SnapshotStands, Holding, InFlight
  <2>4. QuotaHeld'
    BY <1>2, <1>3 DEF BillingInv, QuotaHeld, QuotaPassed, Holding, InFlight, Cost
  <2>5. SettledLate' /\ AnsweredOnce'
    BY <1>1, <1>2, <2>1 DEF BillingInv, SettledLate, AnsweredOnce, TypeOK
  <2>6. RowsLate' BY <1>1, <1>2, <1>3 DEF BillingInv, RowsLate, TypeOK, Rows
  <2>7. OnlyOvertakenGoUnbilled'
    BY <1>3, <2>1, <2>2 DEF BillingInv, OnlyOvertakenGoUnbilled, TypeOK, Rows
  <2> QED BY <2>3, <2>4, <2>5, <2>6, <2>7 DEF BillingInv
<1>6. CASE ~Debit(r)
  <2>1. UNCHANGED <<credits, paid, overtaken>> /\ Answer(r, 500)
    BY <1>6 DEF Charge, historyVars
  <2>2. pc'[r] = "done" BY <2>1, AnswerMoves DEF Codes
  <2> QED BY <1>1, <1>2, <1>3, <2>1, <2>2, QuietStep
          DEF Holding, QuotaPassed, InFlight
<1> QED BY <1>4, <1>5, <1>6

(* The billing invariant is inductive: who goes unbilled was overtaken. *)
LEMMA BillingInductive ==
    /\ Init => BillingInv
    /\ TypeOK /\ TypeOK' /\ BillingInv /\ [Next]_vars => BillingInv'
<1>1. Init => BillingInv
  BY DEF Init, BillingInv, SnapshotStands, QuotaHeld, SettledLate, AnsweredOnce, RowsLate,
         OnlyOvertakenGoUnbilled, Holding, QuotaPassed, InFlight
<1>2. ASSUME TypeOK, TypeOK', BillingInv, [Next]_vars PROVE BillingInv'
  <2> USE <1>2
  <2>1. ASSUME NEW r \in Requests, Arrive(r) PROVE BillingInv'
    <3>1. /\ pc[r] = "idle" /\ pc'[r] = "auth"
          /\ \A s \in Requests \ {r} : pc'[s] = pc[s] /\ job'[s] = job[s]
          /\ UNCHANGED <<credits, snapshot, usage, paid, overtaken, status>>
      BY <2>1, GotoMoves DEF Arrive, keyVars, historyVars, Stages, TypeOK
    <3>2. SnapshotStands' BY <3>1 DEF BillingInv, SnapshotStands, Holding, InFlight
    <3>3. QuotaHeld'
      BY <3>1 DEF BillingInv, QuotaHeld, QuotaPassed, Holding, InFlight, Cost
    <3>4. SettledLate' /\ AnsweredOnce' BY <3>1 DEF BillingInv, SettledLate, AnsweredOnce
    <3>5. RowsLate' BY <3>1 DEF BillingInv, RowsLate, TypeOK, Rows
    <3>6. OnlyOvertakenGoUnbilled' BY <3>1 DEF BillingInv, OnlyOvertakenGoUnbilled
    <3> QED BY <3>2, <3>3, <3>4, <3>5, <3>6 DEF BillingInv
  <2>2. ASSUME NEW r \in Requests, Authenticate(r) PROVE BillingInv'
    <3>1. CASE Answer(r, 401)
      <4>1. pc'[r] = "done" /\ \A s \in Requests \ {r} : pc'[s] = pc[s] /\ status'[s] = status[s]
        BY <3>1, AnswerMoves DEF Codes
      <4>2. SnapshotStands'
        BY <2>2, <4>1 DEF Authenticate, BillingInv, SnapshotStands, Holding, InFlight, keyVars,
           historyVars, TypeOK
      <4>3. QuotaHeld'
        BY <2>2, <4>1 DEF Authenticate, BillingInv, QuotaHeld, QuotaPassed, Holding, InFlight, Cost,
           TypeOK
      <4>4. SettledLate' /\ AnsweredOnce' /\ RowsLate' /\ OnlyOvertakenGoUnbilled'
        BY <2>2, <4>1 DEF Authenticate, BillingInv, SettledLate, AnsweredOnce, RowsLate,
           OnlyOvertakenGoUnbilled, historyVars, TypeOK, Rows
      <4> QED BY <4>2, <4>3, <4>4 DEF BillingInv
    <3>2. CASE ~Answer(r, 401)
      <4>1. /\ pc[r] = "auth" /\ pc'[r] = "gate"
            /\ \A s \in Requests \ {r} : pc'[s] = pc[s] /\ snapshot'[s] = snapshot[s]
            /\ snapshot'[r] = credits[job[r].key] /\ credits[job[r].key] \in Nat
            /\ UNCHANGED <<credits, job, usage, paid, overtaken, status>>
        BY <2>2, <3>2, GotoMoves DEF Authenticate, keyVars, historyVars, Stages, TypeOK, Jobs
      <4>2. SnapshotStands' BY <4>1 DEF BillingInv, SnapshotStands
      <4>3. QuotaHeld'
        BY <4>1 DEF BillingInv, QuotaHeld, QuotaPassed, Holding, InFlight, Cost
      <4>4. SettledLate' /\ AnsweredOnce' BY <4>1 DEF BillingInv, SettledLate, AnsweredOnce
      <4>5. RowsLate' BY <4>1 DEF BillingInv, RowsLate, TypeOK, Rows
      <4>6. OnlyOvertakenGoUnbilled' BY <4>1 DEF BillingInv, OnlyOvertakenGoUnbilled
      <4> QED BY <4>2, <4>3, <4>4, <4>5, <4>6 DEF BillingInv
    <3> QED BY <3>1, <3>2
  <2>3. ASSUME NEW r \in Requests, Limit(r) PROVE BillingInv'
    <3>1. CASE \E code \in {402, 429} : Answer(r, code)
      BY <2>3, <3>1, AnswerMoves, QuietStep
         DEF Limit, Codes, keyVars, historyVars, Holding, QuotaPassed, InFlight
    <3>2. CASE ~\E code \in {402, 429} : Answer(r, code)
      <4>1. /\ pc[r] = "limit" /\ pc'[r] = "lookup" /\ snapshot[r] >= Cost(r)
            /\ \A s \in Requests \ {r} : pc'[s] = pc[s]
            /\ UNCHANGED <<credits, job, snapshot, usage, paid, overtaken, status>>
        BY <2>3, <3>2, GotoMoves DEF Limit, QuotaAllows, keyVars, historyVars, Stages
      <4>2. SnapshotStands'
        BY <4>1 DEF BillingInv, SnapshotStands, Holding, InFlight, Stages
      <4>3. QuotaHeld' BY <4>1 DEF BillingInv, QuotaHeld, Cost
      <4>4. SettledLate' /\ AnsweredOnce' BY <4>1 DEF BillingInv, SettledLate, AnsweredOnce
      <4>5. RowsLate' BY <4>1 DEF BillingInv, RowsLate, TypeOK, Rows
      <4>6. OnlyOvertakenGoUnbilled' BY <4>1 DEF BillingInv, OnlyOvertakenGoUnbilled
      <4> QED BY <4>2, <4>3, <4>4, <4>5, <4>6 DEF BillingInv
    <3> QED BY <3>1, <3>2
  <2>4. ASSUME NEW r \in Requests,
               Gate(r) \/ Lookup(r) \/ Call(r) \/ Fallthrough(r) \/ Enrich(r) \/ Store(r)
                 \/ StoreUnavailable(r)
        PROVE BillingInv'
    <3>1. /\ UNCHANGED <<credits, job, snapshot, usage, paid, overtaken>>
          /\ pc[r] \in Stages \ {"idle", "charge", "log", "reply", "done"}
          /\ pc[r] = "auth" => Answer(r, 500)
          /\ \/ \E code \in Codes : Answer(r, code)
             \/ /\ \E stage \in QuotaPassed \cup {"limit"} : Goto(r, stage)
                /\ pc[r] \in Holding
                /\ pc[r] \in {"gate", "limit"} => Goto(r, "limit") \/ \E code \in Codes : Answer(r, code)
                /\ status' = status
      <4>1. CASE Gate(r)
        BY <4>1 DEF Gate, Codes, keyVars, historyVars, Stages, Holding, InFlight
      <4>2. CASE Lookup(r)
        BY <4>2 DEF Lookup, Codes, keyVars, historyVars, Stages, QuotaPassed, Holding, InFlight
      <4>3. CASE Call(r)
        BY <4>3 DEF Call, CallFailures, AfterPrimary, Codes, keyVars, historyVars, Stages,
           QuotaPassed, Holding, InFlight
      <4>4. CASE Fallthrough(r)
        BY <4>4 DEF Fallthrough, AfterPrimary, Codes, keyVars, historyVars, Stages, QuotaPassed,
           Holding, InFlight
      <4>5. CASE Enrich(r)
        BY <4>5 DEF Enrich, Codes, keyVars, historyVars, Stages, QuotaPassed, Holding, InFlight
      <4>6. CASE Store(r)
        BY <4>6 DEF Store, Codes, keyVars, historyVars, Stages, QuotaPassed, Holding, InFlight
      <4>7. CASE StoreUnavailable(r)
        BY <4>7 DEF StoreUnavailable, Codes, keyVars, historyVars, Stages
      <4> QED BY <2>4, <4>1, <4>2, <4>3, <4>4, <4>5, <4>6, <4>7
    <3>2. CASE \E code \in Codes : Answer(r, code)
      BY <3>1, <3>2, AnswerMoves, QuietStep DEF Stages, Holding, QuotaPassed, InFlight
    <3>3. CASE ~\E code \in Codes : Answer(r, code)
      <4>1. PICK stage \in QuotaPassed \cup {"limit"} : Goto(r, stage) BY <3>1, <3>3
      <4>2. /\ pc'[r] = stage /\ stage \in Stages
            /\ \A s \in Requests \ {r} : pc'[s] = pc[s] /\ status'[s] = status[s]
        BY <3>1, <3>3, <4>1, GotoMoves DEF QuotaPassed, Holding, InFlight, Stages
      <4>3. pc[r] \in {"gate", "limit"} => pc'[r] = "limit"
        BY <3>1, <3>3, <4>2, GotoMoves DEF Stages
      <4> QED BY <3>1, <3>3, <4>1, <4>2, <4>3, QuietStep DEF QuotaPassed, Holding, InFlight, Stages
    <3> QED BY <3>2, <3>3
  <2>5. ASSUME NEW r \in Requests, Charge(r) PROVE BillingInv'
    BY <2>5, ChargeStep
  <2>6. ASSUME NEW r \in Requests, Log(r) PROVE BillingInv'
    <3>1. /\ pc[r] = "log" /\ pc'[r] = "reply"
          /\ \A s \in Requests \ {r} : pc'[s] = pc[s]
          /\ UNCHANGED <<credits, job, snapshot, status, paid, overtaken>>
          /\ usage' \subseteq usage \cup {RowOf(r)}
      BY <2>6, GotoMoves DEF Log, Stages, keyVars, historyVars
    <3>2. SnapshotStands' BY <3>1 DEF BillingInv, SnapshotStands, Holding, InFlight
    <3>3. QuotaHeld'
      BY <3>1 DEF BillingInv, QuotaHeld, QuotaPassed, Holding, InFlight, Cost
    <3>4. SettledLate' /\ AnsweredOnce' BY <3>1 DEF BillingInv, SettledLate, AnsweredOnce
    <3>5. RowsLate'
      <4>1. RowOf(r).req = r BY DEF RowOf
      <4> QED BY <3>1, <4>1 DEF BillingInv, RowsLate, TypeOK, Rows
    <3>6. OnlyOvertakenGoUnbilled'
      <4>1. RowOf(r).req = r BY DEF RowOf
      <4>2. paid[r] \in {"charged", "waived"} BY <3>1 DEF BillingInv, SettledLate, TypeOK
      <4> QED BY <3>1, <4>1, <4>2 DEF BillingInv, OnlyOvertakenGoUnbilled
    <3> QED BY <3>2, <3>3, <3>4, <3>5, <3>6 DEF BillingInv
  <2>7. ASSUME NEW r \in Requests, Finish(r) PROVE BillingInv'
    <3>1. PICK code \in {200, 500} : Answer(r, code) BY <2>7 DEF Finish, Validation
    <3>2. /\ pc[r] = "reply" /\ pc'[r] = "done" /\ status'[r] \in {200, 500}
          /\ \A s \in Requests \ {r} : pc'[s] = pc[s] /\ status'[s] = status[s]
          /\ UNCHANGED <<credits, job, snapshot, usage, paid, overtaken>>
      BY <2>7, <3>1, AnswerMoves DEF Finish, Codes, keyVars, historyVars
    <3>3. SnapshotStands' BY <3>2 DEF BillingInv, SnapshotStands, Holding, InFlight
    <3>4. QuotaHeld'
      BY <3>2 DEF BillingInv, QuotaHeld, QuotaPassed, Holding, InFlight, Cost
    <3>5. SettledLate' /\ AnsweredOnce' BY <3>2 DEF BillingInv, SettledLate, AnsweredOnce
    <3>6. RowsLate' BY <3>2 DEF BillingInv, RowsLate, TypeOK, Rows
    <3>7. OnlyOvertakenGoUnbilled' BY <3>2 DEF BillingInv, OnlyOvertakenGoUnbilled
    <3> QED BY <3>3, <3>4, <3>5, <3>6, <3>7 DEF BillingInv
  <2>8. ASSUME NEW k \in Keys, OperatorTopUp(k) PROVE BillingInv'
    <3>1. /\ UNCHANGED <<pc, job, snapshot, status, usage, paid, overtaken>>
          /\ \A x \in Keys : credits'[x] >= credits[x] /\ credits'[x] \in Nat /\ credits[x] \in Nat
      BY <2>8, CreditAssumption DEF OperatorTopUp, requestVars, historyVars, TypeOK
    <3>2. SnapshotStands'
      <4>1. \A s \in Requests : job[s].key \in Keys /\ snapshot[s] \in Nat BY DEF TypeOK, Jobs
      <4> QED BY <3>1, <4>1 DEF BillingInv, SnapshotStands
    <3> QED BY <3>1, <3>2 DEF BillingInv, QuotaHeld, SettledLate, AnsweredOnce, RowsLate,
               OnlyOvertakenGoUnbilled, Cost
  <2>9. ASSUME \/ \E k \in Keys : Deactivate(k)
               \/ \E s \in Verticals \X Queries : Expire(s)
               \/ UNCHANGED vars
        PROVE BillingInv'
    <3>1. UNCHANGED <<credits, pc, job, snapshot, status, usage, paid, overtaken>>
      BY <2>9 DEF Deactivate, Expire, vars, keyVars, requestVars, historyVars
    <3> QED BY <3>1 DEF BillingInv, SnapshotStands, QuotaHeld, SettledLate, AnsweredOnce, RowsLate,
               OnlyOvertakenGoUnbilled, Cost
  <2>10. CASE Restart
    <3>1. /\ UNCHANGED <<credits, job, snapshot, usage, paid, overtaken>>
          /\ \A s \in Requests :
                /\ pc[s] \in InFlight => pc'[s] = "done" /\ status'[s] = Lost
                /\ pc[s] \notin InFlight => pc'[s] = pc[s] /\ status'[s] = status[s]
      BY <2>10 DEF Restart, keyVars, historyVars
    <3>2. SnapshotStands' BY <3>1 DEF BillingInv, SnapshotStands, Holding, InFlight
    <3>3. QuotaHeld'
      BY <3>1 DEF BillingInv, QuotaHeld, QuotaPassed, Holding, InFlight, Cost
    <3>4. SettledLate' /\ AnsweredOnce'
      BY <3>1 DEF BillingInv, SettledLate, AnsweredOnce, InFlight, Stages, TypeOK
    <3>5. RowsLate' BY <3>1 DEF BillingInv, RowsLate, InFlight, TypeOK, Rows
    <3>6. OnlyOvertakenGoUnbilled' BY <3>1 DEF BillingInv, OnlyOvertakenGoUnbilled
    <3> QED BY <3>2, <3>3, <3>4, <3>5, <3>6 DEF BillingInv
  <2> QED BY <2>1, <2>2, <2>3, <2>4, <2>5, <2>6, <2>7, <2>8, <2>9, <2>10
          DEF Next, Step, Environment
<1> QED BY <1>1, <1>2

(* In every reachable state a snapshot that was not overtaken is still covered by its key's balance,
   and bills and rows come only after the charge (verticals.py handle_vertical, db.py). *)
THEOREM BillingHolds == Spec => []BillingInv
BY TypeCorrect, BillingInductive, PTL DEF Spec

(* A query goes unbilled, or is accounted without a debit, only after another request on the same
   key was charged behind its back. *)
THEOREM OnlyOvertaken == Spec => []OnlyOvertakenGoUnbilled
<1>1. BillingInv => OnlyOvertakenGoUnbilled BY DEF BillingInv
<1> QED BY <1>1, BillingHolds, PTL

(* Whatever is refused, or fails at its provider, is neither charged nor accounted. *)
THEOREM RefusalsFree == Spec => []RefusalsAreFree
<1>1. TypeOK /\ BillingInv => RefusalsAreFree
  BY DEF TypeOK, BillingInv, SettledLate, AnsweredOnce, RowsLate, RefusalsAreFree, Codes, Pending, Lost
<1> QED BY <1>1, TypeCorrect, BillingHolds, PTL

(* Refinement: the pipeline is an implementation of Billing. *)
THEOREM ImplementsBilling == Spec => AccountingSpec
<1> DEFINE Prices == {CostOf[v] : v \in Verticals}
<1>1. Init => Accounting!Init
  <2>1. NoJob \in Jobs BY SomeJobAssumption DEF NoJob
  <2> QED BY <2>1 DEF Init, Accounting!Init, Accounting!Orders, OrderOf, BillOf, Cost, Jobs
<1>2. TypeOK /\ BillingInv /\ [Next]_vars =>
          [Accounting!Next]_<<credits, OrderOf, BillOf>>
  <2> SUFFICES ASSUME TypeOK, BillingInv, [Next]_vars
               PROVE [Accounting!Next]_<<credits, OrderOf, BillOf>>
    OBVIOUS
  <2>1. ASSUME NEW r \in Requests, Arrive(r) PROVE Accounting!Place(r)
    <3>1. PICK j \in Jobs : job' = [job EXCEPT ![r] = j] BY <2>1 DEF Arrive
    <3>2. pc[r] = "idle" /\ pc' = [pc EXCEPT ![r] = "auth"] /\ UNCHANGED <<credits, paid>>
      BY <2>1 DEF Arrive, Goto, keyVars, historyVars
    <3>3. paid[r] = "open" BY <3>2 DEF BillingInv, SettledLate
    <3>4. BillOf' = [BillOf EXCEPT ![r] = "open"] /\ BillOf[r] = "none"
      BY <3>2, <3>3 DEF BillOf, TypeOK
    <3>5. OrderOf' = [OrderOf EXCEPT ![r] = [key |-> j.key, price |-> CostOf[j.vertical]]]
      BY <3>1 DEF OrderOf, Cost, TypeOK
    <3>6. [key |-> j.key, price |-> CostOf[j.vertical]] \in Accounting!Orders
      BY DEF Accounting!Orders, Jobs
    <3> QED BY <3>2, <3>4, <3>5, <3>6 DEF Accounting!Place
  <2>2. ASSUME NEW r \in Requests, Charge(r)
        PROVE Accounting!Debit(r) \/ Accounting!Waive(r) \/ UNCHANGED <<credits, OrderOf, BillOf>>
    <3>1. pc[r] = "charge" /\ pc'[r] \in {"log", "done"} /\ job' = job
          /\ \A s \in Requests \ {r} : pc'[s] = pc[s]
      <4>1. CASE Answer(r, 500) BY <2>2, <4>1, AnswerMoves DEF Charge, Codes
      <4>2. CASE ~Answer(r, 500) BY <2>2, <4>2, GotoMoves DEF Charge, Stages
      <4> QED BY <4>1, <4>2
    <3>2. paid[r] = "open" /\ job[r].key \in Keys /\ Cost(r) \in Nat
          /\ credits[job[r].key] \in Nat
      BY <3>1, CostAssumption DEF BillingInv, SettledLate, TypeOK, Jobs, Cost
    <3>3. OrderOf' = OrderOf BY <3>1 DEF OrderOf, Cost
    <3>4. OrderOf[r] = [key |-> job[r].key, price |-> Cost(r)] BY DEF OrderOf
    <3>5. BillOf[r] = "open" BY <3>1, <3>2 DEF BillOf
    <3>6. CASE Debit(r) /\ DeductAllows(credits[job[r].key], Cost(r))
      <4>1. BillOf' = [BillOf EXCEPT ![r] = "charged"]
        BY <3>1, <3>6 DEF Debit, BillOf, TypeOK
      <4> QED BY <3>3, <3>4, <3>5, <3>6, <4>1
              DEF Debit, DeductAllows, Accounting!Debit, Accounting!Settle
    <3>7. CASE Debit(r) /\ ~DeductAllows(credits[job[r].key], Cost(r))
      <4>1. BillOf' = [BillOf EXCEPT ![r] = "waived"]
        BY <3>1, <3>7 DEF Debit, BillOf, TypeOK
      <4>2. credits[job[r].key] < Cost(r) BY <3>2, <3>7 DEF DeductAllows
      <4> QED BY <3>3, <3>4, <3>5, <3>7, <4>1, <4>2
              DEF Debit, Accounting!Waive, Accounting!Settle
    <3>8. CASE ~Debit(r)
      <4>1. UNCHANGED <<credits, paid>> BY <2>2, <3>8 DEF Charge, historyVars
      <4>2. BillOf' = BillOf BY <3>1, <4>1 DEF BillOf
      <4> QED BY <3>3, <4>1, <4>2
    <3> QED BY <3>6, <3>7, <3>8
  <2>3. ASSUME NEW r \in Requests, Step(r), ~Charge(r)
        PROVE UNCHANGED <<credits, OrderOf, BillOf>>
    <3>1. UNCHANGED <<credits, job, paid>>
      BY <2>3 DEF Step, Authenticate, Gate, Limit, Lookup, Call, Fallthrough, Enrich, Store, Log,
         Finish, StoreUnavailable, keyVars, historyVars
    <3>2. pc[r] # "idle" /\ pc'[r] # "idle" /\ \A s \in Requests \ {r} : pc'[s] = pc[s]
      <4>1. CASE \E code \in Codes : Answer(r, code)
        <5>1. pc[r] # "idle"
          BY <2>3 DEF Step, Authenticate, Gate, Limit, Lookup, Call, Fallthrough, Enrich, Store,
             Log, Finish, StoreUnavailable
        <5> QED BY <4>1, <5>1, AnswerMoves
      <4>2. CASE ~\E code \in Codes : Answer(r, code)
        <5>1. pc[r] # "idle" /\ \E stage \in Stages \ {"idle"} : Goto(r, stage)
          BY <2>3, <4>2 DEF Step, Authenticate, Gate, Limit, Lookup, Call, CallFailures, Fallthrough,
             Enrich, Store, Log, Finish, Validation, StoreUnavailable, AfterPrimary, Codes, Stages
        <5> QED BY <5>1, GotoMoves
      <4> QED BY <4>1, <4>2
    <3>3. BillOf' = BillOf BY <3>1, <3>2 DEF BillOf
    <3>4. OrderOf' = OrderOf BY <3>1 DEF OrderOf, Cost
    <3> QED BY <3>1, <3>3, <3>4
  <2>4. ASSUME NEW k \in Keys, OperatorTopUp(k) PROVE Accounting!Credit(k)
    <3>1. UNCHANGED <<OrderOf, BillOf>>
      BY <2>4 DEF OperatorTopUp, requestVars, historyVars, OrderOf, BillOf, Cost
    <3> QED BY <2>4, <3>1 DEF OperatorTopUp, Accounting!Credit
  <2>5. ASSUME \/ \E k \in Keys : Deactivate(k)
               \/ \E s \in Verticals \X Queries : Expire(s)
               \/ UNCHANGED vars
        PROVE UNCHANGED <<credits, OrderOf, BillOf>>
    BY <2>5 DEF Deactivate, Expire, vars, keyVars, requestVars, historyVars, OrderOf, BillOf, Cost
  <2>6. ASSUME Restart PROVE UNCHANGED <<credits, OrderOf, BillOf>>
    BY <2>6 DEF Restart, keyVars, historyVars, OrderOf, BillOf, Cost, InFlight, Stages, TypeOK
  <2> QED BY <2>1, <2>2, <2>3, <2>4, <2>5, <2>6 DEF Next, Environment, Accounting!Next
<1> QED BY <1>1, <1>2, TypeCorrect, BillingHolds, PTL DEF Spec, AccountingSpec, Accounting!Spec

-----------------------------------------------------------------------------
(* The ledger *)

(* The ledger before and after a step, with its two sums named. *)
LEMMA LedgerSums ==
    /\ LedgerBalanced <=> SumOf(credits, Keys) + SumOf(Taken, Requests)
                             = Cardinality(Keys) * InitialCredits + topUps * TopUp
    /\ LedgerBalanced' <=> SumOf(credits', Keys) + SumOf(Taken', Requests)
                              = Cardinality(Keys) * InitialCredits + topUps' * TopUp
BY Zenon DEF LedgerBalanced, SumOf, MapThenSumSet, MapThenFoldSet

(* Balances and what was taken are numbers, and so are their sums. *)
LEMMA LedgerTypes ==
    ASSUME TypeOK
    PROVE  /\ \A k \in Keys : credits[k] \in Int
           /\ \A r \in Requests : Taken[r] \in Int
           /\ SumOf(credits, Keys) \in Int /\ SumOf(Taken, Requests) \in Int
<1>1. \A k \in Keys : credits[k] \in Int
  BY DEF TypeOK
<1>2. \A r \in Requests : Taken[r] \in Int
  BY CostAssumption DEF TypeOK, Taken, Cost, Jobs
<1> QED
  BY <1>1, <1>2, FiniteAssumption, SumOfType

(* A debit takes from a balance what it adds to the bills. *)
LEMMA DebitBalances ==
    ASSUME TypeOK, TypeOK', LedgerBalanced, NEW r \in Requests, Debit(r), paid[r] = "open",
           UNCHANGED <<job, topUps>>
    PROVE  LedgerBalanced'
<1> DEFINE k == job[r].key
<1>1. k \in Keys /\ Cost(r) \in Int /\ Taken[r] = 0
  BY CostAssumption DEF TypeOK, Jobs, Cost, Taken
<1>2. \A s \in Requests : Cost(s)' = Cost(s)
  BY DEF Cost
<1>3. CASE DeductAllows(credits[k], Cost(r))
  <2>1. credits' = [credits EXCEPT ![k] = @ - Cost(r)] /\ paid' = [paid EXCEPT ![r] = "charged"]
    BY <1>3 DEF Debit
  <2>2. SumOf(credits', Keys) = SumOf(credits, Keys) + (credits'[k] - credits[k])
    <3>1. /\ \A x \in Keys : credits[x] \in Int /\ credits'[x] \in Int
          /\ \A x \in Keys \ {k} : credits[x] = credits'[x]
      BY <2>1, <1>1, LedgerTypes DEF TypeOK
    <3> QED
      BY <3>1, <1>1, FiniteAssumption, SumOfChange
  <2>3. SumOf(Taken', Requests) = SumOf(Taken, Requests) + (Taken'[r] - Taken[r])
    <3>1. \A x \in Requests : Taken[x] \in Int /\ Taken'[x] \in Int
      BY <1>1, <1>2, CostAssumption DEF TypeOK, Taken, Cost, Jobs
    <3>2. \A x \in Requests \ {r} : Taken[x] = Taken'[x]
      BY <2>1, <1>2 DEF TypeOK, Taken
    <3> QED
      BY <3>1, <3>2, FiniteAssumption, SumOfChange
  <2>4. credits'[k] - credits[k] = 0 - Cost(r) /\ Taken'[r] - Taken[r] = Cost(r)
    BY <2>1, <1>1, <1>2 DEF TypeOK, Taken
  <2>5. SumOf(credits', Keys) + SumOf(Taken', Requests)
          = SumOf(credits, Keys) + SumOf(Taken, Requests)
    BY <2>2, <2>3, <2>4, <1>1, LedgerTypes
  <2> QED
    BY <2>5, LedgerSums
<1>4. CASE ~DeductAllows(credits[k], Cost(r))
  <2>1. credits' = credits /\ paid' = [paid EXCEPT ![r] = "waived"]
    BY <1>4 DEF Debit
  <2>2. Taken' = Taken
    BY <2>1, <1>2 DEF TypeOK, Taken
  <2> QED
    BY <2>1, <2>2, LedgerSums
<1> QED
  BY <1>3, <1>4

(* A top-up of one key adds its amount to the balances. *)
LEMMA TopUpBalances ==
    ASSUME TypeOK, TypeOK', LedgerBalanced, NEW k \in Keys, OperatorTopUp(k)
    PROVE  LedgerBalanced'
<1>1. /\ credits' = [credits EXCEPT ![k] = @ + TopUp] /\ topUps' = topUps + 1
      /\ UNCHANGED <<job, paid>>
  BY DEF OperatorTopUp, requestVars, historyVars
<1>2. SumOf(credits', Keys) = SumOf(credits, Keys) + (credits'[k] - credits[k])
  <2>1. /\ \A x \in Keys : credits[x] \in Int /\ credits'[x] \in Int
        /\ \A x \in Keys \ {k} : credits[x] = credits'[x]
    BY <1>1 DEF TypeOK
  <2> QED
    BY <2>1, FiniteAssumption, SumOfChange
<1>3. credits'[k] - credits[k] = TopUp
  BY <1>1, CreditAssumption DEF TypeOK
<1>4. Taken' = Taken
  BY <1>1 DEF Taken, Cost
<1>5. topUps' * TopUp = topUps * TopUp + TopUp
  BY <1>1, CreditAssumption DEF TypeOK
<1>6. Cardinality(Keys) * InitialCredits \in Int /\ topUps * TopUp \in Int
  BY FiniteAssumption, FS_CardinalityType, CreditAssumption DEF TypeOK
<1>7. SumOf(credits', Keys) + SumOf(Taken', Requests)
        = Cardinality(Keys) * InitialCredits + topUps' * TopUp
  <2> DEFINE given == Cardinality(Keys) * InitialCredits
             added == topUps * TopUp
  <2>1. SumOf(credits, Keys) + SumOf(Taken, Requests) = given + added
    BY LedgerSums
  <2>2. given \in Int /\ added \in Int /\ TopUp \in Int
    BY <1>6, CreditAssumption
  <2> HIDE DEF given, added
  <2>3. SumOf(credits', Keys) + SumOf(Taken', Requests) = given + (added + TopUp)
    BY <1>2, <1>3, <1>4, <2>1, <2>2, LedgerTypes
  <2> QED
    BY <1>5, <2>3 DEF given, added
<1> QED
  BY <1>7, LedgerSums

(* The ledger balances: for any number of keys and requests, whatever they cost and however charges,
   top-ups, failures and restarts interleave, what the keys hold and what was taken from them is
   what they were given (db.py deduct_credits). *)
THEOREM LedgerBalances == Spec => []LedgerBalanced
<1>1. Init => LedgerBalanced
  <2> SUFFICES ASSUME Init PROVE LedgerBalanced
    OBVIOUS
  <2>1. SumOf(credits, Keys) = Cardinality(Keys) * InitialCredits
    <3>1. \A k \in Keys : credits[k] = InitialCredits
      BY DEF Init
    <3> QED
      BY <3>1, FiniteAssumption, CreditAssumption, SumOfConstant
  <2>2. SumOf(Taken, Requests) = Cardinality(Requests) * 0
    <3>1. \A r \in Requests : Taken[r] = 0
      BY DEF Init, Taken
    <3> QED
      BY <3>1, FiniteAssumption, SumOfConstant
  <2>3. Cardinality(Requests) * 0 = 0 /\ Cardinality(Keys) * InitialCredits \in Int
    BY FiniteAssumption, FS_CardinalityType, CreditAssumption
  <2>4. topUps = 0 /\ topUps * TopUp = 0
    BY CreditAssumption DEF Init
  <2> QED
    BY <2>1, <2>2, <2>3, <2>4, LedgerSums
<1>2. TypeOK /\ TypeOK' /\ BillingInv /\ LedgerBalanced /\ [Next]_vars => LedgerBalanced'
  <2> SUFFICES ASSUME TypeOK, TypeOK', BillingInv, LedgerBalanced, [Next]_vars
               PROVE  LedgerBalanced'
    OBVIOUS
  <2>1. ASSUME NEW r \in Requests, Arrive(r) PROVE LedgerBalanced'
    <3>1. /\ UNCHANGED <<credits, topUps, paid>> /\ pc[r] = "idle"
          /\ \E j \in Jobs : job' = [job EXCEPT ![r] = j]
      BY <2>1 DEF Arrive, keyVars, historyVars
    <3>2. paid[r] = "open"
      BY <3>1 DEF BillingInv, SettledLate
    <3>3. Taken' = Taken
      BY <3>1, <3>2 DEF TypeOK, Taken, Cost
    <3> QED
      BY <3>1, <3>3, LedgerSums
  <2>2. ASSUME NEW r \in Requests, Charge(r) PROVE LedgerBalanced'
    <3>1. UNCHANGED <<job, topUps>> /\ paid[r] = "open"
      BY <2>2 DEF Charge, BillingInv, SettledLate
    <3>2. CASE Debit(r)
      BY <3>1, <3>2, DebitBalances
    <3>3. CASE ~Debit(r)
      <4>1. UNCHANGED <<credits, paid, job, topUps>>
        BY <2>2, <3>1, <3>3 DEF Charge, historyVars
      <4> QED
        BY <4>1, LedgerSums DEF Taken, Cost
    <3> QED
      BY <3>2, <3>3
  <2>3. ASSUME NEW r \in Requests, Step(r), ~Charge(r) PROVE LedgerBalanced'
    <3>1. UNCHANGED <<credits, topUps, job, paid>>
      BY <2>3 DEF Step, Authenticate, Gate, Limit, Lookup, Call, Fallthrough, Enrich, Store,
         Log, Finish, StoreUnavailable, keyVars, historyVars
    <3> QED
      BY <3>1, LedgerSums DEF Taken, Cost
  <2>4. ASSUME NEW k \in Keys, OperatorTopUp(k) PROVE LedgerBalanced'
    BY <2>4, TopUpBalances
  <2>5. ASSUME \/ \E k \in Keys : Deactivate(k)
               \/ \E s \in Verticals \X Queries : Expire(s)
               \/ Restart \/ UNCHANGED vars
        PROVE  LedgerBalanced'
    <3>1. UNCHANGED <<credits, topUps, job, paid>>
      BY <2>5 DEF Deactivate, Expire, Restart, vars, keyVars, requestVars, historyVars
    <3> QED
      BY <3>1, LedgerSums DEF Taken, Cost
  <2> QED
    BY <2>1, <2>2, <2>3, <2>4, <2>5 DEF Next, Environment
<1> QED
  BY <1>1, <1>2, TypeCorrect, BillingHolds, PTL DEF Spec

-----------------------------------------------------------------------------
(* The policy gate *)

(* No request for a denied query is past the gate, in any reachable state. *)
LEMMA DeniedStayOutInductive ==
    /\ Init => DeniedStayOut
    /\ TypeOK /\ DeniedStayOut /\ [Next]_vars => DeniedStayOut'
<1>1. Init => DeniedStayOut BY DEF Init, DeniedStayOut, PastGate, InFlight
<1>2. ASSUME TypeOK, DeniedStayOut, [Next]_vars PROVE DeniedStayOut'
  <2> USE <1>2
  <2>1. ASSUME NEW r \in Requests, Arrive(r) PROVE DeniedStayOut'
    <3>1. /\ pc'[r] = "auth" /\ policy' = policy
          /\ \A s \in Requests \ {r} : pc'[s] = pc[s] /\ job'[s] = job[s]
      BY <2>1, GotoMoves DEF Arrive, Stages, TypeOK
    <3> QED BY <3>1 DEF DeniedStayOut, PastGate
  <2>2. ASSUME NEW r \in Requests, Step(r) PROVE DeniedStayOut'
    <3>1. UNCHANGED <<job, policy>>
      BY <2>2 DEF Step, Authenticate, Gate, Limit, Lookup, Call, Fallthrough, Enrich, Store, Charge,
         Log, Finish, StoreUnavailable
    <3>2. CASE \E code \in Codes : Answer(r, code)
      BY <3>1, <3>2, AnswerMoves DEF DeniedStayOut, PastGate, InFlight
    <3>3. CASE ~\E code \in Codes : Answer(r, code)
      <4>1. /\ pc[r] \in PastGate \/ (pc[r] = "gate" /\ job[r].query \notin policy) \/ pc[r] = "auth"
            /\ \E stage \in Stages : Goto(r, stage) /\ (pc[r] = "auth" => stage = "gate")
        BY <2>2, <3>3 DEF Step, Authenticate, Gate, GateBlocks, Limit, Lookup, Call, CallFailures,
           Fallthrough, Enrich, Store, Charge, Log, Finish, Validation, StoreUnavailable, AfterPrimary,
           Codes, Stages, PastGate, InFlight
      <4> QED BY <3>1, <4>1, GotoMoves DEF DeniedStayOut, PastGate, InFlight
    <3> QED BY <3>2, <3>3
  <2>3. ASSUME \/ \E k \in Keys : OperatorTopUp(k) \/ Deactivate(k)
               \/ \E s \in Verticals \X Queries : Expire(s)
               \/ UNCHANGED vars
        PROVE DeniedStayOut'
    BY <2>3 DEF OperatorTopUp, Deactivate, Expire, vars, requestVars, DeniedStayOut
  <2>4. ASSUME Restart PROVE DeniedStayOut'
    BY <2>4 DEF Restart, DeniedStayOut, PastGate, InFlight, TypeOK
  <2> QED BY <2>1, <2>2, <2>3, <2>4 DEF Next, Environment
<1> QED BY <1>1, <1>2

(* While a query is denied, no step calls a provider for it, caches it, charges or accounts it. *)
THEOREM DeniedLeaveNoTrace == Spec => DeniedQueriesLeaveNoTrace
<1> DEFINE NoTrace(r) ==
      /\ pc'[r] \notin PastGate
      /\ paid'[r] = paid[r]
      /\ cache'[Slot(r)] \in {cache[Slot(r)], Miss}
      /\ \A row \in usage' \ usage : row.req # r
<1>1. TypeOK /\ DeniedStayOut /\ [Next]_vars =>
          [\A r \in Requests : job[r].query \in policy => NoTrace(r)]_vars
  <2> SUFFICES ASSUME TypeOK, DeniedStayOut, [Next]_vars,
                      NEW r \in Requests, job[r].query \in policy, ~UNCHANGED vars
               PROVE NoTrace(r)
    OBVIOUS
  <2>1. Slot(r) \in Verticals \X Queries /\ pc[r] \notin PastGate
    BY DEF DeniedStayOut, Slot, TypeOK, Jobs
  <2>2. ASSUME NEW s \in Requests, Arrive(s) PROVE NoTrace(r)
    <3>1. pc'[s] = "auth" /\ (r # s => pc'[r] = pc[r]) /\ UNCHANGED <<cache, paid, usage>>
      BY <2>2, GotoMoves DEF Arrive, historyVars, Stages
    <3> QED BY <2>1, <3>1 DEF PastGate
  <2>3. ASSUME NEW s \in Requests, Step(s) PROVE NoTrace(r)
    <3>1. pc'[r] \notin PastGate
      <4>1. /\ DeniedStayOut' BY DeniedStayOutInductive
      <4>2. UNCHANGED <<job, policy>>
        BY <2>3 DEF Step, Authenticate, Gate, Limit, Lookup, Call, Fallthrough, Enrich, Store,
           Charge, Log, Finish, StoreUnavailable
      <4> QED BY <4>1, <4>2 DEF DeniedStayOut
    <3>2. CASE Store(s)
      <4>1. pc[s] \in PastGate /\ UNCHANGED <<usage, paid>>
        BY <3>2 DEF Store, PastGate, InFlight, Stages, historyVars
      <4>2. Slot(s) # Slot(r)
        BY <4>1 DEF DeniedStayOut, Slot
      <4> QED BY <2>1, <3>1, <3>2, <4>1, <4>2 DEF Store, TypeOK
    <3>3. CASE Charge(s)
      <4>1. s # r /\ UNCHANGED <<usage, cache>>
        BY <2>1, <3>3 DEF Charge, PastGate, InFlight, Stages
      <4>2. paid'[r] = paid[r] BY <3>3, <4>1 DEF Charge, Debit, historyVars, TypeOK
      <4> QED BY <3>1, <4>1, <4>2
    <3>4. CASE Log(s)
      <4>1. s # r /\ UNCHANGED <<cache, paid>> /\ usage' \subseteq usage \cup {RowOf(s)}
        BY <2>1, <3>4 DEF Log, PastGate, InFlight, Stages, historyVars
      <4> QED BY <3>1, <4>1 DEF RowOf
    <3>5. CASE ~Store(s) /\ ~Charge(s) /\ ~Log(s)
      <4>1. UNCHANGED <<cache, paid, usage>>
        BY <2>3, <3>5 DEF Step, Authenticate, Gate, Limit, Lookup, Call, Fallthrough, Enrich,
           Finish, StoreUnavailable, historyVars
      <4> QED BY <3>1, <4>1
    <3> QED BY <3>2, <3>3, <3>4, <3>5
  <2>4. ASSUME NEW s \in Verticals \X Queries, Expire(s) PROVE NoTrace(r)
    BY <2>1, <2>4 DEF Expire, requestVars, historyVars, TypeOK
  <2>5. ASSUME NEW k \in Keys, OperatorTopUp(k) \/ Deactivate(k) PROVE NoTrace(r)
    BY <2>1, <2>5 DEF OperatorTopUp, Deactivate, requestVars, historyVars
  <2>6. ASSUME Restart PROVE NoTrace(r)
    BY <2>1, <2>6 DEF Restart, historyVars, PastGate, InFlight, TypeOK
  <2> QED BY <2>2, <2>3, <2>4, <2>5, <2>6 DEF Next, Environment
<1> QED BY <1>1, TypeCorrect, DeniedStayOutInductive, PTL
        DEF Spec, DeniedQueriesLeaveNoTrace

-----------------------------------------------------------------------------
(* The audit trail *)

(* What a provider returns, fall-through swaps in, enrichment adds or the cache gives back is
   described truthfully. *)
LEMMA TruthfulWork ==
    /\ \A p \in Providers, v \in Verticals : \A b \in Payloads(p, v) :
          Truthful(FromProvider(b, p)) /\ ~FromProvider(b, p).hit
    /\ \A e \in Entries : e.provider = e.blocks.main => Truthful(FromCache(e))
    /\ \A w \in Work, b \in Blocks : Truthful(w) /\ ~w.hit
          => Truthful(Enriched(w, b)) /\ ~Enriched(w, b).hit
<1>1. ASSUME NEW p \in Providers, NEW v \in Verticals, NEW b \in Payloads(p, v)
      PROVE Truthful(FromProvider(b, p)) /\ ~FromProvider(b, p).hit
  BY <1>1 DEF Payloads, MetasOf, Truthful, FromProvider
<1>2. ASSUME NEW e \in Entries, e.provider = e.blocks.main PROVE Truthful(FromCache(e))
  BY <1>2 DEF Truthful, FromCache
<1>3. ASSUME NEW w \in Work, NEW b \in Blocks, Truthful(w), ~w.hit
      PROVE Truthful(Enriched(w, b)) /\ ~Enriched(w, b).hit
  BY <1>3 DEF Truthful, Enriched, Work, Blocks
<1> QED BY <1>1, <1>2, <1>3

(* A step of one request that writes no row and no cache entry keeps the truth if what it leaves in
   the request's work is true, and if it does not come near the end, where rows are. *)
LEMMA TruthStep ==
    ASSUME TypeOK, TypeOK', BillingInv, TruthInv, NEW r \in Requests,
           UNCHANGED <<cache, usage>>, pc[r] # "done", pc'[r] # "reply",
           \A s \in Requests \ {r} : pc'[s] = pc[s] /\ status'[s] = status[s] /\ work'[s] = work[s],
           pc'[r] \in Answering => Truthful(work'[r]),
           pc'[r] \in {"fallthrough", "enrich", "store"} => ~work'[r].hit,
           status'[r] # 200
    PROVE TruthInv'
BY DEF TruthInv, TypeOK, Rows

(* The truth of cache, requests in progress and usage rows is inductive. *)
LEMMA TruthInductive ==
    /\ Init => TruthInv
    /\ TypeOK /\ TypeOK' /\ BillingInv /\ TruthInv /\ [Next]_vars => TruthInv'
<1>1. Init => TruthInv BY DEF Init, TruthInv, Answering, Pending
<1>2. ASSUME TypeOK, TypeOK', BillingInv, TruthInv, [Next]_vars PROVE TruthInv'
  <2> USE <1>2
  <2>1. ASSUME NEW r \in Requests, NEW code \in Codes \ {200}, Answer(r, code), pc[r] # "done",
               UNCHANGED <<cache, usage>>
        PROVE TruthInv'
    <3>1. /\ pc'[r] = "done" /\ status'[r] = code
          /\ \A s \in Requests \ {r} : pc'[s] = pc[s] /\ status'[s] = status[s] /\ work'[s] = work[s]
      BY <2>1, AnswerMoves DEF Answer, TypeOK
    <3> QED BY <2>1, <3>1, TruthStep DEF Answering
  <2>2. ASSUME NEW r \in Requests, NEW stage \in Stages \ {"reply", "done"}, Goto(r, stage),
               UNCHANGED <<cache, usage, status>>, pc[r] # "done",
               \A s \in Requests \ {r} : work'[s] = work[s],
               stage \in Answering => Truthful(work'[r]),
               stage \in {"fallthrough", "enrich", "store"} => ~work'[r].hit
        PROVE TruthInv'
    <3>1. pc'[r] = stage /\ \A s \in Requests \ {r} : pc'[s] = pc[s] BY <2>2, GotoMoves
    <3>2. status'[r] # 200 BY <2>2 DEF BillingInv, AnsweredOnce, Pending
    <3> QED BY <2>2, <3>1, <3>2, TruthStep
  <2>3. ASSUME NEW r \in Requests,
               Arrive(r) \/ Authenticate(r) \/ Gate(r) \/ Limit(r) \/ StoreUnavailable(r)
        PROVE TruthInv'
    <3>1. UNCHANGED <<cache, usage>> /\ pc[r] # "done"
      BY <2>3 DEF Arrive, Authenticate, Gate, Limit, StoreUnavailable
    <3>2. CASE \E code \in Codes \ {200} : Answer(r, code) BY <2>1, <3>1, <3>2
    <3>3. CASE ~\E code \in Codes \ {200} : Answer(r, code)
      <4>1. /\ UNCHANGED <<work, status>>
            /\ \E stage \in {"auth", "gate", "limit", "lookup"} : Goto(r, stage)
        BY <2>3, <3>3 DEF Arrive, Authenticate, Gate, Limit, StoreUnavailable, Codes
      <4> QED BY <2>2, <3>1, <4>1 DEF Stages, Answering
    <3> QED BY <3>2, <3>3
  <2>4. ASSUME NEW r \in Requests, Lookup(r) PROVE TruthInv'
    <3>1. UNCHANGED <<cache, usage>> /\ pc[r] # "done" BY <2>4 DEF Lookup
    <3>2. CASE Answer(r, 501) BY <2>1, <3>1, <3>2 DEF Codes
    <3>3. CASE ~Answer(r, 501) /\ cache[Slot(r)] = Miss
      <4>1. UNCHANGED <<work, status>> /\ Goto(r, "call") BY <2>4, <3>3 DEF Lookup
      <4> QED BY <2>2, <3>1, <4>1 DEF Stages, Answering
    <3>4. CASE ~Answer(r, 501) /\ cache[Slot(r)] # Miss
      <4>1. /\ status' = status /\ Goto(r, "charge")
            /\ work' = [work EXCEPT ![r] = FromCache(cache[Slot(r)])]
        BY <2>4, <3>4 DEF Lookup
      <4>2. Slot(r) \in Verticals \X Queries BY DEF Slot, TypeOK, Jobs
      <4>3. cache[Slot(r)] \in Entries BY <3>4, <4>2 DEF TypeOK
      <4>4. Truthful(FromCache(cache[Slot(r)]))
        BY <3>4, <4>2, <4>3, TruthfulWork DEF TruthInv
      <4>5. work'[r] = FromCache(cache[Slot(r)]) /\ \A s \in Requests \ {r} : work'[s] = work[s]
        BY <4>1 DEF TypeOK
      <4> QED BY <2>2, <3>1, <4>1, <4>4, <4>5 DEF Stages
    <3> QED BY <3>2, <3>3, <3>4
  <2>5. ASSUME NEW r \in Requests, Call(r) PROVE TruthInv'
    <3> DEFINE v == job[r].vertical
               p == ProviderFor[v]
    <3>1. v \in Verticals /\ p \in Providers BY RoutingAssumption DEF TypeOK, Jobs
    <3>2. UNCHANGED <<cache, usage>> /\ pc[r] # "done" BY <2>5 DEF Call
    <3>3. CASE \E code \in Codes \ {200} : Answer(r, code) BY <2>1, <3>2, <3>3
    <3>4. CASE ~\E code \in Codes \ {200} : Answer(r, code)
      <4>1. PICK b \in Payloads(p, v) :
                /\ work' = [work EXCEPT ![r] = FromProvider(b, p)]
                /\ Goto(r, IF FallsThrough(b, v) THEN "fallthrough" ELSE AfterPrimary(p, v))
                /\ status' = status
        BY <2>5, <3>4 DEF Call, CallFailures, Codes
      <4>2. work'[r] = FromProvider(b, p) /\ \A s \in Requests \ {r} : work'[s] = work[s]
        BY <4>1 DEF TypeOK
      <4>3. Truthful(work'[r]) /\ ~work'[r].hit BY <3>1, <4>2, TruthfulWork
      <4> QED BY <2>2, <3>2, <4>1, <4>2, <4>3 DEF AfterPrimary, Stages
    <3> QED BY <3>3, <3>4
  <2>6. ASSUME NEW r \in Requests, Fallthrough(r) \/ Enrich(r) PROVE TruthInv'
    <3> DEFINE v == job[r].vertical
    <3>1. /\ v \in Verticals /\ work[r] \in Work /\ "commercial" \in Providers
          /\ UNCHANGED <<cache, usage>> /\ pc[r] # "done"
          /\ Truthful(work[r]) /\ ~work[r].hit
      BY <2>6 DEF Fallthrough, Enrich, TypeOK, Jobs, Providers, TruthInv, Answering
    <3>2. CASE Answer(r, 500) BY <2>1, <3>1, <3>2 DEF Codes
    <3>3. CASE ~Answer(r, 500) /\ work' = work
      <4>1. status' = status /\ \E stage \in {"enrich", "store"} : Goto(r, stage)
        BY <2>6, <3>3 DEF Fallthrough, Enrich, AfterPrimary
      <4> QED BY <2>2, <3>1, <3>3, <4>1 DEF Stages
    <3>4. CASE ~Answer(r, 500) /\ Fallthrough(r) /\ work' # work
      <4>1. PICK b \in Payloads("commercial", v) :
                work' = [work EXCEPT ![r] = FromProvider(b, "commercial")]
        BY <3>4 DEF Fallthrough
      <4>2. Goto(r, "store") /\ status' = status BY <3>4 DEF Fallthrough
      <4>3. work'[r] = FromProvider(b, "commercial") /\ \A s \in Requests \ {r} : work'[s] = work[s]
        BY <4>1 DEF TypeOK
      <4>4. Truthful(work'[r]) /\ ~work'[r].hit BY <3>1, <4>3, TruthfulWork
      <4> QED BY <2>2, <3>1, <4>2, <4>3, <4>4 DEF Stages
    <3>5. CASE ~Answer(r, 500) /\ Enrich(r) /\ work' # work
      <4>1. PICK b \in Payloads("commercial", v) : work' = [work EXCEPT ![r] = Enriched(@, b)]
        BY <3>5 DEF Enrich
      <4>2. Goto(r, "store") /\ status' = status BY <3>5 DEF Enrich
      <4>3. work'[r] = Enriched(work[r], b) /\ \A s \in Requests \ {r} : work'[s] = work[s]
        BY <4>1 DEF TypeOK
      <4>4. b \in Blocks BY <3>1, PayloadType
      <4>5. Truthful(work'[r]) /\ ~work'[r].hit BY <3>1, <4>3, <4>4, TruthfulWork
      <4> QED BY <2>2, <3>1, <4>2, <4>3, <4>5 DEF Stages
    <3> QED BY <2>6, <3>2, <3>3, <3>4, <3>5
  <2>7. ASSUME NEW r \in Requests, Store(r) PROVE TruthInv'
    <3>1. /\ pc[r] = "store" /\ pc'[r] \in {"charge", "done"} /\ UNCHANGED usage
          /\ pc'[r] = "charge" => work'[r] = work[r]
          /\ status'[r] # 200
          /\ \A s \in Requests \ {r} : pc'[s] = pc[s] /\ status'[s] = status[s] /\ work'[s] = work[s]
          /\ cache' = [cache EXCEPT ![Slot(r)] = EntryOf(r)]
      <4>1. pc[r] = "store" /\ usage' = usage /\ cache' = [cache EXCEPT ![Slot(r)] = EntryOf(r)]
        BY <2>7 DEF Store
      <4>2. CASE Answer(r, 500) BY <4>1, <4>2, AnswerMoves DEF Answer, Codes, TypeOK
      <4>3. CASE ~Answer(r, 500)
        <5>1. status[r] # 200 BY <4>1 DEF BillingInv, AnsweredOnce, Pending
        <5> QED BY <2>7, <4>1, <4>3, <5>1, GotoMoves DEF Store, Stages
      <4> QED BY <4>2, <4>3
    <3>2. Truthful(work[r]) BY <3>1 DEF TruthInv, Answering
    <3>3. EntryOf(r).provider = EntryOf(r).blocks.main BY <3>2 DEF EntryOf, Truthful
    <3>4. \A s \in Verticals \X Queries : cache'[s] # Miss => cache'[s].provider = cache'[s].blocks.main
      BY <3>1, <3>3 DEF TruthInv, TypeOK
    <3> QED BY <3>1, <3>2, <3>4 DEF TruthInv, Answering, TypeOK, Rows
  <2>8. ASSUME NEW r \in Requests, Charge(r) PROVE TruthInv'
    <3>1. UNCHANGED <<cache, usage>> /\ pc[r] = "charge" BY <2>8 DEF Charge
    <3>2. CASE Answer(r, 500) BY <2>1, <3>1, <3>2 DEF Codes
    <3>3. CASE ~Answer(r, 500)
      <4>1. UNCHANGED <<work, status>> /\ Goto(r, "log") BY <2>8, <3>3 DEF Charge
      <4> QED BY <2>2, <3>1, <4>1 DEF TruthInv, Answering, Stages
    <3> QED BY <3>2, <3>3
  <2>9. ASSUME NEW r \in Requests, Log(r) PROVE TruthInv'
    <3>1. /\ pc[r] = "log" /\ pc'[r] = "reply" /\ UNCHANGED <<cache, work, status>>
          /\ \A s \in Requests \ {r} : pc'[s] = pc[s]
          /\ usage' \subseteq usage \cup {RowOf(r)}
      BY <2>9, GotoMoves DEF Log, Stages
    <3>2. Truthful(work[r]) BY <3>1 DEF TruthInv, Answering
    <3>3. \A row \in usage : row.req \in Requests /\ row.req # r
      BY <3>1 DEF BillingInv, RowsLate, TypeOK, Rows
    <3>4. RowOf(r).req = r /\ RowOf(r).provider = work[r].source /\ RowOf(r).cached = work[r].hit
      BY DEF RowOf
    <3> QED BY <3>1, <3>2, <3>3, <3>4 DEF TruthInv, Answering
  <2>10. ASSUME NEW r \in Requests, Finish(r) PROVE TruthInv'
    <3>1. PICK code \in {200, 500} : Answer(r, code) BY <2>10 DEF Finish, Validation
    <3>2. /\ pc[r] = "reply" /\ pc'[r] = "done" /\ status'[r] = code /\ UNCHANGED <<cache, usage>>
          /\ \A s \in Requests \ {r} : pc'[s] = pc[s] /\ status'[s] = status[s] /\ work'[s] = work[s]
          /\ code = 200 => work'[r] = work[r]
      BY <2>10, <3>1, AnswerMoves DEF Finish, Answer, Codes, TypeOK
    <3>3. Truthful(work[r]) BY <3>2 DEF TruthInv, Answering
    <3>4. \A row \in usage : row.req = r =>
             row.provider = work[r].source /\ row.cached = work[r].hit
      BY <3>2 DEF TruthInv
    <3> QED BY <3>1, <3>2, <3>3, <3>4 DEF TruthInv, Answering, TypeOK, Rows
  <2>11. ASSUME \/ \E k \in Keys : OperatorTopUp(k) \/ Deactivate(k)
                \/ UNCHANGED vars
         PROVE TruthInv'
    BY <2>11 DEF OperatorTopUp, Deactivate, vars, requestVars, TruthInv
  <2>12. ASSUME NEW s \in Verticals \X Queries, Expire(s) PROVE TruthInv'
    BY <2>12 DEF Expire, requestVars, TruthInv, TypeOK
  <2>13. ASSUME Restart PROVE TruthInv'
    <3>1. /\ UNCHANGED <<cache, usage>>
          /\ \A s \in Requests :
                /\ pc[s] \in InFlight => pc'[s] = "done" /\ status'[s] = Lost
                /\ pc[s] \notin InFlight =>
                      pc'[s] = pc[s] /\ status'[s] = status[s] /\ work'[s] = work[s]
      BY <2>13 DEF Restart
    <3>2. \A row \in usage : row.req \in Requests BY DEF TypeOK, Rows
    <3> QED BY <3>1, <3>2 DEF TruthInv, Answering, InFlight, Stages, Lost
  <2> QED BY <2>3, <2>4, <2>5, <2>6, <2>7, <2>8, <2>9, <2>10, <2>11, <2>12, <2>13
          DEF Next, Step, Environment
<1> QED BY <1>1, <1>2

(* usage_log and providersUsed of every served request name who produced what it was served. *)
THEOREM AuditTruthful == Spec => []ServedTruthfully
<1>1. TypeOK /\ TruthInv => ServedTruthfully
  BY DEF TypeOK, TruthInv, ServedTruthfully, Truthful, Rows
<1> QED BY <1>1, TypeCorrect, BillingHolds, TruthInductive, PTL DEF Spec

-----------------------------------------------------------------------------
(* The end of a request *)

(* After its charge only a request's own last two steps, or the end of the process, move it. *)
LEMMA OwnStepOnly ==
    ASSUME TypeOK, [Next]_vars, NEW r \in Requests, pc[r] \in {"log", "reply"},
           ~Log(r), ~Finish(r), ~Restart
    PROVE pc'[r] = pc[r]
<1>1. ASSUME NEW s \in Requests, Arrive(s) PROVE pc'[r] = pc[r]
  BY <1>1 DEF Arrive, Goto, TypeOK
<1>2. ASSUME NEW s \in Requests, Step(s), s # r PROVE pc'[r] = pc[r]
  BY <1>2 DEF Step, Authenticate, Gate, Limit, Lookup, Call, Fallthrough, Enrich, Store, Charge,
     Log, Finish, StoreUnavailable, Answer, Goto, TypeOK
<1>3. ~Step(r)
  BY DEF Step, Authenticate, Gate, Limit, Lookup, Call, Fallthrough, Enrich, Store, Charge,
     StoreUnavailable
<1>4. CASE UNCHANGED vars \/ (Environment /\ ~Restart)
  BY <1>4 DEF vars, Environment, OperatorTopUp, Deactivate, Expire, requestVars
<1> QED BY <1>1, <1>2, <1>3, <1>4 DEF Next, Environment

(* A request that has been charged, or let off, and whose blocks fit the response model is served
   unless its process dies, whatever becomes of its usage row (verticals.py handle_vertical). *)
THEOREM PaidIsServed == Spec => PaidForIsServed
<1> DEFINE Served(r) ==
      pc[r] \in {"log", "reply"} /\ WellFormed(work[r].blocks) =>
          pc'[r] \in {"log", "reply"} \/ status'[r] \in {200, Lost}
<1>1. TypeOK /\ [Next]_vars => [\A r \in Requests : Served(r)]_vars
  <2> SUFFICES ASSUME TypeOK, [Next]_vars, NEW r \in Requests, pc[r] \in {"log", "reply"},
                      WellFormed(work[r].blocks)
               PROVE pc'[r] \in {"log", "reply"} \/ status'[r] \in {200, Lost}
    OBVIOUS
  <2>1. CASE Log(r) BY <2>1, GotoMoves DEF Log, Stages
  <2>2. CASE Finish(r) BY <2>2, AnswerMoves DEF Finish, Validation, Codes
  <2>3. CASE Restart BY <2>3 DEF Restart, InFlight, Stages
  <2> QED BY <2>1, <2>2, <2>3, OwnStepOnly
<1> QED BY <1>1, TypeCorrect, PTL DEF Spec, PaidForIsServed
=============================================================================
