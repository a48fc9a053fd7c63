------------------------- MODULE StatsEndpointProofs -------------------------
(***************************************************************************)
(* Proofs about StatsEndpoint.tla: the handler only reads, so the proxy    *)
(* beside it behaves as it does alone, and a report that counts budget     *)
(* bypasses shows the gate that made them, for any workers and faults.     *)
(***************************************************************************)
EXTENDS StatsEndpoint, SafeProxyProofs

\* A bypass for an exceeded budget, counted or about to be, was decided by a
\* gate that had observed the budget exceeded and still has.
BypassInv ==
  /\ tel["overbudget"] > 0 => BudgetObserved
  /\ \A w \in Workers : pc[w] = "bypass" /\ note[w] = "overbudget" => BudgetObserved

\* The sections of a report are those of SectionOrder, in order.
InOrder ==
  /\ report \in Seq([section : {"telemetry", "eligibility", "context_store"},
                     claim   : BOOLEAN])
  /\ \A i \in 1..Len(report) : i <= 3 /\ report[i].section = SectionOrder[i]

\* What a report claims of the counters, the gate still explains.
ClaimsLast ==
  \A i \in 1..Len(report) :
    report[i].section = "telemetry" /\ report[i].claim => BudgetObserved

ReportInv == InOrder /\ ClaimsLast /\ ReportExplainsBypasses

\* The handler changes nothing the proxy reads, so every behaviour of the two
\* is a behaviour of the proxy (safety_stats, safe_proxy.py:398-402).
THEOREM StatsOnlyReads == StatsSpec => Spec
<1>1. StatsInit => Init
  BY DEF StatsInit
<1>2. [StatsNext]_allVars => [Next]_vars
  BY DEF StatsNext, AskStats, ReadSection, ReturnStats, ProxyStep, Next, allVars
<1> QED
  BY <1>1, <1>2, PTL DEF StatsSpec, Spec

\* An observed budget is forgotten only by a restart.
LEMMA StillObserved ==
  ASSUME TypeOK, [Next]_vars, ~Restart, BudgetObserved
  PROVE  BudgetObserved'
<1>1. CASE UNCHANGED gateVars
  BY <1>1 DEF BudgetObserved, gateVars
<1>2. CASE \E w \in Workers, ms \in Latencies :
             Observe(w) /\ ~hit[w] /\ ObserveUncached(ms)
  BY <1>2, ObserveLatches
<1> QED
  BY <1>1, <1>2, GateSteps

\* Every counted budget bypass has an exceeded gate behind it.
LEMMA BypassInductive ==
  ASSUME TypeOK, SafetyInv, BypassInv, [Next]_vars
  PROVE  BypassInv'
<1>1. CASE Restart
  BY <1>1 DEF Restart, BypassInv, ZeroCounters, Counters
<1>2. CASE ~Restart
  <2>1. BudgetObserved => BudgetObserved'
    BY <1>2, StillObserved
  <2>2. tel'["overbudget"] > 0 => BudgetObserved'
    <3>1. "overbudget" \in Counters
      BY DEF Counters
    <3>2. ASSUME NEW w \in Workers, WorkerStep(w), tel' # tel
          PROVE  tel'["overbudget"] = tel["overbudget"] \/ BudgetObserved
      <4>1. CASE ReturnBypass(w)
        <5>1. Bump({"total", "skipped", "bypasses", note[w]}) /\ pc[w] = "bypass"
          BY <4>1 DEF ReturnBypass, RecordEligibilityBypass, Return, Goto
        <5>2. CASE note[w] = "overbudget"
          BY <5>1, <5>2 DEF BypassInv
        <5>3. CASE note[w] # "overbudget"
          BY <5>1, <5>3, <3>1, BumpValue
        <5> QED
          BY <5>2, <5>3
      <4>2. CASE ReturnSkipped(w) \/ ReturnPass(w) \/ ReturnFallback(w)
        <5>1. PICK S : Bump(S) /\ "overbudget" \notin S
          BY <4>2 DEF ReturnSkipped, RecordSkip, ReturnPass, RecordPass, ReturnFallback,
                      RecordFallback, HitCounter
        <5> QED
          BY <5>1, <3>1, BumpValue
      <4>3. ReturnBypass(w) \/ ReturnSkipped(w) \/ ReturnPass(w) \/ ReturnFallback(w)
        BY <3>2 DEF WorkerStep, FirstLookup, Admit, Bypass, SecondLookup,
             ModelAnswers, ModelSkips, CacheResult, Observe, Reject,
             InvalidateRejected, StorageRaises
      <4> QED
        BY <4>1, <4>2, <4>3
    <3>3. tel' = tel \/ \E w \in Workers : WorkerStep(w)
      BY <1>2 DEF Next, Begin, Expire, Outage, vars
    <3> QED
      BY <2>1, <3>2, <3>3 DEF BypassInv
  <2>3. ASSUME NEW w \in Workers, pc'[w] = "bypass", note'[w] = "overbudget"
        PROVE  BudgetObserved'
    <3>1. CASE pc[w] = "bypass" /\ note[w] = "overbudget"
      BY <2>1, <3>1 DEF BypassInv
    <3>2. CASE Bypass(w)
      <4>1. note'[w] = ReasonFor(job[w].content, hit[w])
        BY <3>2 DEF Bypass, Reason, TypeOK
      <4>2. BudgetObserved
        BY <2>3, <4>1 DEF ReasonFor, TypeOK
      <4> QED
        BY <2>1, <4>2
    <3>3. ASSUME NEW v \in Workers, Begin(v) \/ WorkerStep(v), ~Bypass(w)
          PROVE  pc[w] = "bypass" /\ note[w] = "overbudget"
      BY <2>3, <3>3 DEF TypeOK, Begin, WorkerStep, FirstLookup, Admit, Bypass, ReturnBypass,
         SecondLookup, ModelAnswers, ModelSkips, CacheResult, Observe, ReturnSkipped,
         ReturnPass, Reject, InvalidateRejected, ReturnFallback, StorageRaises,
         Return, Goto, localVars
    <3>4. CASE (\E k \in Keys : Expire(k)) \/ Outage \/ UNCHANGED vars
      BY <2>3, <3>4, <2>1 DEF Expire, Outage, vars, localVars, BypassInv
    <3> QED
      BY <1>2, <3>1, <3>2, <3>3, <3>4 DEF Next
  <2> QED
    BY <2>2, <2>3 DEF BypassInv
<1> QED
  BY <1>1, <1>2

\* A report with nothing in it claims nothing.
LEMMA EmptyReport ==
  ASSUME NEW r, r = << >>
  PROVE  r \in Seq([section : {"telemetry", "eligibility", "context_store"},
                    claim : BOOLEAN]) /\ 1..Len(r) = {} /\ DOMAIN r = {}
  OBVIOUS

\* Reading the next section keeps the report in order and explained.
LEMMA ReadExplains ==
  ASSUME TypeOK, BypassInv, ReportInv, ReadSection
  PROVE  ReportInv'
<1> DEFINE n == Len(report)
           s == Section(SectionOrder[n + 1])
<1>1. /\ n \in 0..2 /\ report' = Append(report, s) /\ UNCHANGED vars
      /\ report \in Seq([section : {"telemetry", "eligibility", "context_store"},
                         claim   : BOOLEAN])
  <2>1. report \in Seq([section : {"telemetry", "eligibility", "context_store"},
                        claim   : BOOLEAN])
    BY DEF ReportInv, InOrder
  <2>2. Len(SectionOrder) = 3
    BY DEF SectionOrder
  <2>3. n \in Nat /\ n < 3
    BY <2>1, <2>2 DEF ReadSection
  <2>4. report' = Append(report, s) /\ UNCHANGED vars
    BY DEF ReadSection
  <2> HIDE DEF n, s
  <2>5. n \in 0..2
    BY <2>3
  <2> QED
    BY <2>1, <2>4, <2>5
<1>2. /\ s.section = SectionOrder[n + 1]
      /\ s \in [section : {"telemetry", "eligibility", "context_store"}, claim : BOOLEAN]
      /\ s.section = "telemetry" => (s.claim <=> tel["overbudget"] > 0)
      /\ s.section = "eligibility" => (s.claim <=> BudgetObserved)
  <2>1. SectionOrder[n + 1] \in {"telemetry", "eligibility", "context_store"}
    BY <1>1 DEF SectionOrder
  <2>2. PICK q \in {"telemetry", "eligibility", "context_store"} : q = SectionOrder[n + 1]
    BY <2>1
  <2> DEFINE bypassed == tel["overbudget"] > 0
  <2>3. /\ q = "telemetry" => s = [section |-> q, claim |-> bypassed]
        /\ q = "eligibility" => s = [section |-> q, claim |-> BudgetObserved]
        /\ q = "context_store" => s = [section |-> q, claim |-> storeUp]
    BY <2>2 DEF Section
  <2>4. storeUp \in BOOLEAN /\ BudgetObserved \in BOOLEAN
    BY DEF TypeOK, BudgetObserved
  <2> HIDE DEF s
  <2>5. bypassed \in BOOLEAN /\ (bypassed <=> tel["overbudget"] > 0)
    OBVIOUS
  <2> HIDE DEF bypassed
  <2>6. CASE q = "telemetry"
    <3>1. s = [section |-> q, claim |-> bypassed]
      BY <2>3, <2>6
    <3>2. s.section = q /\ s.claim = bypassed
          /\ s \in [section : {"telemetry", "eligibility", "context_store"}, claim : BOOLEAN]
      BY <2>5, <3>1
    <3>3. s.claim <=> tel["overbudget"] > 0
      BY <2>5, <3>2, Zenon
    <3> QED
      BY <2>2, <2>6, <3>2, <3>3, Zenon
  <2>7. CASE q = "eligibility"
    BY <2>2, <2>3, <2>4, <2>7
  <2>8. CASE q = "context_store"
    BY <2>2, <2>3, <2>4, <2>8
  <2> QED
    BY <2>6, <2>7, <2>8
<1> HIDE DEF s
<1>3. /\ Len(report') = n + 1 /\ report'[n + 1] = s
      /\ \A i \in 1..n : report'[i] = report[i]
      /\ report' \in Seq([section : {"telemetry", "eligibility", "context_store"},
                          claim   : BOOLEAN])
  BY <1>1, <1>2
<1> HIDE DEF n
<1>4. \A i \in 1..(n + 1) : i = n + 1 \/ i \in 1..n
  BY <1>1
<1>5. BudgetObserved' = BudgetObserved
  BY <1>1 DEF BudgetObserved, vars, gateVars
<1>6. InOrder'
  BY <1>1, <1>2, <1>3, <1>4 DEF ReportInv, InOrder, SectionOrder, n
<1>7. ClaimsLast'
  BY <1>2, <1>3, <1>4, <1>5 DEF ReportInv, ClaimsLast, BypassInv, n
<1>8. ReportExplainsBypasses'
  <2> SUFFICES ASSUME NEW i \in 1..(n + 1), NEW j \in 1..(n + 1),
                      report'[i].section = "telemetry", report'[i].claim,
                      report'[j].section = "eligibility"
               PROVE  report'[j].claim
    BY <1>3 DEF ReportExplainsBypasses
  <2>1. BudgetObserved
    BY <1>3, <1>7, <1>5 DEF ClaimsLast
  <2>2. CASE j = n + 1
    BY <1>2, <1>3, <2>1, <2>2
  <2>3. CASE j \in 1..n
    <3>1. i # n + 1
      BY <1>1, <1>2, <1>3, <1>6, <2>3 DEF InOrder, SectionOrder
    <3>2. i \in 1..n /\ DOMAIN report = 1..n
      BY <1>1, <1>4, <3>1 DEF n
    <3> QED
      BY <1>3, <2>3, <3>2 DEF ReportInv, ReportExplainsBypasses
  <2> QED
    BY <1>4, <2>2, <2>3
<1> QED
  BY <1>6, <1>7, <1>8 DEF ReportInv

\* Whatever the workers do between its reads, a report that counts bypasses
\* for an exceeded budget shows the gate that exceeded it.
THEOREM ReportsExplain == StatsSpec => []ReportExplainsBypasses
<1>1. StatsInit => BypassInv /\ ReportInv
  <2> SUFFICES ASSUME StatsInit PROVE BypassInv /\ ReportInv
    OBVIOUS
  <2>1. BypassInv
    BY DEF StatsInit, Init, BypassInv, ZeroCounters, Counters
  <2>2. ReportInv
    BY EmptyReport DEF StatsInit, ReportInv, InOrder, ClaimsLast, ReportExplainsBypasses
  <2> QED
    BY <2>1, <2>2
<1>2. TypeOK /\ SafetyInv /\ BypassInv /\ ReportInv /\ [StatsNext]_allVars
        => BypassInv' /\ ReportInv'
  <2> SUFFICES ASSUME TypeOK, SafetyInv, BypassInv, ReportInv, [StatsNext]_allVars
               PROVE  BypassInv' /\ ReportInv'
    OBVIOUS
  <2>1. [Next]_vars
    BY DEF StatsNext, AskStats, ReadSection, ReturnStats, ProxyStep, Next, allVars
  <2>2. BypassInv'
    BY <2>1, BypassInductive
  <2>3. ReportInv'
    <3>1. CASE report' = << >>
      BY <3>1, EmptyReport DEF ReportInv, InOrder, ClaimsLast, ReportExplainsBypasses
    <3>2. CASE ReadSection
      BY <3>2, ReadExplains
    <3>3. CASE report' = report /\ ~Restart
      <4>1. BudgetObserved => BudgetObserved'
        BY <2>1, <3>3, StillObserved
      <4> QED
        BY <3>3, <4>1 DEF ReportInv, InOrder, ClaimsLast, ReportExplainsBypasses
    <3>4. CASE report' = report /\ UNCHANGED vars
      BY <3>4 DEF ReportInv, InOrder, ClaimsLast, ReportExplainsBypasses, BudgetObserved,
                  vars, gateVars
    <3> QED
      BY <3>1, <3>2, <3>3, <3>4
         DEF StatsNext, AskStats, ReturnStats, ProxyStep, allVars, statsVars
  <2> QED
    BY <2>2, <2>3
<1>3. ReportInv => ReportExplainsBypasses
  BY DEF ReportInv
<1>4. StatsSpec => []TypeOK /\ []SafetyInv
  BY StatsOnlyReads, TypeCorrect, SafetyInvariant, PTL
<1> QED
  BY <1>1, <1>2, <1>3, <1>4, PTL DEF StatsSpec
=============================================================================
