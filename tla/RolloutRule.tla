----------------------------- MODULE RolloutRule -----------------------------
(***************************************************************************)
(* From the events of a paired benchmark to a rollout rule per task type:  *)
(* pairing and segment metrics (analytics.py, metrics.py), the Wilson      *)
(* interval, the choice of a mode (policy.py), and what the doctor and the *)
(* evidence audit make of the same events.  Pure operators over sets of    *)
(* events; no state.                                                       *)
(*                                                                         *)
(* What is simplified: an event keeps what the rules read (all turns are   *)
(* terminal here, no code ever sets silent_failure); the interval is in    *)
(* thousandths, its square root rounded down; of a rule only the mode and  *)
(* its segment are kept, not the reasons; the one dimension a policy is    *)
(* made of is task_type.                                                   *)
(***************************************************************************)
EXTENDS Integers, FiniteSets, FiniteSetsExt

CONSTANTS
  Tasks,                 \* the task ids of the manifest
  TaskType,              \* [Tasks -> STRING]
  MinimumPairedTasks,
  MaximumDegradation,    \* the rates of PolicyThresholds, in thousandths
  MinimumImprovement,
  MaximumFallbackRate,
  MaximumLatencyIncrease

ASSUME RolloutRuleAssumption ==
  /\ IsFiniteSet(Tasks)
  /\ TaskType \in [Tasks -> STRING]
  /\ MinimumPairedTasks \in Nat \ {0}
  /\ {MaximumDegradation, MinimumImprovement, MaximumFallbackRate,
      MaximumLatencyIncrease} \subseteq Nat

Types == {TaskType[t] : t \in Tasks}
Arms == {"baseline", "compressed"}
Modes == {"off", "conservative", "balanced"}
-----------------------------------------------------------------------------
(* Pairing and metrics *)

\* The tasks of a type of which both arms are there.
Paired(E, type) ==
  {t \in Tasks : TaskType[t] = type /\
     \A arm \in Arms : \E e \in E : e.task = t /\ e.arm = arm}

\* The paired rows of one arm of a segment.
Rows(E, type, arm) == {e \in E : e.task \in Paired(E, type) /\ e.arm = arm}

Successes(rows) == Cardinality({e \in rows : e.success})
TotalCost(rows) == MapThenSumSet(LAMBDA e : e.cost, rows)

\* The latency at index int((n - 1) * 0.95) of the sorted latencies.
P95(rows) ==
  LET index == ((Cardinality(rows) - 1) * 95) \div 100
  IN  Min({e.latency : e \in {f \in rows :
             Cardinality({g \in rows : g.latency <= f.latency}) > index}})

\* The square root of x, rounded down.
Root(x) == CHOOSE r \in 0..x : r * r <= x /\ x < (r + 1) * (r + 1)

\* _wilson for s successes of n with z = 1.96: center and margin before they
\* are divided by the denominator, and the interval, all in thousandths.
Center(s) == 1000 * s + 1921
Radicand(s, n) == (1000000 * s * (n - s)) \div n + 960400
Margin(s, n) == (1960 * Root(Radicand(s, n))) \div 1000
Over(x, n) == (1000 * x) \div (1000 * n + 3842)

WilsonOf(s, n) ==
  [low  |-> Max({0, Over(Center(s) - Margin(s, n), n)}),
   high |-> Min({1000, Over(Center(s) + Margin(s, n), n)})]

\* An arm of a segment has at most one event of a task.
Wilson == [n \in 1..Cardinality(Tasks) |-> [s \in 0..n |-> WilsonOf(s, n)]]

\* _success_difference_interval, its lower end.
SuccessDeltaLow(baseline, compressed) ==
  Wilson[Cardinality(compressed)][Successes(compressed)].low
    - Wilson[Cardinality(baseline)][Successes(baseline)].high

\* cost_improvement_rate is at least its threshold, with b and c the costs
\* per success: (b - c) / b.  It is 0 when the baseline never succeeded or
\* was free (_safe_improvement).
CostImproves(baseline, compressed) ==
  LET b == TotalCost(baseline)
      c == TotalCost(compressed)
  IN  /\ Successes(baseline) > 0 /\ b > 0
      /\ 1000 * (b * Successes(compressed) - c * Successes(baseline))
           >= MinimumImprovement * b * Successes(compressed)

FallbackHigh(rows) ==
  1000 * Cardinality({e \in rows : e.fallback}) > MaximumFallbackRate * Cardinality(rows)

\* What the rule reads of a segment (SegmentResult).
Segment(E, type) ==
  LET baseline == Rows(E, type, "baseline")
      compressed == Rows(E, type, "compressed")
  IN  [value        |-> type,
       pairedTasks  |-> Cardinality(Paired(E, type)),
       deltaLow     |-> SuccessDeltaLow(baseline, compressed),
       costDefined  |-> Successes(compressed) > 0,
       costImproves |-> CostImproves(baseline, compressed),
       latencyDelta |-> P95(compressed) - P95(baseline),
       fallbackHigh |-> FallbackHigh(compressed)]

\* The types that have a segment.
Segments(E) == {type \in Types : Paired(E, type) # {}}
-----------------------------------------------------------------------------
(* The rules *)

Blocked(segment) ==
  \/ segment.pairedTasks < MinimumPairedTasks
  \/ segment.deltaLow < -MaximumDegradation
  \/ ~segment.costDefined
  \/ ~segment.costImproves

Cautious(segment) ==
  \/ segment.latencyDelta > MaximumLatencyIncrease
  \/ segment.fallbackHigh

RiskSensitive == {"edit_critical", "intent_pivot"}

\* Mutant: cautions are looked at before blockers.
SelectModeCautionsFirst(segment) ==
  CASE Cautious(segment) -> "conservative"
    [] ~Cautious(segment) /\ Blocked(segment) -> "off"
    [] OTHER -> IF segment.value \in RiskSensitive THEN "conservative" ELSE "balanced"

\* _select_mode
SelectMode(segment) ==
  CASE Blocked(segment) -> "off"
    [] ~Blocked(segment) /\ (Cautious(segment) \/ segment.value \in RiskSensitive)
         -> "conservative"
    [] OTHER -> "balanced"

\* generate_rollout_policy.  The events stand for the metrics that the rules
\* of a policy file carry.
Policy(E, label) ==
  LET modes == [type \in Segments(E) |-> SelectMode(Segment(E, type))]
  IN  [label   |-> label,
       ready   |-> label = "production" /\ \E type \in Segments(E) : modes[type] # "off",
       modes   |-> modes,
       basis   |-> E]

\* PolicyEngine.mode_for; the default mode of a generated policy is off.
ModeFor(policy, type) ==
  IF policy.ready /\ type \in DOMAIN policy.modes THEN policy.modes[type] ELSE "off"
-----------------------------------------------------------------------------
(* Two other readers of the same events *)

TasksOf(E) == {e.task : e \in E}

\* Mutant: one arm of every task is enough.
DoctorPassesAnyArm(E) == E # {}

\* run_doctor: there are events, and every task has both arms.
DoctorPasses(E) ==
  /\ E # {}
  /\ \A t \in TasksOf(E) : \A arm \in Arms : \E e \in E : e.task = t /\ e.arm = arm

\* run_doctor: events with the identity of another.
Duplicates(E) == Cardinality(E) - Cardinality({<<e.task, e.arm>> : e \in E})

\* audit_evidence: the pairs of a segment.
AuditPairs(E, type) ==
  LET rows == {e \in E : TaskType[e.task] = type}
      arms(t) == {e.arm : e \in {f \in rows : f.task = t}}
  IN  Cardinality({t \in TasksOf(rows) : Arms \subseteq arms(t)})
=============================================================================
