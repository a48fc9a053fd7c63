--------------------------- MODULE RolloutPipeline ---------------------------
(***************************************************************************)
(* From a paired benchmark to the mode a runtime uses: a benchmark appends *)
(* the events of its runs, directly (cli.py, run_offline) or by way of a   *)
(* .partial file (run_live); an analyst's command turns the events file    *)
(* into a policy, a dashboard, a report and a lineage manifest (run_policy,*)
(* run_phase2).  The benchmark and the analyst run beside each other, and  *)
(* each can die anywhere and be run again over what it left.  A            *)
(* PolicyEngine answers from the policy file as it was at some instant, so *)
(* what holds of every policy file holds of every engine.                  *)
(*                                                                         *)
(* What is simplified: a file is its contents and its SHA-256 is its       *)
(* contents; a line is appended whole; a file that is emptied and written  *)
(* is torn only if the command dies meanwhile, since whoever reads it in   *)
(* between fails; the report, drawn like the dashboard and written next,   *)
(* is left out; a context is sent in a size class.  One benchmark and one  *)
(* analyst at a time.  run_live's gates and manifest are in LiveRun.       *)
(* Bound: Budget caps the benchmarks, the reports and the answers that     *)
(* deviate from the one hoped for, all together.                           *)
(***************************************************************************)
EXTENDS RolloutRule, Sequences

CONSTANTS
  Manifest,      \* the tasks in their order
  ExecutorModes, \* the modes a DualArmExecutor is built with
  Budget,        \* bound on commands and deviating answers together
  Torn,          \* a file whose writer died
  None

ASSUME RolloutPipelineAssumption ==
  /\ Manifest \in Seq(Tasks)
  /\ \A i, j \in DOMAIN Manifest : Manifest[i] = Manifest[j] => i = j  \* load_benchmark_cases
  /\ ExecutorModes \subseteq Modes
  /\ Budget \in Nat

Kinds == {"offline", "live"}
Outputs == {"policy", "dashboard", "lineage"}
Labels == {"production", "offline"}

Events == [run : 1..Budget, task : Tasks, arm : Arms, success : BOOLEAN,
           cost : Nat, latency : Nat, fallback : BOOLEAN]
Files == [lines : SUBSET Events]
Policies == [label : Labels, ready : BOOLEAN,
             modes : UNION {[S -> Modes] : S \in SUBSET Types}, basis : SUBSET Events]
Lineages == [label : Labels, events : SUBSET Events,
             outputs : [Outputs \ {"lineage"} -> Policies], moved : BOOLEAN]
Benches == [kind : Kinds, mode : Modes \cup {None}, todo : Seq(Tasks),
            arms : (SUBSET Arms) \ {{}}]

ASSUME NoneAssumption ==
  /\ None \notin Files /\ None \notin Lineages /\ None \notin Benches
  /\ Torn \notin Lineages

VARIABLES
  events,     \* the events file, None when absent
  partial,    \* the .partial file of a live run
  bench,      \* the benchmark in progress, or None
  outputs,    \* the files of the analyst
  analyst,    \* the command in progress, or None
  runs,       \* history: benchmarks, of which each event names its own
  whole,      \* history: the live runs that were published
  reports,    \* history: commands of the analyst
  label,      \* the evidence label the analyst gives, an argument of theirs
  surprises,  \* history: answers that deviated
  described   \* history: the last command to write an output was a run_phase2
              \* that returned 0

benching == <<events, partial, bench, runs, whole, surprises>>
analysing == <<outputs, analyst, reports, label, described>>
vars == <<benching, analysing>>

LinesOf(file) == IF file = None THEN {} ELSE file.lines
EventsRead == LinesOf(events)
-----------------------------------------------------------------------------
(* One arm of a task *)

\* settings_for
Enabled(mode, type) ==
  CASE mode = "off"          -> FALSE
    [] mode = "conservative" -> type # "edit_critical"
    [] mode = "balanced"     -> TRUE
MaximumTokenRatio(mode) == IF mode = "conservative" THEN 85 ELSE 105

\* Tokens of a context, of 100: sent whole, well or barely compressed, or
\* grown.
Tokens == [original |-> 100, small |-> 40, near |-> 97, grown |-> 110]

\* What a compressor answers: a size, and whether every required signal is
\* still there; or it raises.
Compressions == [size : {"small", "near", "grown"}, kept : BOOLEAN]

\* validate_or_fallback, with the ratio of the mode.
Accepted(mode, c) == c.kept /\ Tokens[c.size] <= MaximumTokenRatio(mode)

Hoped == [size |-> "small", kept |-> TRUE]

\* The event of an arm: what was sent, what the compressor cost, whether it
\* fell back; and the agent's answer.  odd counts the deviations.
Answered(task, arm, sent, success, slow) ==
  [event |-> [run |-> runs, task |-> task, arm |-> arm, success |-> success,
              cost |-> Tokens[sent.size] + sent.extra,
              latency |-> IF slow THEN 700 ELSE 100, fallback |-> sent.fallback],
   odd   |-> sent.odd + (IF success THEN 0 ELSE 1) + (IF slow THEN 1 ELSE 0)]

\* DualArmExecutor: the contexts it may send, before the agent answers.
Sent(mode, task, arm) ==
  IF arm = "baseline" \/ ~Enabled(mode, TaskType[task])
    THEN {[size |-> "original", extra |-> 0, fallback |-> FALSE, odd |-> 0]}
    ELSE {[size     |-> IF Accepted(mode, c) THEN c.size ELSE "original",
           extra    |-> 1,
           fallback |-> ~Accepted(mode, c),
           odd      |-> IF c = Hoped THEN 0 ELSE 1] : c \in Compressions}
         \cup {[size |-> "original", extra |-> 0, fallback |-> TRUE, odd |-> 1]}

\* ProxyPairedExecutor: the proxy compresses or not; nothing is a fallback.
SentLive(arm) ==
  {[size |-> "original", extra |-> 0, fallback |-> FALSE,
    odd |-> IF arm = "baseline" THEN 0 ELSE 1]}
  \cup (IF arm = "baseline" THEN {}
        ELSE {[size |-> "small", extra |-> 0, fallback |-> FALSE, odd |-> 0]})

Answers(task, arm) ==
  LET sendings == IF bench.kind = "live" THEN SentLive(arm) ELSE Sent(bench.mode, task, arm)
      slowness == IF arm = "baseline" THEN {FALSE} ELSE BOOLEAN
  IN  {Answered(task, arm, o[1], o[2], o[3]) : o \in sendings \X BOOLEAN \X slowness}
-----------------------------------------------------------------------------
(* The benchmark *)

Bench(kind, mode) ==
  [kind |-> kind, mode |-> mode, todo |-> Manifest, arms |-> Arms]

\* Mutant: the events of the run before are kept.
StartKeepsEvents ==
  /\ bench = None /\ runs + reports + surprises < Budget
  /\ runs' = runs + 1
  /\ \/ /\ \E mode \in ExecutorModes : bench' = Bench("offline", mode)
        /\ UNCHANGED <<events, partial>>
     \/ /\ bench' = Bench("live", None)
        /\ partial' = None
        /\ UNCHANGED events
  /\ UNCHANGED <<whole, surprises, analysing>>

\* An offline run removes the events file, a live one its .partial file.
Start ==
  /\ bench = None /\ runs + reports + surprises < Budget
  /\ runs' = runs + 1
  /\ \/ /\ \E mode \in ExecutorModes : bench' = Bench("offline", mode)
        /\ events' = None
        /\ UNCHANGED partial
     \/ /\ bench' = Bench("live", None)
        /\ partial' = None
        /\ UNCHANGED events
  /\ UNCHANGED <<whole, surprises, analysing>>

Appended(file, e) == [lines |-> LinesOf(file) \cup {e}]

\* Mutant: the arms are listed once for all tasks.
ExecuteArmsOnce(arm) ==
  /\ bench # None /\ bench.todo # << >> /\ arm \in bench.arms
  /\ \E a \in Answers(Head(bench.todo), arm) :
       /\ runs + reports + surprises + a.odd <= Budget
       /\ surprises' = surprises + a.odd
       /\ IF bench.kind = "offline"
            THEN events' = Appended(events, a.event) /\ UNCHANGED partial
            ELSE partial' = Appended(partial, a.event) /\ UNCHANGED events
  /\ bench' = [bench EXCEPT !.arms = @ \ {arm},
                            !.todo = IF bench.arms = {arm} THEN Tail(@) ELSE @]
  /\ UNCHANGED <<runs, whole, analysing>>

\* The arms of a task in either order; the event is written at once.
Execute(arm) ==
  /\ bench # None /\ bench.todo # << >> /\ arm \in bench.arms
  /\ \E a \in Answers(Head(bench.todo), arm) :
       /\ runs + reports + surprises + a.odd <= Budget
       /\ surprises' = surprises + a.odd
       /\ IF bench.kind = "offline"
            THEN events' = Appended(events, a.event) /\ UNCHANGED partial
            ELSE partial' = Appended(partial, a.event) /\ UNCHANGED events
  /\ bench' = IF bench.arms = {arm}
                THEN [bench EXCEPT !.todo = Tail(@), !.arms = Arms]
                ELSE [bench EXCEPT !.arms = @ \ {arm}]
  /\ UNCHANGED <<runs, whole, analysing>>

\* An offline run reads its events back and reports; a live one publishes
\* them with replace.
Complete ==
  /\ bench # None /\ bench.todo = << >>
  /\ bench' = None
  /\ IF bench.kind = "offline"
       THEN UNCHANGED <<events, partial, whole>>
       ELSE /\ events' = partial
            /\ partial' = None
            /\ whole' = whole \cup {runs}
  /\ UNCHANGED <<runs, surprises, analysing>>

\* An exception of the agent, or a crash; the files stay.
BenchDies ==
  /\ bench # None
  /\ bench' = None
  /\ UNCHANGED <<events, partial, runs, whole, surprises, analysing>>
-----------------------------------------------------------------------------
(* The analyst *)

\* Mutant: the lineage is hashed before the other files are written.
Phase2HashFirst ==
  <<"hash", "policy", "dashboard", "lineage">>

\* run_phase2, after it has read the events and made the policy.
Phase2 == <<"policy", "dashboard", "hash", "lineage">>

\* run_phase2 reads the events and makes the policy; run_policy is its
\* beginning.
Invoke ==
  /\ analyst = None /\ runs + reports + surprises < Budget
  /\ reports' = reports + 1
  /\ analyst' = [todo |-> Phase2, policy |-> Policy(EventsRead, label), lineage |-> None]
  /\ UNCHANGED <<outputs, label, described, benching>>

\* Every arm has an event; build_dashboard raises otherwise.
Drawable(E) == {e.arm : e \in E} = Arms

\* The dashboard is drawn from the same events and policy.
Content(f) == IF f = "lineage" THEN analyst.lineage ELSE analyst.policy

Writing(f) == analyst # None /\ Head(analyst.todo) = f

\* The command returns after its last step.
Advance(command) ==
  analyst' = IF Len(analyst.todo) = 1 THEN None ELSE [command EXCEPT !.todo = Tail(@)]

\* write_text
Write(f) ==
  /\ Writing(f)
  /\ f = "dashboard" => Drawable(analyst.policy.basis)
  /\ outputs' = [outputs EXCEPT ![f] = Content(f)]
  /\ described' = (f = "lineage")
  /\ Advance(analyst)
  /\ UNCHANGED <<reports, label, benching>>

\* _sha256 of the events file, as it is now, and of the outputs.
Hash ==
  /\ Writing("hash")
  /\ events # None
  /\ Advance([analyst EXCEPT
       !.lineage = [label   |-> label,
                    events  |-> EventsRead,
                    outputs |-> [f \in Outputs \ {"lineage"} |-> outputs[f]],
                    moved   |-> EventsRead # analyst.policy.basis]])
  /\ UNCHANGED <<outputs, reports, label, described, benching>>

\* An exception (a dashboard of one arm only, no events file to hash) or a
\* crash: the file being written may be torn.
AnalystDies ==
  /\ analyst # None
  /\ analyst' = None
  /\ \/ UNCHANGED <<outputs, described>>
     \/ /\ Head(analyst.todo) # "hash"
        /\ outputs' = [outputs EXCEPT ![Head(analyst.todo)] = Torn]
        /\ described' = FALSE
  /\ UNCHANGED <<reports, label, benching>>

Init ==
  /\ events = None /\ partial = None
  /\ bench = None
  /\ outputs = [f \in Outputs |-> None]
  /\ analyst = None
  /\ runs = 0 /\ whole = {} /\ reports = 0 /\ surprises = 0
  /\ label \in Labels
  /\ described = FALSE

Next ==
  \/ Start \/ \E arm \in Arms : Execute(arm)
  \/ Complete \/ BenchDies
  \/ Invoke
  \/ \E f \in Outputs : Write(f)
  \/ Hash \/ AnalystDies

Spec == Init /\ [][Next]_vars
-----------------------------------------------------------------------------
(* Properties *)

\* Every variable keeps its type.
TypeOK ==
  /\ events \in Files \cup {None} /\ partial \in Files \cup {None}
  /\ bench \in Benches \cup {None}
  /\ DOMAIN outputs = Outputs
  /\ \A f \in Outputs :
       outputs[f] \in {None, Torn} \cup (IF f = "lineage" THEN Lineages ELSE Policies)
  /\ analyst \in {None} \cup [todo : Seq(Outputs \cup {"hash"}), policy : Policies,
                              lineage : Lineages \cup {None}]
  /\ runs \in 0..Budget /\ whole \subseteq 1..runs /\ reports \in 0..Budget
  /\ surprises \in 0..Budget /\ described \in BOOLEAN

\* A policy file lets a runtime compress a type of task only if it was made
\* from evidence under the label "production", all of one benchmark run and,
\* if that run was live, all of that run, in which enough tasks of this very
\* type ran in both arms and the compressed arm was cheaper per successful
\* task - however benchmark and analyst interleave, die and start again over
\* torn and half-written files (policy.py:40-118; analytics.py:116-177;
\* architecture.md:43, phase-2-acceptance.md:24-25).
EnabledIsJustified ==
  LET policy == outputs["policy"]
      B == policy.basis
      used(type, arm) == {e \in B : /\ TaskType[e.task] = type /\ e.arm = arm
                                    /\ \E f \in B : f.task = e.task /\ f.arm # arm}
      won(rows) == Cardinality({e \in rows : e.success})
      cost(rows) == MapThenSumSet(LAMBDA e : e.cost, rows)
  IN  policy \notin {None, Torn} =>
        \A type \in Types : ModeFor(policy, type) # "off" =>
          LET baseline == used(type, "baseline")
              compressed == used(type, "compressed")
          IN  /\ policy.label = "production"
              /\ \A e, f \in B : e.run = f.run
              /\ \A e \in B : e.run \in whole => Cardinality(B) = 2 * Len(Manifest)
              /\ Cardinality(baseline) >= MinimumPairedTasks
              /\ Cardinality(compressed) >= MinimumPairedTasks
              /\ won(compressed) > 0
              /\ cost(compressed) * won(baseline) < cost(baseline) * won(compressed)

Rank == [off |-> 0, conservative |-> 1, balanced |-> 2]

\* Ways in which a compressed run can go worse.
Worse(e) == {[e EXCEPT !.success = FALSE], [e EXCEPT !.latency = @ + 600],
             [e EXCEPT !.fallback = TRUE], [e EXCEPT !.cost = @ + 60]}

\* Worse evidence never unlocks more: had any one compressed arm of a run that
\* ended or died failed, been slow, fallen back or cost more, the mode of its
\* type would be no higher, although success, cost, latency and fallbacks meet
\* their thresholds separately and one failure moves several of them
\* (policy.py:40-65, analytics.py:75-104, metrics.py:12-49).
WorseNeverUnlocks ==
  \A e \in EventsRead : (bench = None /\ analyst = None /\ e.arm = "compressed") =>
    LET type == TaskType[e.task]
        mode(E) == ModeFor(Policy(E, "production"), type)
    IN  \A w \in Worse(e) :
          Rank[mode((EventsRead \ {e}) \cup {w})] <= Rank[mode(EventsRead)]

\* Three readers that pair the arms of a task on their own agree on every
\* events file, those of dead and unfinished runs included: the audit and the
\* segments count the same pairs, a file the doctor passes has no event that
\* the segments would leave out, and no file holds an arm of a task twice
\* (analytics.py:118-127, evidence.py:72-82, doctor.py:68-89).
PairingsAgree ==
  /\ \A type \in Types : AuditPairs(EventsRead, type) = Cardinality(Paired(EventsRead, type))
  /\ DoctorPasses(EventsRead) =>
       \A e \in EventsRead : e \in Rows(EventsRead, TaskType[e.task], e.arm)
  /\ Duplicates(EventsRead) = 0

\* The lineage manifest tells the truth about the other files.  Once written
\* it matches them until another command writes one; and whenever it matches
\* them, by then perhaps through a dead or a repeated command, both
\* can be made again from the events it names - unless these were
\* replaced while run_phase2 was under way, which reads them for the policy
\* and again for their hash (cli.py:269-324).
LineageDescribes ==
  LET lineage == outputs["lineage"]
      matches == /\ lineage \notin {None, Torn}
                 /\ \A f \in DOMAIN lineage.outputs : lineage.outputs[f] = outputs[f]
  IN  /\ described => matches
      /\ (matches /\ ~lineage.moved) =>
           \A f \in DOMAIN lineage.outputs : outputs[f] = Policy(lineage.events, lineage.label)
=============================================================================
