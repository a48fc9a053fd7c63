------------------------------- MODULE LiveRun -------------------------------
(***************************************************************************)
(* The commands live-session-run (cli.py, run_live_sessions) and live-run  *)
(* (run_live): their gates, the paired arms of every scenario              *)
(* (session_live.py) or case (live.py), the events appended to a .partial  *)
(* file (events.py), its rename, and the manifest that describes it.  A    *)
(* command can die anywhere and either be run again, with another config,  *)
(* over what it left; the safe proxy can be restarted with another cache   *)
(* contract meanwhile.                                                     *)
(*                                                                         *)
(* Both commands are given the same output paths, as their flags allow:    *)
(* with the defaults each has its own, which is a special case.            *)
(*                                                                         *)
(* What is simplified: a file is the sequence of its events, << >> when    *)
(* absent; its SHA-256 is its contents; the metrics of an event are left   *)
(* out.  What SessionAttribution.tla checks of a turn is here one more way *)
(* to die.  The random order of the arms is any order.                     *)
(* Bounds: MaxRuns caps the invocations.                                   *)
(***************************************************************************)
EXTENDS Naturals, Sequences, FiniteSets, Functions

CONSTANTS
  SessionTurns,  \* session_turns of each scenario of the stage, in order
  MaxRuns,       \* bound on the invocations
  Torn,          \* a manifest opened for writing and not yet written
  None

ASSUME LiveRunAssumption ==
  /\ SessionTurns \in Seq(Nat \ {0})
  /\ SessionTurns # << >>
  /\ MaxRuns \in Nat

VARIABLES
  partial,   \* the .partial file
  events,    \* the events file
  manifest,  \* the run manifest, Torn, or None
  served,    \* the cache contract of the running safe proxy
  pc,        \* where the command is; "idle" when it does not run
  conf,      \* its config and flags
  run,       \* history: the invocation
  todo,      \* the arms still to run, as <<scenario, arm>>
  pending,   \* the events of the arm in progress
  snap,      \* the contract in the safety snapshot before the request
  returned,  \* history: the invocations that returned 0
  changed    \* history: those during which the proxy's contract changed

files == <<partial, events, manifest>>
locals == <<conf, todo, pending, snap>>
vars == <<files, served, pc, locals, run, returned, changed>>

Scenarios == DOMAIN SessionTurns
Arms == {"baseline", "compressed"}
SafeContracts == {"disabled", "query_aware"}
Configs == [contract : SafeContracts \cup {"unverified"},
            watched  : BOOLEAN,   \* contextops_safety_stats_url is given
            override : BOOLEAN,   \* --allow-unsafe-query-sensitive-...
            command  : {"live-session-run"}]

\* live-run reads none of these three: one config stands for all.
CaseConfig == [contract |-> "unverified", watched |-> FALSE, override |-> FALSE,
               command |-> "live-run"]

\* The requests of an arm: a case is asked once.
Turns(command, s) == IF command = "live-run" THEN 1 ELSE SessionTurns[s]

-----------------------------------------------------------------------------
(* The gates *)

\* Intermediate and terminal turns ask for different things.
Drift == \E s \in Scenarios : SessionTurns[s] > 1

Verified(c) == c.contract \in SafeContracts

\* decide_cache_safety
Allowed(c) == ~Drift \/ Verified(c) \/ c.override
RolloutEligible(c) == ~Drift \/ Verified(c)

\* Mutant: a verified contract need not be observable.
ObservableAlways(c) == TRUE

\* A verified contract needs the safety endpoint.
Observable(c) == Verified(c) => c.watched

\* Mutant: the health check looks at the status only.
HealthyStatus(c) == TRUE

\* ContextOpsSafetyGateway.health: the observed contract is the expected one.
Healthy(c) == c.watched => served = c.contract

Go(from, to) == pc = from /\ pc' = to

\* The command ends; its memory is gone.
Leave ==
  /\ pc' = "idle"
  /\ conf' = None
  /\ todo' = << >>
  /\ pending' = << >>
  /\ snap' = None

Invoke ==
  /\ run < MaxRuns
  /\ Go("idle", "gates")
  /\ conf' \in Configs \cup {CaseConfig}
  /\ run' = run + 1
  /\ UNCHANGED <<files, served, todo, pending, snap, returned, changed>>

PassGates ==
  /\ Go("gates", "probe")
  /\ conf.command = "live-session-run"
  /\ Allowed(conf) /\ Observable(conf)
  /\ UNCHANGED <<files, served, locals, run, returned, changed>>

\* live-run asks for the confirmation and the key only.
PassCaseGates ==
  /\ Go("gates", "probe")
  /\ conf.command = "live-run"
  /\ UNCHANGED <<files, served, locals, run, returned, changed>>

\* The gates above, or pricing, the cost ceiling, the confirmation, the key.
Refuse ==
  /\ pc = "gates"
  /\ Leave
  /\ UNCHANGED <<files, served, run, returned, changed>>

PassHealth ==
  /\ Go("probe", "clean")
  /\ conf.command = "live-session-run"
  /\ Healthy(conf)
  /\ UNCHANGED <<files, served, locals, run, returned, changed>>

\* live-run has no safety gateway: PariTok and its model must answer, which
\* is no matter of the proxy's contract.  A bad --limit ends it here (Die).
PassCaseHealth ==
  /\ Go("probe", "clean")
  /\ conf.command = "live-run"
  /\ UNCHANGED <<files, served, locals, run, returned, changed>>
-----------------------------------------------------------------------------
(* The paired arms *)

\* Both arms of each scenario, in either order.
Schedules ==
  {[i \in 1..2 * Len(SessionTurns) |->
      LET s == (i + 1) \div 2
      IN  <<s, IF (i % 2 = 1) = first[s] THEN "baseline" ELSE "compressed">>] :
     first \in [Scenarios -> BOOLEAN]}

\* Mutant: the run goes on in the file an aborted run left.
RemovePartialKept ==
  /\ Go("clean", "turn")
  /\ todo' \in Schedules
  /\ UNCHANGED <<files, served, conf, pending, snap, run, returned, changed>>

\* Mutant: the run first removes every output of earlier runs but the events.
RemovePartialAndManifest ==
  /\ Go("clean", "turn")
  /\ partial' = << >>
  /\ manifest' = None
  /\ todo' \in Schedules
  /\ UNCHANGED <<events, served, conf, pending, snap, run, returned, changed>>

\* A leftover of an aborted run is removed before the first event.
RemovePartial ==
  /\ Go("clean", "turn")
  /\ partial' = << >>
  /\ todo' \in Schedules
  /\ UNCHANGED <<events, manifest, served, conf, pending, snap, run, returned, changed>>

\* Mutant: turns are numbered from 0.
RecordFromZero(seen) ==
  /\ pending' = Append(pending, [run      |-> run,
                                 command  |-> conf.command,
                                 scenario |-> Head(todo)[1],
                                 arm      |-> Head(todo)[2],
                                 turn     |-> Len(pending),
                                 declared |-> conf.contract,
                                 seen     |-> seen])
  /\ pc' = IF Len(pending) + 1 = Turns(conf.command, Head(todo)[1])
           THEN "write" ELSE "turn"
  /\ snap' = None
  /\ UNCHANGED <<files, served, conf, run, todo, returned, changed>>

\* A turn succeeds: its event is kept until the whole arm has finished.  What
\* the safety snapshots showed (seen) and the invocation are history.
Record(seen) ==
  /\ pending' = Append(pending, [run      |-> run,
                                 command  |-> conf.command,
                                 scenario |-> Head(todo)[1],
                                 arm      |-> Head(todo)[2],
                                 turn     |-> Len(pending) + 1,
                                 declared |-> conf.contract,
                                 seen     |-> seen])
  /\ pc' = IF Len(pending) + 1 = Turns(conf.command, Head(todo)[1])
           THEN "write" ELSE "turn"
  /\ snap' = None
  /\ UNCHANGED <<files, served, conf, run, todo, returned, changed>>

BaselineTurn ==
  /\ pc = "turn" /\ Head(todo)[2] = "baseline"
  /\ Record(None)

\* The snapshots before the request; the request follows.
SnapshotBefore ==
  /\ Go("turn", "request")
  /\ Head(todo)[2] = "compressed"
  /\ snap' = IF conf.watched THEN served ELSE None
  /\ UNCHANGED <<files, served, conf, run, todo, pending, returned, changed>>

\* The snapshot after it must show the same contract, or the run dies.
SnapshotAfter ==
  /\ pc = "request"
  /\ conf.watched => served = snap
  /\ Record(snap)

\* run_paired_sessions appends the finished arm's events, one by one.
AppendEvent ==
  /\ pc = "write"
  /\ partial' = Append(partial, Head(pending))
  /\ pending' = Tail(pending)
  /\ IF Len(pending) > 1
       THEN UNCHANGED <<pc, todo>>
       ELSE /\ todo' = Tail(todo)
            /\ pc' = IF Len(todo) = 1 THEN "publish" ELSE "turn"
  /\ UNCHANGED <<events, manifest, served, conf, snap, run, returned, changed>>
-----------------------------------------------------------------------------
(* Publishing *)

\* partial_path.replace(events_path)
Publish ==
  /\ Go("publish", "open")
  /\ events' = partial
  /\ partial' = << >>
  /\ UNCHANGED <<manifest, served, locals, run, returned, changed>>

\* write_text opens the manifest, which empties it, ...
OpenManifest ==
  /\ Go("open", "fill")
  /\ manifest' = Torn
  /\ UNCHANGED <<partial, events, served, locals, run, returned, changed>>

\* Only live-session-run records what decide_cache_safety said.
CaseDescription ==
  [events |-> events, contract |-> None, eligible |-> FALSE]

Description ==
  IF conf.command = "live-run" THEN CaseDescription
  ELSE [events   |-> events,
        contract |-> conf.contract,
        eligible |-> RolloutEligible(conf)]

\* ... and writes it.  The command returns 0.
FillManifest ==
  /\ pc = "fill"
  /\ manifest' = Description
  /\ returned' = returned \cup {run}
  /\ Leave
  /\ UNCHANGED <<partial, events, served, run, changed>>

\* An exception, an interrupt or a crash: the files stay as they are.
Die ==
  /\ pc \notin {"idle", "gates"}
  /\ Leave
  /\ UNCHANGED <<files, served, run, returned, changed>>

\* The operator restarts the safe proxy with the other contract.
Reconfigure ==
  /\ served' \in SafeContracts \ {served}
  /\ changed' = IF pc \in {"idle", "gates", "probe"} THEN changed ELSE changed \cup {run}
  /\ UNCHANGED <<files, pc, locals, run, returned>>

Init ==
  /\ partial = << >> /\ events = << >> /\ manifest = None
  /\ served \in SafeContracts
  /\ pc = "idle"
  /\ conf = None
  /\ run = 0
  /\ todo = << >>
  /\ pending = << >>
  /\ snap = None
  /\ returned = {}
  /\ changed = {}

Next ==
  \/ Invoke \/ PassGates \/ PassCaseGates \/ Refuse \/ PassHealth \/ PassCaseHealth
  \/ RemovePartial \/ BaselineTurn \/ SnapshotBefore \/ SnapshotAfter \/ AppendEvent
  \/ Publish \/ OpenManifest \/ FillManifest
  \/ Die
  \/ Reconfigure

Spec == Init /\ [][Next]_vars
-----------------------------------------------------------------------------
(* Properties *)

Commands == {"live-run", "live-session-run"}

Events == [run : 1..MaxRuns, command : Commands, scenario : Scenarios, arm : Arms, turn : Nat \ {0},
           declared : SafeContracts \cup {"unverified"},
           seen : SafeContracts \cup {None}]

Manifests == [events : Seq(Events), contract : SafeContracts \cup {"unverified", None},
              eligible : BOOLEAN]

ASSUME NoneAssumption ==
  /\ None \notin SafeContracts
  /\ None \notin Manifests /\ Torn \notin Manifests

\* Every variable keeps its type.
TypeOK ==
  /\ partial \in Seq(Events)
  /\ events \in Seq(Events)
  /\ manifest \in Manifests \cup {Torn, None}
  /\ served \in SafeContracts
  /\ pc \in {"idle", "gates", "probe", "clean", "turn", "request", "write",
             "publish", "open", "fill"}
  /\ conf \in Configs \cup {CaseConfig, None}
  /\ run \in 0..MaxRuns
  /\ todo \in Seq(Scenarios \X Arms)
  /\ pending \in Seq(Events)
  /\ snap \in SafeContracts \cup {None}
  /\ returned \subseteq 1..MaxRuns
  /\ changed \subseteq 1..MaxRuns

PairedTurns(command) ==
  UNION {{s} \X Arms \X (1..Turns(command, s)) : s \in Scenarios}

\* The events file is one whole run of one command: every turn of both arms of
\* every scenario, once, and nothing an aborted run of either command left
\* behind (the .partial file, cli.py:375-394, 559-570;
\* phase-3-acceptance.md:29).
PublishedIsWholeRun ==
  events # << >> =>
    LET turns == PairedTurns(events[1].command)
    IN  /\ \A e \in Range(events) : e.run = events[1].run
        /\ Len(events) = Cardinality(turns)
        /\ {<<e.scenario, e.arm, e.turn>> : e \in Range(events)} = turns

\* Whenever the events file is that of a run that returned 0, the manifest
\* beside it was written for exactly these events, through every later run
\* that was refused, died or is under way (cli.py:393-433, 569-619).
ReturnedRunsAreDescribed ==
  (events # << >> /\ events[1].run \in returned) =>
    manifest \notin {None, Torn} /\ manifest.events = events

\* A manifest that calls multi-turn evidence eligible for rollout describes
\* treatment turns that were all observed behind a safe proxy with a verified
\* contract (decide_cache_safety, cache_safety.py:33-69; cli.py:478-486).
EligibleEvidenceWasObserved ==
  (manifest \notin {None, Torn} /\ Drift) =>
    (manifest.eligible =>
       \A e \in Range(manifest.events) : e.arm = "compressed" => e.seen \in SafeContracts)

\* A published treatment turn was observed under the contract its config
\* declares, unless the proxy was restarted with another one during that
\* very run: the contract is compared with the config before the run only,
\* and within each turn (paritok.py:131, 187-191; phase-3-runbook.md:133-134).
DeclaredContractWasServed ==
  \A e \in Range(events) :
    (e.seen # None /\ e.run \notin changed) => e.seen = e.declared
=============================================================================
