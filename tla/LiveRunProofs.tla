---------------------------- MODULE LiveRunProofs ----------------------------
(***************************************************************************)
(* Proofs about LiveRun, for every list of scenarios, every number of      *)
(* their turns and every number of invocations.                            *)
(***************************************************************************)
EXTENDS LiveRun, FiniteSetTheorems, SequenceTheorems, TLAPS

AtArms == {"turn", "request", "write"}

\* The invocation under way has not returned and has a config.
RunInv ==
  /\ returned \subseteq 1..run
  /\ pc # "idle" => run # 0 /\ run \notin returned /\ conf \in Configs \cup {CaseConfig}

\* What the gates and the probe leave true for the rest of the command.
GateInv ==
  /\ pc \notin {"idle", "gates"} => CaseConfig = conf \/ Observable(conf)
  /\ pc \notin {"idle", "gates", "probe"} /\ conf.watched /\ run \notin changed =>
       served = conf.contract
  /\ pc = "request" =>
       IF conf.watched
       THEN snap \in SafeContracts /\ (run \notin changed => snap = conf.contract)
       ELSE snap = None

\* An event of the invocation under way.
Own(e) ==
  /\ e.run = run /\ e.command = conf.command
  /\ e.arm = "compressed" /\ conf.watched => e.seen \in SafeContracts

\* What the invocation under way has written is its own.
OwnInv ==
  /\ pc \in AtArms => \A i \in DOMAIN pending : Own(pending[i])
  /\ pc \in AtArms \cup {"publish"} => \A i \in DOMAIN partial : Own(partial[i])
  /\ pc \in {"open", "fill"} => \A i \in DOMAIN events : Own(events[i])

\* What an event has seen is what its config declares.
AsDeclared(e) == e.seen # None /\ e.run \notin changed => e.seen = e.declared

DeclaredInv ==
  /\ \A i \in DOMAIN pending : AsDeclared(pending[i])
  /\ \A i \in DOMAIN partial : AsDeclared(partial[i])
  /\ \A i \in DOMAIN events : AsDeclared(events[i])

Slot(e) == <<e.scenario, e.arm, e.turn>>

\* No two elements of a file are for the same turn.
Distinct(file) == \A i, j \in DOMAIN file : Slot(file[i]) = Slot(file[j]) => i = j

\* The file has an event for this turn.
Placed(file, s, a, t) == \E i \in DOMAIN file : Slot(file[i]) = <<s, a, t>>

\* The turns of the arm in progress, and how many of them were written.
ArmTurns == Turns(conf.command, Head(todo)[1])
ArmWritten == IF pc = "write" THEN ArmTurns - Len(pending) ELSE 0

\* The turns already in the .partial file: those of the arms that are no
\* longer to do, and the first of the arm that is being written.
Written(s, a, t) ==
  \/ <<s, a>> \notin Range(todo)
  \/ todo # << >> /\ <<s, a>> = Head(todo) /\ t <= ArmWritten

\* The arms, the events kept for the arm in progress and the .partial file
\* make up the run.
PlanInv ==
  /\ pc \in {"idle", "gates", "probe", "clean"} => pending = << >>
  /\ \A i, j \in DOMAIN todo : todo[i] = todo[j] => i = j
  /\ pc \in AtArms => todo # << >>
  /\ pc = "publish" => todo = << >>
  /\ pc \in {"turn", "request"} => Len(pending) < ArmTurns
  /\ pc = "write" => Len(pending) \in 1..ArmTurns
  /\ pc \in AtArms =>
       \A i \in DOMAIN pending :
         Slot(pending[i]) = <<Head(todo)[1], Head(todo)[2], ArmWritten + i>>
  /\ pc \in AtArms \cup {"publish"} =>
       /\ Distinct(partial)
       /\ \A s \in Scenarios, a \in Arms, t \in Nat \ {0} :
            Placed(partial, s, a, t) <=> t <= Turns(conf.command, s) /\ Written(s, a, t)

\* A whole run of one command.
WholeRun(file) ==
  file # << >> =>
    /\ \A i \in DOMAIN file :
         file[i].run = file[1].run /\ file[i].command = file[1].command
    /\ Distinct(file)
    /\ \A s \in Scenarios, a \in Arms, t \in Nat \ {0} :
         Placed(file, s, a, t) <=> t <= Turns(file[1].command, s)

IInv ==
  /\ TypeOK /\ RunInv /\ GateInv /\ OwnInv /\ DeclaredInv /\ PlanInv
  /\ WholeRun(events)
  /\ ReturnedRunsAreDescribed /\ EligibleEvidenceWasObserved

-----------------------------------------------------------------------------
(* The schedule of the arms *)

\* A scenario has at least one turn, whichever command asks.
LEMMA TurnsType ==
  ASSUME NEW c, NEW s \in Scenarios
  PROVE  Turns(c, s) \in Nat \ {0}
  BY LiveRunAssumption DEF Turns, Scenarios

\* A schedule has both arms of every scenario, once.
LEMMA ScheduleComplete ==
  ASSUME NEW d \in Schedules
  PROVE  /\ d \in Seq(Scenarios \X Arms)
         /\ d # << >>
         /\ \A i, j \in DOMAIN d : d[i] = d[j] => i = j
         /\ \A s \in Scenarios, a \in Arms : <<s, a>> \in Range(d)
<1> DEFINE n == Len(SessionTurns)
           half(i) == (i + 1) \div 2
<1>1. n \in Nat \ {0} /\ Scenarios = 1..n
  BY LiveRunAssumption, EmptySeq DEF Scenarios
<1>2. PICK first \in [Scenarios -> BOOLEAN] :
        d = [i \in 1..2 * n |->
               <<half(i), IF (i % 2 = 1) = first[half(i)] THEN "baseline" ELSE "compressed">>]
  BY DEF Schedules
<1>3. \A i \in 1..2 * n : half(i) \in 1..n /\ (i = 2 * half(i) \/ i = 2 * half(i) - 1)
  BY <1>1
<1>4. \A s \in 1..n : /\ 2 * s \in 1..2 * n /\ 2 * s - 1 \in 1..2 * n
                      /\ half(2 * s) = s /\ half(2 * s - 1) = s
                      /\ (2 * s) % 2 = 0 /\ (2 * s - 1) % 2 = 1
  BY <1>1
<1>5. /\ DOMAIN d = 1..2 * n
      /\ \A i \in 1..2 * n :
           /\ d[i][1] = half(i)
           /\ d[i] = <<d[i][1], d[i][2]>>
           /\ d[i][2] = IF (i % 2 = 1) = first[half(i)] THEN "baseline" ELSE "compressed"
  BY <1>2
<1> HIDE DEF half, n
<1>6. \A i \in DOMAIN d : d[i][2] \in Arms
  BY <1>5, Zenon DEF Arms
<1>7. ASSUME NEW s \in Scenarios
      PROVE  /\ d[2 * s][2] = IF first[s] THEN "compressed" ELSE "baseline"
             /\ d[2 * s - 1][2] = IF first[s] THEN "baseline" ELSE "compressed"
  <2>1. first[s] \in BOOLEAN
    BY <1>2
  <2>2. /\ 2 * s \in DOMAIN d /\ half(2 * s) = s /\ ~((2 * s) % 2 = 1)
        /\ 2 * s - 1 \in DOMAIN d /\ half(2 * s - 1) = s /\ (2 * s - 1) % 2 = 1
    BY <1>1, <1>4, <1>5
  <2>3. /\ d[2 * s][2] = IF ((2 * s) % 2 = 1) = first[s]
                         THEN "baseline" ELSE "compressed"
        /\ d[2 * s - 1][2] = IF ((2 * s - 1) % 2 = 1) = first[s]
                             THEN "baseline" ELSE "compressed"
    BY <1>5, <2>2, Zenon
  <2> QED
    BY <2>1, <2>2, <2>3, Zenon
<1>8. \A i \in DOMAIN d : d[i] \in Scenarios \X Arms
  <2> TAKE i \in DOMAIN d
  <2>1. d[i] = <<d[i][1], d[i][2]>> /\ d[i][1] \in Scenarios
    BY <1>1, <1>3, <1>5
  <2> QED
    BY <2>1, <1>6
<1>9. d \in Seq(Scenarios \X Arms) /\ d # << >>
  <2>1. 2 * n \in Nat /\ 2 * n > 0
    BY <1>1
  <2>2. Len(d) = 2 * n /\ d \in Seq(Scenarios \X Arms)
    BY <2>1, <1>2, <1>5, <1>8
  <2> QED
    BY <2>1, <2>2
<1>10. ASSUME NEW s \in Scenarios, NEW i \in DOMAIN d, NEW j \in DOMAIN d,
             d[i][1] = s, d[j][1] = s, d[i][2] = d[j][2]
      PROVE  i = j
  <2>1. i \in {2 * s, 2 * s - 1} /\ j \in {2 * s, 2 * s - 1}
    BY <1>3, <1>5, <1>10
  <2>2. d[2 * s][2] # d[2 * s - 1][2]
    BY <1>7
  <2> QED
    BY <2>1, <2>2, <1>10
<1>11. ASSUME NEW s \in Scenarios, NEW a \in Arms PROVE <<s, a>> \in Range(d)
  <2>1. /\ 2 * s \in DOMAIN d /\ 2 * s - 1 \in DOMAIN d
        /\ d[2 * s] = <<s, d[2 * s][2]>> /\ d[2 * s - 1] = <<s, d[2 * s - 1][2]>>
    BY <1>1, <1>4, <1>5
  <2>2. d[2 * s] = <<s, a>> \/ d[2 * s - 1] = <<s, a>>
    BY <2>1, <1>7 DEF Arms
  <2> QED
    BY <2>1, <2>2 DEF Range
<1>12. \A i, j \in DOMAIN d : d[i] = d[j] => i = j
  BY <1>8, <1>10
<1> QED
  BY <1>9, <1>11, <1>12

-----------------------------------------------------------------------------
(* Types *)

\* What Record appends: the event of the turn that ends.
NewEvent(seen) ==
  [run |-> run, command |-> conf.command, scenario |-> Head(todo)[1],
   arm |-> Head(todo)[2], turn |-> Len(pending) + 1, declared |-> conf.contract,
   seen |-> seen]

\* A turn that ends adds a well-typed event.
LEMMA RecordType ==
  ASSUME TypeOK, RunInv, PlanInv, pc \in {"turn", "request"},
         NEW seen \in SafeContracts \cup {None}, Record(seen)
  PROVE  /\ NewEvent(seen) \in Events
         /\ Head(todo) \in Scenarios \X Arms
         /\ pending' = Append(pending, NewEvent(seen))
         /\ pending' \in Seq(Events)
         /\ Len(pending') = Len(pending) + 1
         /\ \A i \in DOMAIN pending : pending'[i] = pending[i]
         /\ pending'[Len(pending) + 1] = NewEvent(seen)
         /\ DOMAIN pending = 1..Len(pending) /\ DOMAIN pending' = 1..(Len(pending) + 1)
<1>1. Head(todo) \in Scenarios \X Arms
  BY HeadTailProperties DEF TypeOK, PlanInv, AtArms
<1>2. conf.command \in Commands /\ conf.contract \in SafeContracts \cup {"unverified"}
  BY DEF RunInv, Configs, CaseConfig, Commands
<1>3. run \in 1..MaxRuns
  BY LiveRunAssumption DEF TypeOK, RunInv
<1>4. Len(pending) + 1 \in Nat \ {0}
  BY DEF TypeOK
<1>5. NewEvent(seen) \in Events
  BY <1>1, <1>2, <1>3, <1>4 DEF NewEvent, Events
<1>6. pending' = Append(pending, NewEvent(seen))
  BY DEF Record, NewEvent
<1> QED
  BY <1>1, <1>5, <1>6, AppendProperties DEF TypeOK

\* Every step keeps every variable's type.
LEMMA TypeStep ==
  ASSUME TypeOK, RunInv, GateInv, PlanInv, [Next]_vars
  PROVE  TypeOK'
<1> USE LiveRunAssumption
<1> USE DEF TypeOK, files, locals
<1>0. << >> \in Seq(Events) /\ << >> \in Seq(Scenarios \X Arms)
  BY EmptySeq
<1>1. CASE Invoke
  BY <1>1 DEF Invoke, Go
<1>2. CASE PassGates \/ PassCaseGates
  BY <1>2 DEF PassGates, PassCaseGates, Go
<1>3. CASE Refuse \/ Die
  BY <1>0, <1>3 DEF Refuse, Die, Leave
<1>4. CASE PassHealth \/ PassCaseHealth
  BY <1>4 DEF PassHealth, PassCaseHealth, Go
<1>5. CASE RemovePartial
  BY <1>0, <1>5, ScheduleComplete DEF RemovePartial, Go
<1>6. CASE BaselineTurn
  BY <1>6, RecordType DEF BaselineTurn, Record
<1>7. CASE SnapshotBefore
  BY <1>7 DEF SnapshotBefore, Go
<1>8. CASE SnapshotAfter
  BY <1>8, RecordType DEF SnapshotAfter, Record
<1>9. CASE AppendEvent
  <2>1. /\ Head(pending) \in Events /\ Tail(pending) \in Seq(Events)
        /\ Tail(todo) \in Seq(Scenarios \X Arms)
    BY <1>9, HeadTailProperties DEF AppendEvent, PlanInv, AtArms
  <2>2. partial' \in Seq(Events)
    BY <1>9, <2>1, AppendProperties DEF AppendEvent
  <2> QED
    BY <1>9, <2>1, <2>2 DEF AppendEvent
<1>10. CASE Publish
  BY <1>0, <1>10 DEF Publish, Go
<1>11. CASE OpenManifest
  BY <1>11 DEF OpenManifest, Go
<1>12. CASE FillManifest
  <2>1. Description \in Manifests
    BY <1>12 DEF FillManifest, RunInv, Description, CaseDescription, Manifests,
                 RolloutEligible, Configs, CaseConfig
  <2>2. returned' \subseteq 1..MaxRuns
    BY <1>12 DEF FillManifest, RunInv
  <2> QED
    BY <1>0, <1>12, <2>1, <2>2 DEF FillManifest, Leave
<1>13. CASE Reconfigure
  BY <1>13 DEF Reconfigure, RunInv
<1>14. CASE UNCHANGED vars
  BY <1>14 DEF vars
<1> QED
  BY <1>1, <1>2, <1>3, <1>4, <1>5, <1>6, <1>7, <1>8, <1>9, <1>10, <1>11,
     <1>12, <1>13, <1>14 DEF Next

\* What the invocation under way knows of itself.
LEMMA RunStep ==
  ASSUME TypeOK, RunInv, [Next]_vars
  PROVE  RunInv'
<1> USE DEF TypeOK, RunInv, files, locals
<1>1. CASE Invoke
  BY <1>1 DEF Invoke, Go
<1>2. CASE FillManifest
  BY <1>2 DEF FillManifest, Leave
<1>3. CASE Refuse \/ Die
  BY <1>3 DEF Refuse, Die, Leave
<1>4. CASE \/ PassGates \/ PassCaseGates \/ PassHealth \/ PassCaseHealth \/ RemovePartial
           \/ SnapshotBefore \/ Publish \/ OpenManifest \/ Reconfigure \/ UNCHANGED vars
  BY <1>4 DEF PassGates, PassCaseGates, PassHealth, PassCaseHealth, RemovePartial,
              SnapshotBefore, Publish, OpenManifest, Reconfigure, Go, vars
<1>5. CASE BaselineTurn \/ SnapshotAfter \/ AppendEvent
  BY <1>5 DEF BaselineTurn, SnapshotAfter, AppendEvent, Record
<1> QED
  BY <1>1, <1>2, <1>3, <1>4, <1>5 DEF Next

\* What the gates left true stays true.
LEMMA GateStep ==
  ASSUME TypeOK, RunInv, GateInv, [Next]_vars
  PROVE  GateInv'
<1> USE DEF TypeOK, GateInv, files, locals
<1>1. CASE Invoke \/ Refuse \/ Die \/ FillManifest
  BY <1>1 DEF Invoke, Refuse, Die, FillManifest, Leave, Go
<1>2. CASE PassGates \/ PassCaseGates
  BY <1>2 DEF PassGates, PassCaseGates, Go, RunInv, Configs
<1>3. CASE PassHealth
  BY <1>3 DEF PassHealth, Healthy, Go
<1>4. CASE PassCaseHealth
  BY <1>4 DEF PassCaseHealth, Go, RunInv, Configs, CaseConfig
<1>5. CASE \/ RemovePartial \/ Publish \/ OpenManifest \/ AppendEvent \/ UNCHANGED vars
           \/ BaselineTurn \/ SnapshotAfter
  BY <1>5 DEF RemovePartial, Publish, OpenManifest, AppendEvent, BaselineTurn,
              SnapshotAfter, Record, Go, vars
<1>6. CASE SnapshotBefore
  BY <1>6 DEF SnapshotBefore, Go
<1>7. CASE Reconfigure
  BY <1>7 DEF Reconfigure
<1> QED
  BY <1>1, <1>2, <1>3, <1>4, <1>5, <1>6, <1>7 DEF Next

-----------------------------------------------------------------------------
(* Whose events are where *)

\* Appending the head of pending to the .partial file, element by element.
LEMMA AppendShape ==
  ASSUME TypeOK, PlanInv, AppendEvent
  PROVE  /\ pc = "write" /\ pending # << >> /\ pending' = Tail(pending)
         /\ Len(pending') = Len(pending) - 1 /\ pending' \in Seq(Events)
         /\ \A i \in 1..Len(pending') : pending'[i] = pending[i + 1]
         /\ partial' \in Seq(Events) /\ Len(partial') = Len(partial) + 1
         /\ \A i \in 1..Len(partial) : partial'[i] = partial[i]
         /\ partial'[Len(partial) + 1] = pending[1]
         /\ pending[1] \in Events
         /\ DOMAIN pending = 1..Len(pending) /\ DOMAIN pending' = 1..(Len(pending) - 1)
         /\ DOMAIN partial = 1..Len(partial) /\ DOMAIN partial' = 1..(Len(partial) + 1)
<1>1. /\ pc = "write" /\ pending # << >> /\ pending' = Tail(pending)
      /\ partial' = Append(partial, Head(pending))
  BY DEF AppendEvent, PlanInv
<1>2. /\ Tail(pending) \in Seq(Events) /\ Head(pending) \in Events
      /\ Len(Tail(pending)) = Len(pending) - 1
      /\ \A i \in 1..Len(Tail(pending)) : Tail(pending)[i] = pending[i + 1]
  BY <1>1, HeadTailProperties DEF TypeOK
<1>3. Head(pending) = pending[1]
  BY <1>1 DEF TypeOK
<1>4. /\ partial' \in Seq(Events) /\ Len(partial') = Len(partial) + 1
      /\ \A i \in 1..Len(partial) : partial'[i] = partial[i]
      /\ partial'[Len(partial) + 1] = Head(pending)
  BY <1>1, <1>2, AppendProperties DEF TypeOK
<1> QED
  BY <1>1, <1>2, <1>3, <1>4 DEF TypeOK

\* Where the elements of the two sequences come from.
LEMMA AppendElements ==
  ASSUME TypeOK, PlanInv, AppendEvent
  PROVE  /\ \A i \in DOMAIN pending' : \E j \in DOMAIN pending : pending'[i] = pending[j]
         /\ \A i \in DOMAIN partial' :
              \/ \E j \in DOMAIN partial : partial'[i] = partial[j]
              \/ \E j \in DOMAIN pending : partial'[i] = pending[j]
<1>1. Len(pending) \in Nat \ {0} /\ Len(partial) \in Nat
  BY AppendShape, EmptySeq DEF TypeOK
<1>2. ASSUME NEW i \in DOMAIN pending'
      PROVE  i + 1 \in DOMAIN pending /\ pending'[i] = pending[i + 1]
  BY <1>1, AppendShape
<1>3. ASSUME NEW i \in DOMAIN partial'
      PROVE  \/ i \in DOMAIN partial /\ partial'[i] = partial[i]
             \/ 1 \in DOMAIN pending /\ partial'[i] = pending[1]
  BY <1>1, AppendShape
<1> QED
  BY <1>2, <1>3

\* The events kept for the arm after a turn ended.
LEMMA RecordElements ==
  ASSUME TypeOK, RunInv, PlanInv, pc \in {"turn", "request"},
         NEW seen \in SafeContracts \cup {None}, Record(seen)
  PROVE  \A i \in DOMAIN pending' :
           \/ \E j \in DOMAIN pending : pending'[i] = pending[j]
           \/ pending'[i] = NewEvent(seen)
<1>1. Len(pending) \in Nat
  BY DEF TypeOK
<1>2. ASSUME NEW i \in DOMAIN pending'
      PROVE  \/ i \in DOMAIN pending /\ pending'[i] = pending[i]
             \/ pending'[i] = NewEvent(seen)
  BY <1>1, RecordType
<1> QED
  BY <1>2

\* The files hold what the invocation under way has written.
LEMMA OwnStep ==
  ASSUME TypeOK, RunInv, GateInv, PlanInv, OwnInv, [Next]_vars
  PROVE  OwnInv'
<1> USE DEF OwnInv, Own, AtArms, files, locals
<1>1. CASE \/ Invoke \/ PassGates \/ PassCaseGates \/ PassHealth \/ PassCaseHealth
           \/ Refuse \/ Die \/ FillManifest
  BY <1>1 DEF Invoke, PassGates, PassCaseGates, PassHealth, PassCaseHealth,
              Refuse, Die, FillManifest, Leave, Go
<1>2. CASE RemovePartial
  BY <1>2 DEF RemovePartial, Go, PlanInv
<1>3. ASSUME NEW seen \in SafeContracts \cup {None}, Record(seen),
             pc \in {"turn", "request"},
             Head(todo)[2] = "compressed" /\ conf.watched => seen \in SafeContracts
      PROVE  OwnInv'
  <2>1. Own(NewEvent(seen))
    BY <1>3 DEF NewEvent
  <2>2. \A i \in DOMAIN pending' : Own(pending'[i])
    BY <1>3, <2>1, RecordElements
  <2>3. UNCHANGED <<run, conf, partial, events>> /\ pc' \in {"turn", "write"}
    BY <1>3 DEF Record
  <2> QED
    BY <1>3, <2>2, <2>3
<1>4. CASE BaselineTurn
  BY <1>3, <1>4 DEF BaselineTurn
<1>5. CASE SnapshotBefore
  BY <1>5 DEF SnapshotBefore, Go
<1>6. CASE SnapshotAfter
  <2>1. /\ snap \in SafeContracts \cup {None}
        /\ conf.watched => snap \in SafeContracts
    BY <1>6 DEF SnapshotAfter, GateInv, TypeOK
  <2> QED
    BY <1>3, <1>6, <2>1 DEF SnapshotAfter
<1>7. CASE AppendEvent
  <2>1. UNCHANGED <<run, conf, events>>
    BY <1>7 DEF AppendEvent
  <2>2. pc' \in {"write", "turn", "publish"}
    BY <1>7 DEF AppendEvent
  <2>3. \A i \in DOMAIN pending : Own(pending[i])
    BY <1>7, AppendShape
  <2>4. \A i \in DOMAIN partial : Own(partial[i])
    BY <1>7, AppendShape
  <2>5. \A i \in DOMAIN pending' : Own(pending'[i])
    BY <1>7, <2>3, AppendElements
  <2>6. \A i \in DOMAIN partial' : Own(partial'[i])
    BY <1>7, <2>3, <2>4, AppendElements
  <2> QED
    BY <2>1, <2>2, <2>5, <2>6
<1>8. CASE Publish \/ OpenManifest
  BY <1>8 DEF Publish, OpenManifest, Go
<1>9. CASE Reconfigure \/ UNCHANGED vars
  BY <1>9 DEF Reconfigure, vars
<1> QED
  BY <1>1, <1>2, <1>4, <1>5, <1>6, <1>7, <1>8, <1>9 DEF Next

\* What every event has seen stays what its config declares.
LEMMA DeclaredStep ==
  ASSUME TypeOK, RunInv, GateInv, PlanInv, DeclaredInv, [Next]_vars
  PROVE  DeclaredInv'
<1> USE DEF DeclaredInv, AsDeclared, files, locals
<1>1. CASE \/ Invoke \/ PassGates \/ PassCaseGates \/ PassHealth \/ PassCaseHealth
           \/ SnapshotBefore \/ OpenManifest
  BY <1>1 DEF Invoke, PassGates, PassCaseGates, PassHealth, PassCaseHealth,
              SnapshotBefore, OpenManifest, Go
<1>2. CASE Refuse \/ Die \/ FillManifest
  BY <1>2 DEF Refuse, Die, FillManifest, Leave
<1>3. CASE RemovePartial \/ Publish
  BY <1>3 DEF RemovePartial, Publish, Go
<1>4. ASSUME NEW seen \in SafeContracts \cup {None}, Record(seen),
             pc \in {"turn", "request"},
             seen # None /\ run \notin changed => seen = conf.contract
      PROVE  DeclaredInv'
  <2>1. AsDeclared(NewEvent(seen))
    BY <1>4 DEF NewEvent
  <2>2. \A i \in DOMAIN pending' : AsDeclared(pending'[i])
    BY <1>4, <2>1, RecordElements
  <2>3. UNCHANGED <<partial, events, changed>>
    BY <1>4 DEF Record
  <2> QED
    BY <2>2, <2>3
<1>5. CASE BaselineTurn
  BY <1>4, <1>5 DEF BaselineTurn
<1>6. CASE SnapshotAfter
  <2>1. /\ snap \in SafeContracts \cup {None}
        /\ snap # None /\ run \notin changed => snap = conf.contract
    BY <1>6 DEF SnapshotAfter, GateInv, TypeOK
  <2> QED
    BY <1>4, <1>6, <2>1 DEF SnapshotAfter
<1>7. CASE AppendEvent
  <2>1. UNCHANGED <<changed, events>>
    BY <1>7 DEF AppendEvent
  <2> QED
    BY <1>7, <2>1, AppendElements
<1>8. CASE Reconfigure
  BY <1>8 DEF Reconfigure
<1>9. CASE UNCHANGED vars
  BY <1>9 DEF vars
<1> QED
  BY <1>1, <1>2, <1>3, <1>5, <1>6, <1>7, <1>8, <1>9 DEF Next

-----------------------------------------------------------------------------
(* The plan of the run *)

\* Without its head, a list of distinct arms has the other arms.
LEMMA TailArms ==
  ASSUME NEW S, NEW d \in Seq(S), d # << >>,
         \A i, j \in DOMAIN d : d[i] = d[j] => i = j
  PROVE  /\ \A i, j \in DOMAIN Tail(d) : Tail(d)[i] = Tail(d)[j] => i = j
         /\ \A x : x \in Range(Tail(d)) <=> x \in Range(d) /\ x # Head(d)
         /\ Head(d) \in Range(d)
         /\ Len(d) = 1 <=> Tail(d) = << >>
<1>1. /\ Len(d) \in Nat \ {0} /\ DOMAIN d = 1..Len(d) /\ Head(d) = d[1]
  BY EmptySeq
<1>2. /\ Tail(d) \in Seq(S) /\ DOMAIN Tail(d) = 1..(Len(d) - 1) /\ Len(Tail(d)) = Len(d) - 1
      /\ \A i \in 1..(Len(d) - 1) : Tail(d)[i] = d[i + 1]
  BY HeadTailProperties
<1>3. \A i, j \in DOMAIN Tail(d) : Tail(d)[i] = Tail(d)[j] => i = j
  BY <1>1, <1>2
<1>4. ASSUME NEW x, x \in Range(Tail(d)) PROVE x \in Range(d) /\ x # Head(d)
  <2>1. PICK i \in 1..(Len(d) - 1) : x = d[i + 1]
    BY <1>2, <1>4 DEF Range
  <2>2. i + 1 \in DOMAIN d /\ i + 1 # 1 /\ 1 \in DOMAIN d
    BY <1>1
  <2> QED
    BY <1>1, <2>1, <2>2 DEF Range
<1>5. ASSUME NEW x, x \in Range(d), x # Head(d) PROVE x \in Range(Tail(d))
  <2>1. PICK i \in 1..Len(d) : x = d[i]
    BY <1>1, <1>5 DEF Range
  <2>2. i - 1 \in 1..(Len(d) - 1) /\ (i - 1) + 1 = i
    BY <1>1, <1>5, <2>1
  <2> QED
    BY <1>2, <2>1, <2>2 DEF Range
<1>6. Head(d) \in Range(d)
  BY <1>1 DEF Range
<1>7. Len(d) = 1 <=> Tail(d) = << >>
  BY <1>1, <1>2, EmptySeq
<1> QED
  BY <1>3, <1>4, <1>5, <1>6, <1>7

\* The .partial file gains the turn that was appended and no other.
LEMMA SlotsAfterAppend ==
  ASSUME TypeOK, PlanInv, AppendEvent, ~\E i \in DOMAIN partial : Slot(partial[i]) = Slot(pending[1])
  PROVE  /\ Distinct(partial')
         /\ \A s, a, t : Placed(partial', s, a, t)
                           <=> Placed(partial, s, a, t) \/ <<s, a, t>> = Slot(pending[1])
<1>1. Len(partial) \in Nat
  BY DEF TypeOK
<1>2. \A i \in DOMAIN partial' :
        \/ i \in DOMAIN partial /\ partial'[i] = partial[i]
        \/ i = Len(partial) + 1 /\ partial'[i] = pending[1]
  BY <1>1, AppendShape
<1>3. \A i \in DOMAIN partial : i \in DOMAIN partial' /\ partial'[i] = partial[i]
  BY <1>1, AppendShape
<1>4. Len(partial) + 1 \in DOMAIN partial' /\ partial'[Len(partial) + 1] = pending[1]
  BY <1>1, AppendShape
<1>5. Distinct(partial)
  BY AppendShape DEF PlanInv, AtArms
<1>6. Distinct(partial')
  BY <1>2, <1>5 DEF Distinct
<1> QED
  BY <1>2, <1>3, <1>4, <1>6 DEF Placed

\* Writing an event of the arm in progress.
LEMMA AppendPlan ==
  ASSUME TypeOK, RunInv, PlanInv, AppendEvent
  PROVE  PlanInv'
<1> DEFINE H == Head(todo)
           T == ArmTurns
           L == Len(pending)
           k == T - L + 1
<1>1. /\ pc = "write" /\ todo # << >> /\ L \in 1..T /\ ArmWritten = T - L
      /\ conf' = conf
  BY DEF AppendEvent, PlanInv, ArmWritten, AtArms
<1>2. H \in Scenarios \X Arms /\ H = <<H[1], H[2]>>
  BY <1>1, HeadTailProperties DEF TypeOK
<1>3. T \in Nat \ {0}
  BY <1>2, TurnsType DEF ArmTurns
<1>4. L \in Nat /\ k \in 1..T /\ ArmWritten = k - 1
  BY <1>1, <1>3
<1>5. /\ \A i, j \in DOMAIN Tail(todo) : Tail(todo)[i] = Tail(todo)[j] => i = j
      /\ \A x : x \in Range(Tail(todo)) <=> x \in Range(todo) /\ x # H
      /\ H \in Range(todo)
      /\ Len(todo) = 1 <=> Tail(todo) = << >>
  BY <1>1, TailArms DEF TypeOK, PlanInv
<1>6. \A i \in 1..L : Slot(pending[i]) = <<H[1], H[2], (k - 1) + i>>
  BY <1>1, <1>4, AppendShape DEF PlanInv, AtArms
<1>7. Slot(pending[1]) = <<H[1], H[2], k>>
  <2>1. 1 \in 1..L /\ (k - 1) + 1 = k
    BY <1>1, <1>3, <1>4
  <2> QED
    BY <1>6, <2>1
<1>8. \A s \in Scenarios, a \in Arms, t \in Nat \ {0} :
        Placed(partial, s, a, t) <=>
          t <= Turns(conf.command, s) /\ (<<s, a>> \notin Range(todo) \/ (<<s, a>> = H /\ t <= k - 1))
  <2>1. \A s, a, t : Written(s, a, t) <=>
                       <<s, a>> \notin Range(todo) \/ (<<s, a>> = H /\ t <= k - 1)
    BY <1>1, <1>4 DEF Written
  <2> QED
    BY <1>1, <2>1 DEF PlanInv, AtArms
<1>11. T = Turns(conf.command, H[1])
  BY DEF ArmTurns
<1> HIDE DEF H, T, L, k
<1>9. ~\E i \in DOMAIN partial : Slot(partial[i]) = Slot(pending[1])
  <2>1. H[1] \in Scenarios /\ H[2] \in Arms /\ k \in Nat \ {0}
    BY <1>2, <1>3, <1>4
  <2>2. ~Placed(partial, H[1], H[2], k)
    BY <2>1, <1>2, <1>4, <1>5, <1>8
  <2> QED
    BY <2>2, <1>7 DEF Placed
<1>10. /\ Distinct(partial')
       /\ \A s, a, t : Placed(partial', s, a, t)
                         <=> Placed(partial, s, a, t) \/ <<s, a, t>> = <<H[1], H[2], k>>
  BY <1>7, <1>9, SlotsAfterAppend
<1>12. \A s \in Scenarios, a \in Arms, t \in Nat \ {0} :
        Placed(partial', s, a, t) <=>
          t <= Turns(conf.command, s) /\ (<<s, a>> \notin Range(todo) \/ (<<s, a>> = H /\ t <= k))
  <2> TAKE s \in Scenarios, a \in Arms, t \in Nat \ {0}
  <2>1. CASE <<s, a>> = H
    <3>1. s = H[1] /\ a = H[2] /\ <<s, a>> \in Range(todo)
      BY <2>1, <1>5
    <3>2. Placed(partial', s, a, t) <=> Placed(partial, s, a, t) \/ t = k
      BY <3>1, <1>10
    <3>3. Placed(partial, s, a, t) <=> t <= T /\ t <= k - 1
      BY <2>1, <3>1, <1>8, <1>11
    <3> QED
      BY <2>1, <3>1, <3>2, <3>3, <1>4, <1>3, <1>11
  <2>2. CASE <<s, a>> # H
    BY <2>2, <1>2, <1>8, <1>10
  <2> QED
    BY <2>1, <2>2
<1>13. CASE L > 1
  <2>1. pc' = "write" /\ todo' = todo
    BY <1>1, <1>13 DEF AppendEvent, L
  <2>2. /\ Len(pending') = L - 1 /\ DOMAIN pending' = 1..(L - 1)
        /\ \A i \in 1..(L - 1) : pending'[i] = pending[i + 1]
    BY AppendShape DEF L
  <2>3. ArmTurns' = T
    BY <1>1, <2>1 DEF ArmTurns, T
  <2>4. ArmWritten' = k
    BY <1>4, <1>3, <2>1, <2>2, <2>3 DEF ArmWritten, k
  <2>5. \A i \in 1..(L - 1) : Slot(pending'[i]) = <<H[1], H[2], k + i>>
    <3> TAKE i \in 1..(L - 1)
    <3>1. i + 1 \in 1..L /\ (k - 1) + (i + 1) = k + i
      BY <1>4, <1>3
    <3> QED
      BY <2>2, <3>1, <1>6
  <2>6. Len(pending') \in 1..T
    BY <1>1, <1>3, <1>4, <1>13, <2>2
  <2>7. \A s \in Scenarios, a \in Arms, t \in Nat \ {0} :
          Placed(partial', s, a, t) <=> t <= Turns(conf'.command, s) /\ Written(s, a, t)'
    <3>1. \A s, a, t : Written(s, a, t)' <=>
                         <<s, a>> \notin Range(todo) \/ (<<s, a>> = H /\ t <= k)
      BY <1>1, <2>1, <2>4 DEF Written, H
    <3> QED
      BY <1>1, <1>12, <3>1
  <2> QED
    BY <1>1, <1>10, <2>1, <2>2, <2>3, <2>4, <2>5, <2>6, <2>7 DEF PlanInv, AtArms, H
<1>14. CASE L = 1
  <2>1. todo' = Tail(todo) /\ pc' = IF Tail(todo) = << >> THEN "publish" ELSE "turn"
    BY <1>1, <1>5, <1>14 DEF AppendEvent, L
  <2>2. pending' = << >>
    BY <1>14, AppendShape, EmptySeq DEF L
  <2>3. ArmWritten' = 0
    BY <2>1 DEF ArmWritten
  <2>4. pc' = "turn" => ArmTurns' \in Nat \ {0}
    <3>1. SUFFICES ASSUME Tail(todo) # << >>
                   PROVE  Turns(conf.command, Head(Tail(todo))[1]) \in Nat \ {0}
      BY <1>1, <2>1 DEF ArmTurns
    <3>2. Head(Tail(todo)) \in Scenarios \X Arms
      BY <1>1, <3>1, HeadTailProperties DEF TypeOK
    <3> QED
      BY <3>2, TurnsType
  <2>5. k = T
    BY <1>3, <1>14 DEF k
  <2>6. \A s \in Scenarios, a \in Arms, t \in Nat \ {0} :
          Placed(partial', s, a, t) <=> t <= Turns(conf'.command, s) /\ Written(s, a, t)'
    <3> TAKE s \in Scenarios, a \in Arms, t \in Nat \ {0}
    <3>1. Written(s, a, t)' <=> <<s, a>> \notin Range(todo')
      <4>1. ~(t <= 0)
        OBVIOUS
      <4> QED
        BY <4>1, <2>3 DEF Written
    <3>2. <<s, a>> = H => (t <= Turns(conf.command, s) <=> t <= k)
      BY <2>5, <1>2, <1>11
    <3>3. <<s, a>> \notin Range(todo') <=> <<s, a>> \notin Range(todo) \/ <<s, a>> = H
      BY <1>5, <2>1
    <3> QED
      BY <3>1, <3>2, <3>3, <1>1, <1>12
  <2>7. Len(pending') = 0 /\ DOMAIN pending' = {}
    BY <2>2
  <2> QED
    BY <1>1, <1>5, <1>10, <2>1, <2>2, <2>3, <2>4, <2>6, <2>7 DEF PlanInv, AtArms
<1> QED
  BY <1>1, <1>3, <1>4, <1>13, <1>14

\* A turn of the arm in progress ends.
LEMMA RecordPlan ==
  ASSUME TypeOK, RunInv, PlanInv, pc \in {"turn", "request"},
         NEW seen \in SafeContracts \cup {None}, Record(seen)
  PROVE  PlanInv'
<1> DEFINE L == Len(pending)
<1>1. /\ todo # << >> /\ ArmWritten = 0 /\ ArmTurns \in Nat \ {0} /\ L < ArmTurns
      /\ L \in Nat
  BY HeadTailProperties, TurnsType DEF TypeOK, PlanInv, ArmWritten, ArmTurns, AtArms
<1>2. /\ UNCHANGED <<conf, todo, partial>>
      /\ pc' = IF L + 1 = ArmTurns THEN "write" ELSE "turn"
  BY DEF Record, files, ArmTurns
<1>3. Len(pending') = L + 1 /\ DOMAIN pending' = 1..(L + 1)
  BY RecordType
<1>4. ArmTurns' = ArmTurns /\ ArmWritten' = 0
  BY <1>1, <1>2, <1>3 DEF ArmTurns, ArmWritten
<1>5. \A i \in 1..(L + 1) : Slot(pending'[i]) = <<Head(todo)[1], Head(todo)[2], 0 + i>>
  <2> TAKE i \in 1..(L + 1)
  <2>1. CASE i \in 1..L
    BY <1>1, <2>1, RecordType DEF PlanInv, AtArms
  <2>2. CASE i = L + 1
    <3>1. pending'[i] = NewEvent(seen)
      BY <2>2, RecordType
    <3>2. Slot(NewEvent(seen)) = <<Head(todo)[1], Head(todo)[2], L + 1>>
      BY DEF NewEvent, Slot
    <3> QED
      BY <1>1, <2>2, <3>1, <3>2
  <2> QED
    BY <1>1, <2>1, <2>2
<1>6. \A s \in Scenarios, a \in Arms, t \in Nat \ {0} : Written(s, a, t)' <=> Written(s, a, t)
  BY <1>1, <1>2, <1>4 DEF Written
<1> QED
  BY <1>1, <1>2, <1>3, <1>4, <1>5, <1>6 DEF PlanInv, AtArms, Placed

\* Every step keeps the plan.
LEMMA PlanStep ==
  ASSUME TypeOK, RunInv, GateInv, PlanInv, [Next]_vars
  PROVE  PlanInv'
<1> USE DEF files, locals
<1>1. CASE \/ Invoke \/ PassGates \/ PassCaseGates \/ PassHealth \/ PassCaseHealth
  BY <1>1 DEF Invoke, PassGates, PassCaseGates, PassHealth, PassCaseHealth, Go,
              PlanInv, AtArms
<1>2. CASE Refuse \/ Die \/ FillManifest
  <2>1. pc' = "idle" /\ todo' = << >> /\ pending' = << >>
    BY <1>2 DEF Refuse, Die, FillManifest, Leave
  <2> QED
    BY <2>1 DEF PlanInv, AtArms
<1>3. CASE RemovePartial
  <2>1. /\ pc' = "turn" /\ partial' = << >> /\ todo' \in Schedules
        /\ UNCHANGED <<conf, pending>> /\ pending = << >>
    BY <1>3 DEF RemovePartial, Go, PlanInv
  <2>2. /\ todo' \in Seq(Scenarios \X Arms) /\ todo' # << >>
        /\ \A i, j \in DOMAIN todo' : todo'[i] = todo'[j] => i = j
        /\ \A s \in Scenarios, a \in Arms : <<s, a>> \in Range(todo')
    BY <2>1, ScheduleComplete
  <2>3. ArmTurns' \in Nat \ {0} /\ ArmWritten' = 0
    <3>1. Head(todo') \in Scenarios \X Arms
      BY <2>2, HeadTailProperties
    <3> QED
      BY <2>1, <3>1, TurnsType DEF ArmTurns, ArmWritten
  <2>4. DOMAIN pending' = {} /\ Len(pending') = 0 /\ DOMAIN partial' = {}
    BY <2>1
  <2>5. \A s \in Scenarios, a \in Arms, t \in Nat \ {0} :
          ~Placed(partial', s, a, t) /\ ~Written(s, a, t)'
    BY <2>2, <2>3, <2>4 DEF Placed, Written
  <2> QED
    BY <2>1, <2>2, <2>3, <2>4, <2>5 DEF PlanInv, AtArms, Distinct
<1>4. CASE BaselineTurn
  BY <1>4, RecordPlan DEF BaselineTurn
<1>5. CASE SnapshotBefore
  <2>1. /\ pc = "turn" /\ pc' = "request" /\ UNCHANGED <<conf, todo, pending, partial>>
    BY <1>5 DEF SnapshotBefore, Go
  <2>2. ArmTurns' = ArmTurns /\ ArmWritten' = ArmWritten
    BY <2>1 DEF ArmTurns, ArmWritten
  <2>3. \A s, a, t : Written(s, a, t)' <=> Written(s, a, t)
    BY <2>1, <2>2 DEF Written
  <2> QED
    BY <2>1, <2>2, <2>3 DEF PlanInv, AtArms
<1>6. CASE SnapshotAfter
  BY <1>6, RecordPlan DEF SnapshotAfter, TypeOK
<1>7. CASE AppendEvent
  BY <1>7, AppendPlan
<1>8. CASE Publish \/ OpenManifest
  BY <1>8 DEF Publish, OpenManifest, Go, PlanInv, AtArms
<1>9. CASE Reconfigure \/ UNCHANGED vars
  <2>1. UNCHANGED <<pc, conf, todo, pending, partial>>
    BY <1>9 DEF Reconfigure, vars
  <2>2. ArmTurns' = ArmTurns /\ ArmWritten' = ArmWritten
    BY <2>1 DEF ArmTurns, ArmWritten
  <2>3. \A s, a, t : Written(s, a, t)' <=> Written(s, a, t)
    BY <2>1, <2>2 DEF Written
  <2> QED
    BY <2>1, <2>2, <2>3 DEF PlanInv, AtArms
<1> QED
  BY <1>1, <1>2, <1>3, <1>4, <1>5, <1>6, <1>7, <1>8, <1>9 DEF Next

-----------------------------------------------------------------------------
(* The published files *)

\* The .partial file of a run whose arms are all done is a whole run of its
\* command, and not one that returned.
LEMMA PublishedWhole ==
  ASSUME TypeOK, RunInv, OwnInv, PlanInv, pc = "publish"
  PROVE  /\ WholeRun(partial)
         /\ partial # << >> => partial[1].run \notin returned
<1>1. /\ todo = << >> /\ Distinct(partial)
      /\ \A i \in DOMAIN partial : Own(partial[i])
      /\ \A s \in Scenarios, a \in Arms, t \in Nat \ {0} :
           Placed(partial, s, a, t) <=> t <= Turns(conf.command, s) /\ Written(s, a, t)
  BY DEF OwnInv, PlanInv, AtArms
<1>2. \A s, a, t : Written(s, a, t)
  BY <1>1 DEF Written, Range
<1>3. partial # << >> => 1 \in DOMAIN partial
  BY EmptySeq DEF TypeOK
<1>4. partial # << >> => partial[1].command = conf.command /\ partial[1].run = run
  BY <1>1, <1>3 DEF Own
<1>5. \A i \in DOMAIN partial : partial[i].command = conf.command /\ partial[i].run = run
  BY <1>1 DEF Own
<1> QED
  BY <1>1, <1>2, <1>4, <1>5 DEF WholeRun, RunInv

\* The events file and the manifest beside it, through every step.
LEMMA FilesStep ==
  ASSUME IInv, [Next]_vars
  PROVE  /\ WholeRun(events)'
         /\ ReturnedRunsAreDescribed'
         /\ EligibleEvidenceWasObserved'
<1> USE DEF files, locals
<1>1. CASE UNCHANGED <<events, manifest, returned>>
  BY <1>1 DEF IInv, WholeRun, Distinct, Placed, ReturnedRunsAreDescribed,
              EligibleEvidenceWasObserved
<1>2. CASE Publish
  <2>1. /\ events' = partial /\ UNCHANGED <<manifest, returned>> /\ pc = "publish"
    BY <1>2 DEF Publish, Go
  <2>2. WholeRun(partial) /\ (partial # << >> => partial[1].run \notin returned)
    BY <2>1, PublishedWhole DEF IInv
  <2> QED
    BY <2>1, <2>2 DEF IInv, WholeRun, Distinct, Placed, ReturnedRunsAreDescribed,
                      EligibleEvidenceWasObserved
<1>3. CASE OpenManifest
  <2>1. UNCHANGED <<events, returned>> /\ manifest' = Torn /\ pc = "open"
    BY <1>3 DEF OpenManifest, Go
  <2>2. events # << >> => events[1].run \notin returned
    <3>1. events # << >> => 1 \in DOMAIN events
      BY EmptySeq DEF IInv, TypeOK
    <3> QED
      BY <2>1, <3>1 DEF IInv, OwnInv, Own, RunInv
  <2> QED
    BY <2>1, <2>2 DEF IInv, WholeRun, Distinct, Placed, ReturnedRunsAreDescribed,
                      EligibleEvidenceWasObserved
<1>4. CASE FillManifest
  <2>1. UNCHANGED events /\ manifest' = Description /\ pc = "fill"
    BY <1>4 DEF FillManifest
  <2>2. Description.events = events
    BY DEF Description, CaseDescription
  <2>3. Description \in Manifests
    BY <2>1 DEF IInv, TypeOK, RunInv, Description, CaseDescription, Manifests,
                RolloutEligible, Configs, CaseConfig
  <2>4. EligibleEvidenceWasObserved'
    <3> SUFFICES ASSUME Drift, Description.eligible, NEW i \in DOMAIN events,
                        events[i].arm = "compressed"
                 PROVE  events[i].seen \in SafeContracts
      BY <2>1, <2>2 DEF EligibleEvidenceWasObserved, Range, Drift
    <3>1. conf.command # "live-run" /\ Verified(conf)
      BY DEF Description, CaseDescription, RolloutEligible
    <3>2. conf.watched
      BY <2>1, <3>1 DEF IInv, GateInv, Observable, CaseConfig
    <3> QED
      BY <2>1, <3>2 DEF IInv, OwnInv, Own
  <2> QED
    BY <2>1, <2>2, <2>3, <2>4, NoneAssumption
       DEF IInv, WholeRun, Distinct, Placed, ReturnedRunsAreDescribed
<1>5. [Next]_vars /\ ~Publish /\ ~OpenManifest /\ ~FillManifest
        => UNCHANGED <<events, manifest, returned>>
  BY DEF Next, Invoke, PassGates, PassCaseGates, Refuse, PassHealth, PassCaseHealth,
         RemovePartial, BaselineTurn, SnapshotBefore, SnapshotAfter, Record,
         AppendEvent, Die, Reconfigure, vars
<1> QED
  BY <1>1, <1>2, <1>3, <1>4, <1>5

\* The inductive invariant of the two commands and what they leave on disk.
LEMMA Inductive == Spec => []IInv
<1>1. Init => IInv
  <2> SUFFICES ASSUME Init PROVE IInv
    OBVIOUS
  <2>1. /\ << >> \in Seq(Events) /\ << >> \in Seq(Scenarios \X Arms)
        /\ DOMAIN << >> = {}
    BY EmptySeq
  <2>2. TypeOK
    BY <2>1, LiveRunAssumption DEF Init, TypeOK
  <2> QED
    BY <2>1, <2>2 DEF Init, IInv, RunInv, GateInv, OwnInv, DeclaredInv, PlanInv, AtArms,
       WholeRun, ReturnedRunsAreDescribed, EligibleEvidenceWasObserved
<1>2. IInv /\ [Next]_vars => IInv'
  <2> SUFFICES ASSUME IInv, [Next]_vars PROVE IInv'
    OBVIOUS
  <2>1. TypeOK' /\ RunInv' /\ GateInv'
    BY TypeStep, RunStep, GateStep DEF IInv
  <2>2. OwnInv' /\ DeclaredInv' /\ PlanInv'
    BY OwnStep, DeclaredStep, PlanStep DEF IInv
  <2> QED
    BY <2>1, <2>2, FilesStep DEF IInv
<1> QED
  BY <1>1, <1>2, PTL DEF Spec

-----------------------------------------------------------------------------
(* What the runs check *)

\* The type invariant of the commands holds in every reachable state.
THEOREM TypeCorrect == Spec => []TypeOK
<1>1. IInv => TypeOK
  BY DEF IInv
<1> QED
  BY <1>1, Inductive, PTL

\* Whatever died before, whichever command it was, the manifest beside the
\* events of a run that returned 0 is the one written for these very events
\* (cli.py:393-433, 569-619).
THEOREM ReturnedDescribed == Spec => []ReturnedRunsAreDescribed
<1>1. IInv => ReturnedRunsAreDescribed
  BY DEF IInv
<1> QED
  BY <1>1, Inductive, PTL

\* Evidence a manifest calls eligible was observed behind a verified contract
\* in every treatment turn (cache_safety.py:33-69; cli.py:478-486).
THEOREM EligibleObserved == Spec => []EligibleEvidenceWasObserved
<1>1. IInv => EligibleEvidenceWasObserved
  BY DEF IInv
<1> QED
  BY <1>1, Inductive, PTL

\* A published turn saw the contract its config declares, unless the proxy was
\* reconfigured during that very run (paritok.py:131, 187-191).
THEOREM DeclaredServed == Spec => []DeclaredContractWasServed
<1>1. IInv => DeclaredContractWasServed
  BY DEF IInv, DeclaredInv, AsDeclared, DeclaredContractWasServed, Range
<1> QED
  BY <1>1, Inductive, PTL

\* The paired turns of a command.
LEMMA PairedSlots ==
  ASSUME NEW c
  PROVE  \A x : x \in PairedTurns(c) <=>
           \E s \in Scenarios, a \in Arms : \E t \in 1..Turns(c, s) : x = <<s, a, t>>
<1>1. \A x : x \in PairedTurns(c) <=>
        \E s \in Scenarios : x \in {s} \X Arms \X (1..Turns(c, s))
  BY DEF PairedTurns
<1>2. ASSUME NEW s \in Scenarios, NEW x
      PROVE  x \in {s} \X Arms \X (1..Turns(c, s)) <=>
               \E a \in Arms, t \in 1..Turns(c, s) : x = <<s, a, t>>
  OBVIOUS
<1> QED
  BY <1>1, <1>2

\* A file that holds every paired turn once is as long as there are turns.
LEMMA WholeRunCounts ==
  ASSUME TypeOK, events # << >>, WholeRun(events)
  PROVE  LET turns == PairedTurns(events[1].command)
         IN  /\ Len(events) = Cardinality(turns)
             /\ {<<e.scenario, e.arm, e.turn>> : e \in Range(events)} = turns
<1> DEFINE c == events[1].command
           turns == PairedTurns(c)
           n == Len(events)
           f == [i \in 1..n |-> Slot(events[i])]
<1>1. n \in Nat /\ DOMAIN events = 1..n /\ \A i \in 1..n : events[i] \in Events
  BY DEF TypeOK
<1>2. ASSUME NEW i \in 1..n PROVE f[i] \in turns
  <2>1. /\ events[i].scenario \in Scenarios /\ events[i].arm \in Arms
        /\ events[i].turn \in Nat \ {0}
    BY <1>1 DEF Events
  <2>2. Placed(events, events[i].scenario, events[i].arm, events[i].turn)
    BY <1>1 DEF Placed, Slot
  <2>3. events[i].turn <= Turns(c, events[i].scenario)
    BY <2>1, <2>2 DEF WholeRun
  <2>4. events[i].turn \in 1..Turns(c, events[i].scenario)
    BY <2>1, <2>3, TurnsType
  <2> QED
    BY <2>1, <2>4, PairedSlots DEF Slot
<1>3. ASSUME NEW x \in turns PROVE \E i \in 1..n : f[i] = x
  <2>1. PICK s \in Scenarios, a \in Arms : \E t \in 1..Turns(c, s) : x = <<s, a, t>>
    BY PairedSlots
  <2> PICK t \in 1..Turns(c, s) : x = <<s, a, t>>
    BY <2>1
  <2>2. t \in Nat \ {0} /\ t <= Turns(c, s)
    BY TurnsType
  <2>3. Placed(events, s, a, t)
    BY <2>2 DEF WholeRun
  <2> QED
    BY <2>3, <1>1 DEF Placed
<1>4. \A i, j \in 1..n : f[i] = f[j] => i = j
  BY <1>1 DEF WholeRun, Distinct
<1>5. f \in Bijection(1..n, turns)
  BY <1>2, <1>3, <1>4 DEF Bijection, Injection, Surjection, IsInjective
<1>6. Cardinality(turns) = n
  BY <1>1, <1>5, FS_CountingElements DEF ExistsBijection
<1>7. {<<e.scenario, e.arm, e.turn>> : e \in Range(events)} = turns
  <2>1. \A e \in Range(events) : \E i \in 1..n : e = events[i]
    BY <1>1 DEF Range
  <2>2. \A i \in 1..n : events[i] \in Range(events)
    BY <1>1 DEF Range
  <2> QED
    BY <1>2, <1>3, <2>1, <2>2 DEF Slot
<1> QED
  BY <1>6, <1>7

\* The events file is always one whole run of one command: every turn of both
\* arms, once, and nothing an aborted run left behind (the .partial file and
\* its rename, cli.py:375-394, 559-570).
THEOREM PublishedWholeRun == Spec => []PublishedIsWholeRun
<1>1. IInv => PublishedIsWholeRun
  <2> SUFFICES ASSUME IInv, events # << >> PROVE PublishedIsWholeRun
    BY DEF PublishedIsWholeRun
  <2>1. WholeRun(events) /\ TypeOK
    BY DEF IInv
  <2>2. \A e \in Range(events) : e.run = events[1].run
    BY <2>1 DEF WholeRun, Range
  <2> QED
    BY <2>1, <2>2, WholeRunCounts DEF PublishedIsWholeRun
<1> QED
  BY <1>1, Inductive, PTL

=============================================================================
