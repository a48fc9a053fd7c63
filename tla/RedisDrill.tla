----------------------------- MODULE RedisDrill -----------------------------
(***************************************************************************)
(* The drill against a real Redis (redis_drill.py): a coordinator starts,  *)
(* stops, wipes and restarts a Redis process of its own, runs each phase   *)
(* in a worker process, records one gate per phase and writes evidence.    *)
(* The server can die or never answer, another Redis can hold the port,    *)
(* everything can be slow, an evidence file can fail to be written, the    *)
(* coordinator can be killed.                                              *)
(*                                                                         *)
(* What is simplified: a worker's commands are one step, so a body that    *)
(* lapses between its retrieve and its exists (145, 151) is left out; what *)
(* is stored is intact, damaged or gone; a file is written whole, and of   *)
(* the file operations only those of the evidence fail.  The redis client  *)
(* and subprocess.run have no timeout, so a server that accepts and never  *)
(* answers is left out, and so is one that refuses SHUTDOWN.               *)
(* Bounds: MaxTrouble caps how many kinds of trouble one drill meets.      *)
(***************************************************************************)
EXTENDS Naturals, Sequences, FiniteSets

CONSTANTS
  MaxTrouble,  \* bound on the kinds of trouble in one drill
  Earlier,     \* an evidence file left by an earlier drill
  None

\* The gates of run(), by name.
GateNames == {"preflight", "synthetic_write", "application_restart_exact_recovery",
              "redis_aof_restart_exact_recovery", "tenant_session_isolation",
              "found_expired_not_found", "wrong_key_tamper_swap_corrupt",
              "ciphertext_at_rest_and_privacy", "read_outage_unhealthy",
              "safe_proxy_startup_fail_closed", "fresh_process_recovers_after_outage",
              "clean_volume_repeat_run", "zero_provider_calls_and_cost"}

ASSUME MaxTroubleAssumption == MaxTrouble \in Nat
ASSUME NoneAssumption == None \notin GateNames

VARIABLES
  todo,     \* the steps still to do, Head first
  within,   \* "call", or where the coordinator is inside start or stop
  sofar,    \* the results since the last gate, and-ed
  gates,    \* Coordinator.gates
  refs,     \* state.json names the references of a write that succeeded
  files,    \* the evidence files, each the gates it was written from
  sums,     \* sha256sums.txt: the files as they were digested
  code,     \* what run_drill is going to return
  exit,     \* what it returned; "running" before
  runtime,  \* the temporary directory exists
  port,     \* which Redis answers on the port
  child,    \* Coordinator.process
  db,       \* what each Redis holds, in memory and in its AOF alike
  outage,   \* the worker of the outage phase
  proceed,  \* the file "proceed" exists
  trouble,  \* history: what went wrong around the drill
  epoch,    \* history: how often the drill's Redis came up
  written,  \* history: the epoch of the last write
  witness   \* history: per gate, who answered and the two epochs

script == <<todo, within>>
gating == <<sofar, gates, witness>>
output == <<refs, files, sums, exit, runtime>>
servers == <<port, child, db>>
worker == <<outage, proceed>>
around == <<trouble, epoch, written>>
world == <<servers, worker, around>>
vars == <<script, gating, output, code, world>>

VerifyItems == {"one", "two", "paths", "pins", "caches"}
Controls == {"wrong", "tamper", "swap_a", "swap_b"}
Items == VerifyItems \cup Controls \cup {"ttl"}
Blank == [i \in Items |-> "none"]
\* Data of somebody else's, or settings the preflight refuses.
Occupied == [Blank EXCEPT !["wrong"] = "damaged"]
Up == port # "nobody"
-----------------------------------------------------------------------------
(* The coordinator's script *)

Step(op, gate) == [op |-> op, of |-> gate]
Call(op) == Step(op, None)
In(level, steps) ==
  [i \in DOMAIN steps |-> [op |-> steps[i].op, of |-> steps[i].of, level |-> level]]

\* Mutant: Redis goes on running.
NoRestart == << >>

Restart == <<Call("stop"), Call("start")>>

\* run(), from the preflight to the last gate.  A step with a gate records
\* the conjunction of its result and the results before it.
Body ==
  <<Step("preflight", "preflight"),
    Step("write", "synthetic_write"),
    Step("verify", "application_restart_exact_recovery")>> \o Restart \o
  <<Step("verify", "redis_aof_restart_exact_recovery"),
    Step("isolation", "tenant_session_isolation"),
    Call("ttl_write"), Call("poll_found"), Call("poll_expired"),
    Step("poll_missing", "found_expired_not_found"),
    Step("negative", "wrong_key_tamper_swap_corrupt"),
    Step("privacy", "ciphertext_at_rest_and_privacy"),
    Call("spawn"), Call("await"), Call("stop"), Call("proceed"),
    Step("collect", "read_outage_unhealthy"),
    Step("startup", "safe_proxy_startup_fail_closed"),
    Call("start"),
    Step("verify", "fresh_process_recovers_after_outage"),
    Call("stop"), Call("clear"), Call("start"), Call("clean"), Call("write"),
    Call("verify")>> \o Restart \o
  <<Call("verify"),
    Step("privacy", "clean_volume_repeat_run"),
    Step("cost", "zero_provider_calls_and_cost")>>

PhaseGates == {Body[i].of : i \in DOMAIN Body} \ {None}
Gates == PhaseGates \cup {"unhandled_failure"}

EvidenceFiles == <<"environment", "results", "manifest", "events", "report">>

\* Mutant: the sums are taken before the files are written.
EvidenceSumsFirst ==
  <<Call("sums")>> \o [i \in 1..Len(EvidenceFiles) |-> Step("file", EvidenceFiles[i])]

\* write_evidence, in its order; the sums come last.
Evidence ==
  [i \in 1..Len(EvidenceFiles) |-> Step("file", EvidenceFiles[i])] \o <<Call("sums")>>

Stop == <<Call("stop")>>

\* Mutant: the runtime directory goes, Redis stays.
CleanupKeepsRedis == In("cleanup", <<Call("remove")>>)

Cleanup == In("cleanup", Stop \o <<Call("remove")>>)

\* The handler of run_drill, run()'s finally before it, and its two returns.
Handler == In("handler", <<Call("unhandled")>> \o Evidence) \o Cleanup
Failing == In("run", Stop) \o Handler
EarlyReturn == In("try", Evidence) \o In("run", Stop) \o Cleanup
Script == In("construct", <<Call("construct")>>) \o In("run", <<Call("start")>>)
            \o In("try", Body) \o In("run", Stop \o Evidence) \o Cleanup

Doing(op) ==
  /\ exit = "running" /\ within = "call"
  /\ todo # << >> /\ Head(todo).op = op

Advance == todo' = Tail(todo)

\* An exception leaves the step: where it goes depends on who catches it.
Raise ==
  /\ todo' = CASE Head(todo).level = "try"     -> Failing
               [] Head(todo).level = "run"     -> Handler
               [] Head(todo).level = "handler" -> Cleanup
               [] Head(todo).level = "cleanup" -> << >>
  /\ code' = IF Head(todo).level \in {"construct", "try", "run"} THEN code ELSE "raised"

\* Mutant: a missing result is recorded as it is.
StatusRaw(held) == IF held THEN "PASS" ELSE "null"

Status(held) == IF held THEN "PASS" ELSE "FAIL"

\* event(): the step's result goes into its gate, or on to the next gate.
Conclude(result) ==
  LET gate == Head(todo).of
      held == sofar /\ result
  IN  IF gate = None
        THEN sofar' = held /\ UNCHANGED <<gates, witness>>
        ELSE /\ sofar' = TRUE
             /\ gates' = [gates EXCEPT ![gate] = Status(held)]
             /\ witness' = [witness EXCEPT ![gate] =
                              [server |-> port, epoch |-> epoch, written |-> written]]

\* Every recorded gate holds, and there is one.
Passed(g) == (\E x \in Gates : g[x] = "PASS") /\ \A x \in Gates : g[x] # "FAIL"
-----------------------------------------------------------------------------
(* Starting and stopping Redis *)

\* Coordinator.__init__ makes the runtime directory, asks git and the server
\* for their versions ...
Construct ==
  /\ Doing("construct")
  /\ runtime' = TRUE
  /\ Advance
  /\ UNCHANGED <<within, gating, refs, files, sums, exit, code, world>>

\* Popen; the coordinator then pings until someone answers.
Spawn ==
  /\ Doing("start")
  /\ child' = "alive"
  /\ within' = "ping"
  /\ UNCHANGED <<todo, gating, output, code, port, db, worker, around>>

Answered ==
  /\ within = "ping" /\ exit = "running"
  /\ child # "dead" /\ Up
  /\ within' = "call" /\ Advance
  /\ UNCHANGED <<gating, output, code, world>>

\* Mutant: nothing but its exit ends the wait for Redis.
NoAnswerExited == child = "dead"

\* The process has exited, or nobody answers for 15 seconds.
NoAnswer == child \in {"dead", "hung"} \/ (~Up /\ "slow" \in trouble)

StartRaises ==
  /\ within = "ping" /\ exit = "running"
  /\ NoAnswer
  /\ within' = "call" /\ Raise
  /\ UNCHANGED <<gating, output, world>>

\* Whoever answers is told to shut down.
Shutdown ==
  /\ Doing("stop")
  /\ IF child = "none"
       THEN Advance /\ UNCHANGED <<within, port, child>>
       ELSE /\ within' = "wait"
            /\ port' = "nobody"
            /\ child' = IF port = "drill" THEN "dead" ELSE child
            /\ UNCHANGED todo
  /\ UNCHANGED <<gating, output, code, db, worker, around>>

\* The process has exited, or does when it is terminated ...
Reap ==
  /\ within = "wait" /\ exit = "running"
  /\ child' = "none"
  /\ port' = IF port = "drill" THEN "nobody" ELSE port
  /\ within' = "call" /\ Advance
  /\ UNCHANGED <<gating, output, code, db, worker, around>>

\* ... or not, within 5 more seconds.
StopRaises ==
  /\ within = "wait" /\ exit = "running"
  /\ child = "hung"
  /\ within' = "call" /\ Raise
  /\ UNCHANGED <<gating, output, world>>
-----------------------------------------------------------------------------
(* The phases *)

\* A phase leaves what each Redis then holds; its result goes into its gate.
Working(op, result, contents) ==
  /\ Doing(op)
  /\ Conclude(result)
  /\ db' = contents
  /\ Advance
  /\ UNCHANGED <<within, files, sums, exit, runtime, code, port, child, worker>>
  /\ UNCHANGED <<trouble, epoch>>

Phase(op, result) == Working(op, result, db) /\ UNCHANGED <<refs, written>>

\* A command of the coordinator's own client raises when nobody answers.
ClientRaises ==
  /\ Doing("preflight") \/ Doing("clean")
  /\ ~Up
  /\ Raise
  /\ UNCHANGED <<within, gating, output, world>>

\* An empty, persistent instance is required; run() returns otherwise.
Preflight ==
  /\ Doing("preflight") /\ Up
  /\ LET ready == db[port] = Blank
     IN  /\ Conclude(ready)
         /\ IF ready THEN Advance ELSE todo' = EarlyReturn
  /\ UNCHANGED <<within, output, code, world>>

Clean == Up /\ Phase("clean", db[port] = Blank)

\* worker_write: everything but the expiry record, and the state file.
Write ==
  /\ Working("write", Up,
       IF Up THEN [db EXCEPT ![port] = [i \in Items |-> IF i = "ttl" THEN @[i] ELSE "intact"]]
             ELSE db)
  /\ refs' = Up
  /\ written' = IF Up THEN epoch ELSE written

Verify ==
  Phase("verify", Up /\ refs /\ \A i \in VerifyItems : db[port][i] = "intact")

\* Another tenant and another session find nothing.
Isolation == Phase("isolation", Up /\ refs)

\* Mutant: the tampering hits a record that later phases verify.
TamperedState == {"one", "swap_a", "swap_b"}

\* An altered ciphertext and two swapped ones; the wrong key changes nothing.
Tampered == {"tamper", "swap_a", "swap_b"}

\* worker_negative needs its four records; all must then read as corrupt.
Negative ==
  LET can == Up /\ refs /\ \A i \in Controls : db[port][i] = "intact"
      Spoilt(held) == [i \in Items |-> IF i \in Tampered THEN "damaged" ELSE held[i]]
  IN  /\ Working("negative", can, IF can THEN [db EXCEPT ![port] = Spoilt(@)] ELSE db)
      /\ UNCHANGED <<refs, written>>

Privacy == Phase("privacy", Up)

\* create_safe_proxy_app must refuse to start without Redis.
Startup == Phase("startup", ~Up)

Cost == Phase("cost", TRUE)

\* rmtree(data), mkdir: the drill's own AOF is gone.
Clear ==
  /\ Working("clear", TRUE, [db EXCEPT !["drill"] = Blank])
  /\ UNCHANGED <<refs, written>>
-----------------------------------------------------------------------------
(* The expiry phase *)

TtlWrite ==
  /\ Working("ttl_write", TRUE, IF Up THEN [db EXCEPT ![port]["ttl"] = "intact"] ELSE db)
  /\ UNCHANGED <<refs, written>>

\* Statuses of the expiry record at which poll_ttl returns, and those that
\* can still become one of them.
Awaited == [poll_found   |-> {"intact"},
            poll_expired |-> {"lapsed", "tombstone"},
            poll_missing |-> {"none"}]
Pending == [poll_found   |-> {},
            poll_expired |-> {"intact"},
            poll_missing |-> {"intact", "lapsed", "tombstone"}]

\* poll_ttl returns what it waited for, or the last status at its deadline.
\* An expired record must have no body any more, only its tombstone; it is
\* reported expired a moment before Redis drops the body (trouble "early").
Poll(op) ==
  LET status == IF Up THEN db[port]["ttl"] ELSE "down"
  IN  /\ Doing(op)
      /\ status \notin Pending[op] \/ "slow" \in trouble
      /\ Conclude(status \in Awaited[op] \ {"lapsed"})
      /\ trouble' = IF status = "lapsed" THEN trouble \cup {"early"} ELSE trouble
      /\ Advance
      /\ UNCHANGED <<within, output, code, servers, worker, epoch, written>>

\* Time passes for the expiry record, in order: its deadline by the clock,
\* its body, its tombstone.
TtlPasses(s) ==
  /\ exit = "running"
  /\ \E now \in {"intact", "lapsed", "tombstone"} :
       /\ db[s]["ttl"] = now
       /\ \/ "slow" \in trouble
          \/ Doing("poll_expired") /\ now # "tombstone"
          \/ Doing("poll_missing")
       /\ db' = [db EXCEPT ![s]["ttl"] =
                    CASE now = "intact"    -> "lapsed"
                      [] now = "lapsed"    -> "tombstone"
                      [] now = "tombstone" -> "none"]
  /\ UNCHANGED <<script, gating, output, code, port, child, worker, around>>
-----------------------------------------------------------------------------
(* The outage phase: a worker opens the store, waits for the file          *)
(* "proceed" and reads while Redis is stopped.                             *)

SpawnOutage ==
  /\ Doing("spawn")
  /\ outage' = "opening"
  /\ Advance
  /\ UNCHANGED <<within, gating, output, code, servers, proceed, around>>

OutageOpens ==
  /\ exit = "running" /\ outage = "opening"
  /\ outage' = IF Up THEN "ready" ELSE "failed"
  /\ UNCHANGED <<script, gating, output, code, servers, proceed, around>>

\* After 20 seconds it reads without being told.
OutageReads ==
  /\ exit = "running" /\ outage = "ready"
  /\ proceed \/ "slow" \in trouble
  /\ outage' = IF ~Up /\ refs THEN "unhealthy" ELSE "failed"
  /\ UNCHANGED <<script, gating, output, code, servers, proceed, around>>

\* The coordinator waits 10 seconds for the worker to be ready.
Await ==
  /\ outage # "opening" \/ "slow" \in trouble
  /\ Phase("await", outage \notin {"opening", "failed"})

Proceed ==
  /\ Doing("proceed")
  /\ proceed' = TRUE
  /\ Advance
  /\ UNCHANGED <<within, gating, output, code, servers, outage, around>>

Collect ==
  /\ outage \notin {"opening", "ready"}
  /\ Phase("collect", outage = "unhealthy")

\* communicate(timeout=15) gives up; the worker is not killed.
CollectRaises ==
  /\ Doing("collect")
  /\ outage \in {"opening", "ready"} /\ "slow" \in trouble
  /\ Raise
  /\ UNCHANGED <<within, gating, output, world>>
-----------------------------------------------------------------------------
(* Evidence, the handler and the end *)

WriteFile ==
  /\ Doing("file")
  /\ files' = [files EXCEPT ![Head(todo).of] = gates]
  /\ Advance
  /\ UNCHANGED <<within, gating, refs, sums, exit, runtime, code, world>>

\* sha256sums.txt; write_evidence returns 0 exactly when every gate holds.
WriteSums ==
  /\ Doing("sums")
  /\ sums' = files
  /\ code' = IF Passed(gates) THEN "zero" ELSE "one"
  /\ Advance
  /\ UNCHANGED <<within, gating, refs, files, exit, runtime, world>>

\* The handler notes the failure as a gate of its own.
Unhandled ==
  /\ Doing("unhandled")
  /\ gates' = [gates EXCEPT !["unhandled_failure"] = "FAIL"]
  /\ Advance
  /\ UNCHANGED <<within, sofar, witness, output, code, world>>

\* rmtree(runtime): the configuration, the AOF and the state files.
Remove ==
  /\ Doing("remove")
  /\ runtime' = FALSE
  /\ db' = [db EXCEPT !["drill"] = Blank]
  /\ Advance
  /\ UNCHANGED <<within, gating, refs, files, sums, exit, code, port, child,
                 worker, around>>

Return ==
  /\ exit = "running" /\ within = "call" /\ todo = << >>
  /\ exit' = code
  /\ UNCHANGED <<script, gating, refs, files, sums, runtime, code, world>>
-----------------------------------------------------------------------------
(* The servers, and what can go wrong *)

\* The drill's Redis loads its AOF and listens ...
Bind ==
  /\ exit = "running" /\ child = "alive" /\ port = "nobody"
  /\ port' = "drill"
  /\ epoch' = epoch + 1
  /\ UNCHANGED <<script, gating, output, code, child, db, worker, trouble, written>>

\* ... or finds the port taken and exits.
BindFails ==
  /\ exit = "running" /\ child = "alive" /\ port = "foreign"
  /\ child' = "dead"
  /\ UNCHANGED <<script, gating, output, code, port, db, worker, around>>

\* Trouble of a kind that has not happened yet.
Trouble(kind) ==
  /\ exit = "running"
  /\ kind \notin trouble /\ Cardinality(trouble) < MaxTrouble
  /\ trouble' = trouble \cup {kind}
  /\ UNCHANGED <<epoch, written>>

\* From now on deadlines may pass first.
SlowsDown ==
  /\ Trouble("slow")
  /\ UNCHANGED <<script, gating, output, code, servers, worker>>

\* The 120 seconds of everything written so far pass.
StateExpires(s) ==
  /\ Trouble("expiry")
  /\ db' = [db EXCEPT ![s] = [i \in Items |-> IF i = "ttl" THEN @[i] ELSE "none"]]
  /\ UNCHANGED <<script, gating, output, code, port, child, worker>>

\* The drill's Redis dies; appendfsync always has kept everything.
ServerDies ==
  /\ Trouble("death")
  /\ port = "drill"
  /\ port' = "nobody" /\ child' = "dead"
  /\ UNCHANGED <<script, gating, output, code, db, worker>>

\* It never answers, and may not exit when it is terminated.
ServerHangs ==
  /\ Trouble("hang")
  /\ child = "alive" /\ port # "drill"
  /\ child' = "hung"
  /\ UNCHANGED <<script, gating, output, code, port, db, worker>>

\* Another Redis takes the port while it is free.
ForeignAppears ==
  /\ Trouble("foreign")
  /\ port = "nobody"
  /\ port' = "foreign"
  /\ \E held \in {Blank, Occupied} : db' = [db EXCEPT !["foreign"] = held]
  /\ UNCHANGED <<script, gating, output, code, child, worker>>

\* ... and raises when one is missing: there is no coordinator to write
\* evidence or to clean up.
ConstructRaises ==
  /\ Trouble("setup")
  /\ Doing("construct")
  /\ runtime' = TRUE
  /\ todo' = << >>
  /\ UNCHANGED <<within, gating, refs, files, sums, exit, code, servers, worker>>

FileFails ==
  /\ Trouble("io")
  /\ Doing("file") \/ Doing("sums")
  /\ Raise
  /\ UNCHANGED <<within, gating, output, servers, worker>>

\* The coordinator is killed: neither its finally nor its cleanup runs.
Killed ==
  /\ Trouble("kill")
  /\ exit' = "killed"
  /\ UNCHANGED <<script, gating, refs, files, sums, runtime, code, servers, worker>>

Init ==
  /\ todo = Script
  /\ within = "call"
  /\ sofar = TRUE
  /\ gates = [g \in Gates |-> "unset"]
  /\ refs = FALSE
  /\ files = [f \in {EvidenceFiles[i] : i \in DOMAIN EvidenceFiles} |-> Earlier]
  /\ sums = files
  /\ code = "one"
  /\ exit = "running"
  /\ runtime = FALSE
  /\ port = "nobody"
  /\ child = "none"
  /\ db = [s \in {"drill", "foreign"} |-> Blank]
  /\ outage = "none"
  /\ proceed = FALSE
  /\ trouble = {}
  /\ epoch = 0
  /\ written = 0
  /\ witness = [g \in Gates |-> None]

\* What the processes do by themselves, as opposed to the trouble they meet.
Proceeds ==
  \/ Construct \/ Spawn \/ Answered \/ StartRaises \/ Shutdown \/ Reap \/ StopRaises
  \/ ClientRaises \/ Preflight \/ Clean \/ Write \/ Verify \/ Isolation
  \/ Negative \/ Privacy \/ Startup \/ Cost \/ Clear
  \/ TtlWrite \/ \E op \in DOMAIN Awaited : Poll(op)
  \/ \E s \in DOMAIN db : TtlPasses(s)
  \/ SpawnOutage \/ OutageOpens \/ OutageReads \/ Await \/ Proceed
  \/ Collect \/ CollectRaises
  \/ WriteFile \/ WriteSums \/ Unhandled \/ Remove \/ Return
  \/ Bind \/ BindFails

Next ==
  \/ Proceeds
  \/ SlowsDown \/ \E s \in DOMAIN db : StateExpires(s)
  \/ ServerDies \/ ServerHangs \/ ForeignAppears
  \/ ConstructRaises \/ FileFails \/ Killed

Spec == Init /\ [][Next]_vars

\* The operating system runs the coordinator, its workers and Redis.  The
\* coordinator's waits have a deadline, but for a worker that is run (326) and a
\* command of the Redis client, which are assumed to return.
FairSpec == Spec /\ WF_vars(Proceeds)
-----------------------------------------------------------------------------
(* Properties *)

\* Every variable keeps its type.
TypeOK ==
  /\ \A i \in DOMAIN todo : todo[i].level \in {"construct", "try", "run", "handler", "cleanup"}
  /\ within \in {"call", "ping", "wait"}
  /\ sofar \in BOOLEAN /\ refs \in BOOLEAN /\ runtime \in BOOLEAN
  /\ gates \in [Gates -> {"unset", "PASS", "FAIL"}]
  /\ code \in {"zero", "one", "raised"}
  /\ exit \in {"running", "zero", "one", "raised", "killed"}
  /\ port \in {"nobody", "drill", "foreign"}
  /\ child \in {"none", "alive", "hung", "dead"}
  /\ db \in [{"drill", "foreign"} ->
               [Items -> {"none", "intact", "damaged", "lapsed", "tombstone"}]]
  /\ outage \in {"none", "opening", "ready", "failed", "unhealthy"}
  /\ proceed \in BOOLEAN
  /\ written \in 0..epoch
  /\ port = "drill" => child = "alive"

\* The gates that read back what was written; the scans for isolation and
\* privacy hold on an empty Redis as well.
ReadBack == {"application_restart_exact_recovery", "redis_aof_restart_exact_recovery",
             "wrong_key_tamper_swap_corrupt", "fresh_process_recovers_after_outage"}
OutagePhase == {"read_outage_unhealthy", "safe_proxy_startup_fail_closed"}

\* A results.json that says PASS is earned: all thirteen gates were recorded
\* and hold, what was read back came from the drill's own Redis, the outage
\* was observed with no Redis at all, and what a gate says survived a restart
\* was written by an earlier process of Redis - whatever died, expired, raced
\* for the port or was slow (redis_drill.py:353-460; "Any failed gate makes the
\* complete drill FAIL", durable-context-storage.md:93-95).
PassIsEarned ==
  LET results == files["results"]
      At(gate) == witness[gate]
  IN  (results \notin {None, Earlier} /\ Passed(results)) =>
        /\ \A g \in PhaseGates : results[g] = "PASS"
        /\ \A g \in OutagePhase : At(g).server = "nobody"
        /\ \A g \in ReadBack : At(g).server = "drill"
        /\ At("application_restart_exact_recovery").epoch
             = At("application_restart_exact_recovery").written
        /\ \A g \in {"redis_aof_restart_exact_recovery", "clean_volume_repeat_run"} :
             At(g).epoch > At(g).written
        /\ At("fresh_process_recovers_after_outage").epoch
             > At("redis_aof_restart_exact_recovery").epoch
        /\ At("clean_volume_repeat_run").written
             > At("fresh_process_recovers_after_outage").epoch

\* A drill returns 1 only when something around it went wrong: the phases
\* never spoil one another, although each works on what the phases before it
\* left in Redis (redis_drill.py:353-460).
FailsOnlyInTrouble == exit = "one" => trouble # {}

\* What run_drill returns is what the evidence of this very drill says: after
\* 0 every file was written from the same gates, which all hold; after 1
\* results.json says FAIL, even over the evidence of an earlier drill that
\* passed; and the sums are those of the files.  The one exception is a drill
\* whose constructor raised: it returns 1 beside whatever evidence was there
\* (redis_drill.py:468-539).
ReturnMatchesEvidence ==
  (exit \in {"zero", "one"} /\ "setup" \notin trouble) =>
    /\ sums = files
    /\ \A f \in DOMAIN files : files[f] = gates
    /\ exit = "zero" <=> Passed(gates)

\* A drill that returned has left no Redis and no data behind, whichever way
\* it left run(): early, normally or by an exception at any step of it
\* (redis_drill.py:458-459, 515-517, 537-539).
NothingLeftRunning ==
  exit \in {"zero", "one"} =>
    /\ child = "none" /\ port # "drill"
    /\ runtime => "setup" \in trouble

\* The drill ends: no phase waits for ever for Redis, for the expiry or for
\* the worker of the outage phase.
DrillEnds == <>(exit # "running")
=============================================================================
