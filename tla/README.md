# ContextOps Lab: specifications, model checking and proofs

TLA+ models of ContextOps Lab, the evidence layer and safe proxy around the
PariTok prompt compressor. The program is in `src/contextops_lab/`; every path
below is relative to the repository. `PROJECT.json` maps each definition that
models code to its lines.

## 1. The system

| Component | State | Operations | Talks to |
|---|---|---|---|
| **Safe proxy pipeline** (`safe_proxy.py`, `validator.py`, `fallback.py`) | locals of each thread in `ValidatedCompressionPipeline.compress` | look up, gate, compress, observe, validate, evict, fall back | PariTok's own pipeline, the store, the gate, the counters |
| **Admission gate** (`CompressionEligibilityGate`) | cold runs observed and their maximum latency, under a lock | `reason`, `observe_uncached`, `snapshot` | shared by all proxy threads |
| **Safety telemetry and stats endpoint** | thirteen counters, reasons and latency sums, under a lock | `record_pass`, `record_fallback`, `record_skip`, `record_eligibility_bypass`, `GET /contextops/stats` | threads write, the session runner reads |
| **Cache contracts** (`cache_safety.py`) | the active query, a `ContextVar` per request | `disabled`: no cache; `query_aware`: keys with the query; the run gate | proxy, live runs |
| **Durable store, records** (`context_store.py`) | Redis: a body and a tombstone per record, encrypted, with TTLs | `_store_encrypted`, `_retrieve_encrypted`, `invalidate_compressed` | Redis, all proxies of one session |
| **Durable store, paths** | Redis: per path the last eight shadow references; per shadow a reverse path | `set_shadow_for_path`, `get_shadow_for_path`, `get_shadows_for_path`, `get_path_for_shadow` | records, Redis |
| **Durable store, pins** | one Redis key per pin | `pin`, `is_pinned` | Redis |
| **Session runner** (`session_live.py`, `execution.py`, `paritok.py`) | the snapshots before a request; the events of one arm | `run_arm`, `run_paired_sessions`, `complete_messages`, `delta` | both `/stats` endpoints, the agents, the events file |
| **Live-run commands** `live-session-run`, `live-run` (`cli.py`, `events.py`, `live_config.py`, `live.py`) | `.partial`, the events file, the manifest | the gates, run, rename, write the manifest | session runner, proxy health |
| **Policy and evidence** (`policy.py`, `evidence.py`, `analytics.py`, `eligibility.py`, `strategy.py`) | the policy file, the lineage manifest | audit evidence, generate a policy, answer `mode_for`, `policy`, `phase2` | events file |
| **Benchmark and dual-arm execution** (`benchmark.py`, `execution.py`, `experiments.py`, `metrics.py`, `fixtures.py`, `models.py`) | the events file | paired benchmark, offline or live | compressors, validator |
| **Redis drill** (`redis_drill.py`) | a Redis process, a worker process, `state.json`, gates, evidence files | start, stop, wipe, one phase per gate, write evidence, clean up | durable store, the port, safe proxy |
| **Latency probe, phase 3.1 drill** (`latency.py`, `phase31_drill.py`) | a report | sequential measurements | safe proxy |
| **Doctor, compatibility** (`doctor.py`, `compatibility.py`) | none | reads the environment into a report | |
| **Workloads, economics, regression** (`workloads.py`, `economics.py`, `provider_free_regression.py`, `failures.py`) | none | generated text, arithmetic | |
| **Reports, compressors** (`reporting.py`, `dashboard.py`, `compressors.py`) | none | formatting; text transformations | |

What makes each component correct, and what makes it hard:

- *Proxy.* What is forwarded is the exact segment or a transformation of this
  segment, for this query, that the validator accepts. PariTok caches before
  the proxy validates, threads share the cache, entries expire, Redis fails, the
  process crashes with a rejected text still cached.
- *Gate.* It is asked before a run and told after it, so threads can pass it
  together before the first slow run is seen.
- *Counters and stats.* Consumers subtract snapshots and abort when they
  disagree. One report is three locked reads with workers in between.
- *Records.* A read is two GETs and a look at the clock; a write takes the time
  before it encrypts. Results must keep the five documented states apart.
- *Paths.* Read-modify-write without a transaction, over two keys; files of one
  content share a shadow and so its one reverse path.
- *Session runner.* A turn's outcomes are differences of counters that other
  requests, late attempts and restarts also move.
- *Live runs.* Files change one after the other and the command can die between
  any two steps; the proxy it checked at the start can change afterwards.
- *Policy and benchmark.* Never a rollout from evidence that is not of one
  benchmark run and labelled as production; thresholds at exact boundaries; metrics
  without a value. The analyst reads files that a benchmark is still writing or
  died over, and four output files must tell the same story.
- *Redis drill.* A PASS must have been earned by the Redis the drill started:
  it stops, wipes and restarts one between phases that rely on what the phases
  before left in it, polls real clocks, and has to clean up from anywhere.

`PROJECT.json` lists each hazard at its line with the properties that cover it.

## 2. Modules

`SafetyBoundary` is the abstract promise of the proxy: a segment in flight is
answered once, with something allowed for its request, or dropped.

`SafeProxy` is the proxy. One action per step of `compress` between two shared
accesses: `FirstLookup` (safe_proxy.py:235), `Admit`/`Bypass` (the gate, 236-241),
`ReturnBypass`; PariTok's part `SecondLookup`, `ModelAnswers`, `ModelSkips`,
`CacheResult` (external, called at 254); `Observe` (253-257), `ReturnSkipped`,
`ReturnPass`, `Reject`, `InvalidateRejected`, `ReturnFallback`, `StorageRaises`.
`pc[w]` is the place of thread `w`, `job`, `hit`, `note`, `res`, `fromCache` its
locals, `cache` the compressed cache by segment and query, `observedCalls` and
`observedMaxMs` the gate, `tel` the counters. `Restart`, `Outage` and `Expire` are
the environment. A compressed text is a record of what it was made from and
whether the validator accepts it: `validator.py` is a function of the text, and
nothing here depends on which function.

`StatsEndpoint` extends `SafeProxy` with the stats handler: counters, gate and
store health, read one lock after another while `SafeProxy` steps go on.

`ContextStore` takes one encrypted record apart: MULTI of body and tombstone, DEL
of both, the two GETs, the final look at the clock, Redis deleting keys at their
deadlines, outage, damage. An envelope is its content, its expiry and its form:
whole, tampered (it no longer decrypts to its version) or unreadable. The order
matters: an unreadable envelope is corrupt before its expiry is looked at, a
tampered one only afterwards (context_store.py:242-259).

`PathHistory` is `set_shadow_for_path` command by command, for several paths that
can share shadows, with the three readers as operators. A mapping is the record
the code stores, `shadow_id` beside `shadow_ids`, and each reader reads its own
field. A write can fail, or be executed and lose its reply (`ReplyLost`).

`SessionAttribution` is the treatment arm of `run_arm`: native and safety
snapshots, the request with its retries, the snapshots after, the checks. Each run
of the operator has `require_proxy_telemetry` on or off (`strict`), which switches
the check of the request count (session_live.py:90) and nothing else; the safety
proxy's statistics are configured. The proxy's side is only what moves the two
counters; `SafeProxy` has the rest.

`LiveRun` is `run_live_sessions` and `run_live`: gates, arms, the `.partial` file,
the rename and the two steps of writing the manifest, both commands on the same
files. A turn that `SessionAttribution` refuses is one of the ways its `Die`
ends the command.

`RedisDrill` is the drill: `todo` holds the steps of the coordinator that are
left, and a phase, an exception, `finally`, the handler and the cleanup replace
or extend it. Starting and stopping Redis have their waits (`within`). `port` and
`child` tell the server that answers from the process the coordinator holds. A
phase records its gate in `gates`, and for the properties who answered
and how often Redis had come up (`witness`). `ServerDies`,
`ServerHangs`, `ForeignAppears`, `SlowsDown`, `StateExpires`, `FileFails`,
`ConstructRaises` and `Killed` are the kinds of `trouble`.

`RolloutRule` holds what the decision is computed with, as operators on a set of
events: pairing, segment metrics, the Wilson bound in integers,
`_select_mode`, `generate_rollout_policy`, `PolicyEngine.mode_for`, and the pair
counts of the audit and the doctor. `RolloutPipeline` extends it with the
commands: a benchmark (`DualArmExecutor` and the events file in place, or
`ProxyPairedExecutor` and a `.partial` file) beside an analyst (`policy` or
`phase2`, one file after the other). What `run_live` checks before and writes
after is in `LiveRun`.

`MC*` modules hold the small sets for TLC. The proofs about a module `M` are in
`MProofs`; eight modules have one (section 4).
Operators commented "Mutant:" are defects put in on purpose; no specification
uses them. They serve to show that each property notices one.

The modules meet where the code's components do. `SafeProxy` assumes of the store
that a lookup returns an entry written under its key or nothing; `ContextStore`
shows for one key that content is returned only if it was stored there, whole and
unexpired, while the read ran (`ReadsTrueOrRaced`). The false *corrupt* that a
race can produce is a miss to the proxy, which `SafeProxy` has through `Expire`;
there the entry is then gone, while in Redis the next reader may still find it.
`SessionAttribution` uses that each segment bumps one of pass, fallback and skip,
which `TelemetryBalances` states.

## 3. What the runs check

| Run | Instance | Shows |
|---|---|---|
| `proxy_concurrent` | 2 threads, 2 segments (one oversized), 2 queries, both contracts, Redis, every fault, 3 requests | `ForwardSafe` and its invariant `SafetyInv`; `TelemetryBalances`; `ColdOverrunsBounded`; `BudgetLatch`; `ImplementsBoundary` |
| `proxy_evicts` | 2 threads, 1 query, expiry only, fair | a rejected text is owned by a thread that will evict it (`RejectedEntryIsOwned`) and leaves (`RejectedEntriesLeave`); every request returns (`EveryRequestReturns`) |
| `stats_report` | 1 thread and the handler, in-memory cache, restarts, 4 requests | a hit does not run the model, every cold run reaches the gate, a report never counts budget bypasses without showing the exceeded budget |
| `store_reads` | 2 writers, 1 reader, TTL and tombstone of 1, clock to 2, outage and damage | reads are true or overtaken by a write or by damage to the envelope; expiry stays known; a tombstone covers its body |
| `paths_races` | 2 callers, 2 paths, 3 shadows, limit 2, 3 calls, every fault, lost replies included | a recent reference is lost only to a blind write; both readers answer with the last mapping; the reverse path of a shared shadow follows the last mapping |
| `session_turns` | 2 turns, 2 runs, 3 requests, 1 retry, timeout, restart, other clients, `require_proxy_telemetry` on or off | undisturbed turns carry their own outcomes; other counted traffic is refused with the check on and shows in the recorded count with it off |
| `live_run` | scenarios of 2 and 1 turns, 2 invocations of either command, any config, death anywhere, proxy reconfigured | published events are one whole run; a returned run is described; eligible evidence was observed; the declared contract was served unless the proxy changed during the run |
| `redis_drill` | one whole drill over earlier evidence, up to 2 kinds of trouble, fair | a PASS is earned (`PassIsEarned`), a FAIL has a cause, the return value is what the evidence says, nothing is left running, the drill ends |
| `rollout` | 2 `debugging` tasks and 1 `edit_critical`, 3 benchmarks, reports or deviating answers in all | a mode other than off is justified; worse evidence never unlocks more; readers agree on the pairs; the lineage describes the other files |
| `proxy_stale_hit` | 1 thread, expiry | **violated**, see below |
| `paths_transient_read` | 1 caller, outage | **violated** |
| `session_ambiguous` | other clients, the check on | **violated** |

Why the bounds are enough. The proxy's races are between a thread that looks up,
gates or caches and one that caches, evicts or is observed: two threads on one
key, and a third request after them to see what they left; a second query
separates keys, a second, oversized segment reaches the other branch of the gate.
Latencies 1 and 2 against a budget of 2 take both sides of `>=`. In the store, one
tick passes each deadline, and two writers produce the slow writer whose MULTI
overtakes. A path limit of 2 with three shadows overflows; the limit 8 only makes
the overflow longer, and three calls make it: a third shadow pushes the first out.
The drill needs two troubles for one to hide another, say a slow start and a
foreign server. In `rollout` the sample minimum is 2 (the code's is 5), so that
one type can meet it and the other cannot, and the degradation limit is 700 of
1000 (the code's is 20), since the Wilson bounds of two tasks are that far apart:
at the code's limit even a run without a failure needs about 189 pairs. The limits
of cost, fallback and latency are the code's, in thousandths. A budget of 3 buys
one benchmark, one report and one deviation, or a second of one of them. Three
requests give the turn's own, its late attempt or a foreign one, and the next
turn's. A second invocation is what finds the first one's leftovers. Bounds
(`MaxRequests`, `MaxTime`, `MaxReads`, `MaxSets`, `MaxTurns`, `MaxRuns`,
`MaxSegments`, `MaxTrouble`, `Budget`) appear only in guards.

Symmetry is used in the runs of `MCSafeProxy`, `MCContextStore` and `MCPathHistory`
whose properties are all safety properties, never with liveness.

`CHECK_DEADLOCK FALSE` is given where the bounded system really stops: when its
requests, calls, clock, turns or budget are used up or the drill has returned.

Fairness is used by two runs. `proxy_evicts`: weak fairness of each thread's next
step inside `compress`. A thread is scheduled again; it waits for the model call,
which ends by the timeout the proxy caps at its deadline (safe_proxy.py:365), and
for its Redis commands. The Redis client has no socket timeout, so that each
command returns or raises is an assumption about Redis and the network, not
something the code enforces. Nothing is assumed of arrivals, expiry or restarts.
`redis_drill`: weak fairness of `Proceeds`, the drill itself. The coordinator and
its worker are scheduled again. The waits for Redis to start and stop, for the
expiry and for the outage worker have deadlines (redis_drill.py:301-308, 318,
346-350, 409-420). Two have none, `subprocess.run` of a worker (326) and the
commands of the Redis client, and are assumed to return: a Redis that accepts a
connection and never replies is left out (section 5). Nothing is assumed of the
trouble.

Properties that say "unless" (`AttributedUnlessDisturbed`, `LostOnlyToBlindWrites`,
`DeclaredContractWasServed`, `ReadsTrueOrRaced`, `ReverseFollowsLastMapping`,
`FailsOnlyInTrouble`, `LineageDescribes`) name the only cause the model
admits for a loss, through a history variable that no action reads but to bound it. The
corresponding unconditional statements are the violated runs, or the README's
notes below.

### What the violated runs show

- `proxy_stale_hit`: the gate's docstring says hits are eligible "because they do
  not invoke the local model" (safe_proxy.py:26-27). The entry seen at 235 can
  expire before PariTok looks again at 254; the model then runs, and since the
  stale `cache_hit` also guards 256, the gate never learns of that run.
- `paths_transient_read`: a failed GET counts as an empty history
  (context_store.py:306-307), which a successful SET makes permanent;
  durable-context-storage.md:53-54 promises the eight most recent.
- `session_ambiguous`: only PariTok's request count is checked
  (session_live.py:90). Another request that compresses between the snapshots and
  is counted after them passes, and its outcomes become the turn's (README.md:242-244).

### What the exceptions of the passing runs say

- *Records.* A first store between the two GETs (context_store.py:224-225) shows a
  reader a tombstone without body: *corrupt*, though the record was consistent
  throughout. Nor is a reader that fetched an envelope before it was made unreadable
  told of that: it decides on what it has, perhaps once that has expired. Both are
  the `raced` of `ReadsTrueOrRaced`.
- *Paths.* Of two callers that map one path at once, the later write drops the
  other's reference (context_store.py:304, 322; `spoiled`). Of two calls that map
  one shadow at once, or one that breaks off between its writes, the reverse path
  may be the earlier one's (322-323; `tangled`). A write whose reply was lost counts as
  executed, because Redis did: the caller saw an error, yet the mapping is there.
- *Session.* With `require_proxy_telemetry` off nothing refuses a turn for other
  requests counted during it (session_live.py:90); the turn is recorded, and its
  `proxy_request_count` above 1 is the only trace (`CountedTrafficShows`). A restart
  in between can hide even that.
- *Live runs.* A proxy restarted with the other contract *between* two turns is
  not noticed, since contracts are compared with the config before the run
  (paritok.py:187) and within a turn (paritok.py:131) only (`changed`). A crash
  between the rename and the manifest (cli.py:570-615) leaves new events beside an
  old or half-written manifest; `ReturnedRunsAreDescribed` is what remains.
- *Drill.* Another Redis on the port answers the first ping before the drill's own
  child has failed to bind (redis_drill.py:305); stop() then shuts that server
  down (315), and `dedicated_loopback_instance` is recorded without a check (366).
  The isolation and privacy scans hold on a Redis that is empty, so `PassIsEarned`
  claims an answer from the drill's server only of the gates in `ReadBack`. An
  exception in the constructor of the coordinator returns 1 and leaves earlier
  PASS evidence and the temporary directory (`"setup"`). The expiry phase can see
  the record expired before Redis has dropped its body, a FAIL without a defect. A
  worker that misses its deadline in the outage phase is not killed (420), and a
  killed coordinator leaves Redis running.
- *Rollout.* The evidence label is an argument of the command and tied to nothing
  in the events. `run_offline` has no `.partial`, so a policy can rest on half a
  run; on one-armed events `run_phase2` writes the policy and then raises
  (dashboard.py:30-33), and it reads the events again for their hash (cli.py:310;
  `moved`).

## 4. What is proved

Eight modules, for every value of the constants that the assumptions allow. An
inductive invariant of a proof module speaks of every reachable state; the
property a run checks follows from it. Two things the provers cannot do are done
by hand where they are needed: an induction over data becomes an argument by the
least counterexample (`Smallest`), and what a library operator computes is taken
from its `CHOOSE` or its recursive function, once, in a lemma.

`SafeProxyProofs.tla`, for any finite set of workers, any segments, queries,
latencies, contracts, faults and bounds:

- `TypeCorrect`: `Spec => []TypeOK`, one case per action.
- `SafetyInvariant`, `ForwardingSafe`: `Spec => []SafetyInv`, hence `[]ForwardSafe`.
  `ForwardSafe` alone is not inductive: a thread forwards what it found in the
  cache, so one must know that what is *in* the cache under a key was made for
  that key (`CacheProvenance`), that what a thread *holds* was made for its request
  (`HeldProvenance`), and at which places it holds something (`HeldWhere`).
  Soundness of the text is established again by the validator at every return,
  which is why a rejected text left behind by a crash is harmless.
- `CountersBalance`: `Spec => []TelemetryBalances`. Inductive together with the
  types and with the reason a bypass or skip carries.
- `BudgetLatches`: `Spec => BudgetLatch`; the observed maximum never falls without
  a restart.
- `OverrunsBounded`: `Spec => []ColdOverrunsBounded`. Needs `GateInv`: from the first
  over-budget run on, the gate says so, and the overruns so far plus the cold
  threads still past the gate are at most the number of threads. After that no
  cold thread can pass the gate, and each overrun uses one up.
- `RejectedEntriesOwned`: `Spec => []RejectedEntryIsOwned`. Inductive once the store is
  known to be up and a disabled cache to be empty (`OwnedInv`): the thread that
  caches a rejected text owns it until it has evicted it, and a later write of
  the same key brings its own owner.
- `HitsStayHits`, `ColdRunsObserved`: `[]HitNeverInvokesModel`, `[]ColdRunsReachGate`, with
  one thread and no fault but restarts. What the first lookup saw then still holds
  at the second (`HitInv`), and a cold run that is observed but not yet counted is
  owed to the counters (`Owed`, `CountInv`). Expiry refutes the first (the violated
  run `proxy_stale_hit`), and so does a second thread that evicts the entry between
  the lookups, so the hypotheses cannot be dropped.
- `ProxyImplementsBoundary`: `Spec => Boundary!Spec` under
  `inflight <- [w |-> pc[w] # "idle"]`, `request <- job`: starting is `Accept`,
  returning an answer is `Forward`, raising is `Drop` of one thread, a restart is
  `Drop` of all threads in flight, every other step stutters.

The assumptions are those `SafeProxy` names: finitely many workers, natural
latencies and budget, contracts and faults among those the code has, the
sentinels `Exact` and `None` different from each other and from every text.

`StatsEndpointProofs.tla`, under the same assumptions:

- `StatsOnlyReads`: `StatsSpec => Spec`, so the theorems above hold beside the handler.
- `ReportsExplain`: `StatsSpec => []ReportExplainsBypasses`. A bypass for an exceeded
  budget is decided before it is counted, so the invariant speaks of bypasses under
  way as well (`BypassInv`); the sections are read in the code's order (`InOrder`), and
  what the telemetry section claims the gate read after it still shows
  (`ClaimsLast`), since only a restart resets it, and a restart ends the report too.

`ContextStoreProofs.tla`, for any writers, readers, contents, lifetimes, faults
and bounds:

- `TypeCorrect`: `Spec => []TypeOK`.
- `TombstonesCover`, `ExpiryKnown`: from `RecordInvariant`, `Spec => []RecordInv`. The
  two properties look at keys that are still alive, so by themselves they say
  nothing of what an overlapping writer will do with an old clock reading.
  `RecordInv` speaks of the keys as written: a body's deadline is never after its
  tombstone's, an envelope not yet written expires at most `Ttl` from now, and
  the tombstone of the last store lives `Tombstone` beyond that expiry.
- `ReadsTrue`: `Spec => []ReadsTrueOrRaced`. `ReaderInv` says what a reader
  knows after each GET: a body it found was true then (`KnowsBody`), and that it
  found none means there is still none unless a write overtook it
  (`KnowsNoBody`, `KnowsStatus`); damage that makes the envelope unreadable counts
  as a write does. Time passes one tick after the other and a reader in
  progress witnesses every state, hence also the first one in which the body
  it holds has expired.

The assumptions are positive lifetimes, natural bounds, the faults the code
knows, and a `None` that is no content, body, status or envelope.

`PathHistoryProofs.tla`, for any callers, paths, shadows and faults, any limit of at
least one, and a `None` that is neither a path nor a shadow:

- `ReverseFollows`: `Spec => []ReverseFollowsLastMapping`, from `ReverseInvariant`. The
  property speaks of times between calls; the invariant adds that a caller between
  its two writes, of an id that is not tangled, will write the path of the
  last mapping (`MidwayOwns`), and that a second caller there makes the id tangled.
- `TypeCorrect`, `RecentRetained`, `ReadersAlike`: `[]TypeOK`, `[]LostOnlyToBlindWrites`,
  `[]ReadersAgree`, from `HistoryInvariant`. A mapping that is not spoiled is the most
  recent references of what was told, in their order (`MappingInv`), and so is the
  copy a caller is about to write, with respect to what it read (`CopyInv`). The
  step is the lemma `RememberedIsMostRecent`: removing an id from the most recent
  references, appending it and dropping the oldest over the limit gives the most
  recent references again. It rests on how positions move when an element is
  removed, appended or dropped (`RemovedFirst` and the lemmas after it).
  `ReadersAlike` is about two stored fields: `shadow_id` comes from the caller's
  argument, `shadow_ids` from a copy it made before its SET. `MappingInv` says
  that both name the last id Redis was told (`Names`), spoiled or not, and `CopyInv`
  that a caller's copy ends with its own argument.

`SessionAttributionProofs.tla`, for any bounds and faults, and any settings of
`require_proxy_telemetry` that runs are started with (`Switches`):

- `TypeCorrect`, `TurnsAttributed` (`[]AttributedUnlessDisturbed`) and `TrafficShown`
  (`[]CountedTrafficShows`). The recorded turn is computed from snapshots, so the
  invariant follows the counters between them: the safety counters have moved by
  exactly the segments of the open attempt unless others compressed, and only a
  restart lets them fall short (`SafetyInv`); the native count has moved by the open
  attempt and by at least one for the others counted (`NativeInv`). `RunnerInv` and
  `FreshInv` tie the attempt to the runner's place and keep unsent requests silent.

`LiveRunProofs.tla`, for any list of scenarios, their turns and any number of
invocations:

- `TypeCorrect`, `ReturnedDescribed`, `EligibleObserved`, `DeclaredServed`, `PublishedWholeRun`.
  `RunInv` says the invocation under way has not returned, so a death between the
  rename and the manifest breaks no promise; `GateInv` what the gates and the probe
  have established; `OwnInv` that what is written is this invocation's and, in a
  watched treatment arm, saw a safe contract; `DeclaredInv` that it saw the declared
  one. `PlanInv` is the heart: the arms still to do, the events kept for the arm in
  progress and the `.partial` file together are every turn of the run, each once
  (`Written`); `WholeRun` is what it becomes at the rename. That a file of a whole run
  has as many events as the scenarios have turns is counted in `PairedSlots`.

`RedisDrillProofs.tla`, for any bound on the trouble:

- `TypeCorrect`, `NothingLeft` (`[]NothingLeftRunning`), `ReturnMatches`
  (`[]ReturnMatchesEvidence`). The invariant speaks of the script still to do:
  everything in front of the evidence is followed by every evidence file and the
  sums (`Covers`), and the script ends in the cleanup (`Ends`). An exception, the early
  return and the handler replace the script by others with the same shape, so that
  evidence not yet written is still to be written, from the gates as they are
  (`EvidenceInv`), and the Redis is stopped at the end whichever way it is reached
  (`LeftInv`).
- `PassEarned` (`[]PassIsEarned`), if `None` is not the name of a gate
  (`NoneAssumption`). `EarnedInv` says for each place of the script (`OnScript`) what the
  gates before it saw (`Seen`), which Redis holds the records that only a write leaves
  (`FirstWrite`, `SecondWrite`) and which starts of Redis lie between (`Epochs`); or that
  `run()` was left, and then its failure is noted before any file is written (`Off`).
- `FailureHasCause` (`[]FailsOnlyInTrouble`). `CalmInv`: without trouble the coordinator is
  on its script with every result good so far, Redis answers exactly where the
  script has it running (`Stands`) and holds what the phases to come look for (`Holds`).

`RolloutPipelineProofs.tla`, for any manifest of distinct tasks, thresholds, modes
and budget:

- `TypeCorrect`; `ReadersPairAlike` (`[]PairingsAgree`): on events of one run with each arm
  of a task at most once (`OneRun`) the three readers count the same pairs.
- `LineageTruthful` (`[]LineageDescribes`): `AnalystInv` follows `run_phase2` file by file,
  `LineageInv` says what a manifest keeps promising when its files are overwritten.
- `EnabledJustified` (`[]EnabledIsJustified`), if the cost improvement asked for is not
  zero, as the code's constant is not. `BenchInv` says that the file in progress
  holds exactly the arms that were run, hence that a file whose run is whole has two
  events per task; `Sound` is what every policy rests on, also if it is read from a
  run that died or goes on (`Made`).
- `WorseUnlocksNoMore` (`[]WorseNeverUnlocks`), of the rules alone, for any thresholds
  and events of one run: replacing a compressed event by one that is in no way
  better (`NoBetter`) leaves the pairs and the number of rows (`PairsStay`, `RowsStay`),
  lowers the success count by at most one and raises fallbacks, costs and the
  percentile (`RowsWorsen`). The rounded Wilson bound follows (`WilsonLowRises`), since one
  success moves the center by 1000 and the margin by less (`RootGrowsSlowly`); and a
  cost that still improves enough did so before (`ImprovementKept`).

Only model-checked: liveness (`EveryRequestReturns`, `RejectedEntriesLeave`,
`DrillEnds`), which is beyond the prover.

## 5. Not modelled

- PariTok's internals. It is external: a second lookup, a model call that answers
  or is skipped, a store and a cache write, in that order, as the proxy relies on.
- What the validator checks: any verdict is possible for any text.
- Cryptography (authentic or not), HTTP and server wiring, the summed latencies,
  token counts and costs.
- A `path_shortcircuit` result of PariTok, which the proxy counts as a cache hit
  (safe_proxy.py:265-267), and a rejected result without a `shadow_id`, which it does
  not evict (294): what such a result is, only PariTok's own code says.
- A tombstone that is malformed (context_store.py:231-235) or that Redis drops alone:
  damage is done to the body. A mapping that is partly readable.
- Pins: one SET and one EXISTS on keys of their own.
- Two invocations of the live runners at the same time on the same files: the
  runbook runs one. For the same reason one benchmark and one analyst.
- The evidence audit's review scores and contexts: arithmetic over a file of
  reviews that people write. They are keyed by task and arm and not by run, so
  those of an earlier run count for a later one (evidence.py:92).
- `decide_eligibility`, a table of conditions that nothing in the program calls;
  `run_compressor_compare`, which keeps its events in memory; the other segment
  dimensions of the policy.
- A Redis that accepts connections and never answers: its clients have no timeout,
  and the drill, like a thread of the proxy, would wait for ever.
- Of the drill: a body that lapses between a worker's `retrieve` and `exists`
  (redis_drill.py:145, 151), a Redis that refuses SHUTDOWN (315-322), and file
  failures other than of the evidence (292-295, 374, 390, 437-438, 442).
- Latency probe and phase 3.1 drill: sequential calls of components modelled here,
  folded into a report.
- Reports, dashboard, compatibility, workload text, economics, and of the doctor
  all but its checks of the events file: formatting, reads of the environment and
  arithmetic without state.

## 6. Plan

Done, in order: `SafetyBoundary`, `SafeProxy`, `SafeProxyProofs`, `StatsEndpoint`,
`ContextStore`, `PathHistory`, `SessionAttribution`, `LiveRun`, `RedisDrill`,
`RolloutRule`, `RolloutPipeline`, and a proof module for each of them but the
abstract boundary and the rules, which are proved about where they are used.

Every safety and action property that a run checks is proved. Next: the safety half of
`DrillEnds`, that each step of the coordinator shortens what is left of the drill
or is one of its bounded waits; and what the other segment dimensions of the
policy would add.
