------------------------------ MODULE SafeProxy ------------------------------
(***************************************************************************)
(* The safe proxy (safe_proxy.py): every thread that runs                  *)
(* ValidatedCompressionPipeline.compress, one step at a time, over the     *)
(* shared compressed cache (cache_safety.py, context_store.py), the        *)
(* admission gate and the safety counters.                                 *)
(*                                                                         *)
(* What is simplified:                                                     *)
(*   - a compressed text is a record saying which segment and which query  *)
(*     it was made for and whether the validator accepts it;  the verdict  *)
(*     is a function of the text, as in validator.py;                      *)
(*   - PariTok's own compress (super().compress) is external: it looks the *)
(*     cache up again, calls the model on a miss, stores the segment and   *)
(*     the compressed text, and returns.  It reports a model failure as a  *)
(*     skipped result and lets a storage exception out;                    *)
(*   - reading one key of the store is one step here; ContextStore.tla     *)
(*     takes it apart;                                                     *)
(*   - left out: a path_shortcircuit result of PariTok (265-267 counts it  *)
(*     as a cache hit), and a rejected result without a shadow_id, which   *)
(*     294 does not evict.                                                 *)
(* Bounds: MaxRequests caps the segments issued over all restarts.         *)
(***************************************************************************)
EXTENDS Naturals, FiniteSets

CONSTANTS
  Workers,        \* threads running compress
  Contents,       \* segments
  Queries,        \* active queries
  Oversized,      \* the segments above maximum_uncached_tokens
  Latencies,      \* the compression_ms a run can take
  LatencyBudget,  \* latency_budget_ms
  Contracts,      \* the cache contracts an operator starts the proxy with
  Backend,        \* "redis" or "memory"
  Faults,         \* which of "restart", "outage", "expiry" can happen
  MaxRequests,    \* bound on the segments issued
  Exact,          \* the answer "the segment's own bytes"
  None

Outputs == [content : Contents, query : Queries, sound : BOOLEAN]
Requests == [content : Contents, query : Queries]

ASSUME DomainAssumption ==
  /\ IsFiniteSet(Workers)
  /\ Oversized \subseteq Contents
  /\ Latencies \subseteq Nat
  /\ LatencyBudget \in Nat
  /\ MaxRequests \in Nat

ASSUME ConfigurationAssumption ==
  /\ Contracts \subseteq {"disabled", "query_aware"}
  /\ Backend \in {"redis", "memory"}
  /\ Faults \subseteq {"restart", "outage", "expiry"}
  \* only the Redis backend has a server to lose and a TTL
  /\ Backend = "memory" => Faults \subseteq {"restart"}

ASSUME SentinelAssumption == /\ None \notin Outputs
                             /\ Exact \notin Outputs
                             /\ Exact # None

VARIABLES
  contract,       \* the running proxy's cache contract
  cache,          \* the compressed cache, by <<segment, query>>
  storeUp,        \* Redis answers
  observedCalls,  \* gate: observed_uncached_calls
  observedMaxMs,  \* gate: observed_uncached_max_ms
  tel,            \* SafetyTelemetry's counters
  pc,             \* where each worker is in compress
  job,            \* the segment and the active query of its context
  hit,            \* its local cache_hit
  note,           \* the reason of a bypass or of a skipped result
  res,            \* the compressed text it holds, or None
  fromCache,      \* metadata["cache_hit"] of that text
  answer,         \* history: what it last forwarded, or None
  overruns,       \* history: over-budget runs observed since the start
  issued          \* history: segments issued

storeVars == <<contract, cache, storeUp>>
gateVars  == <<observedCalls, observedMaxMs, overruns>>
localVars == <<job, hit, note, res, fromCache>>
vars == <<storeVars, gateVars, tel, pc, localVars, answer, issued>>

Keys == Contents \X Queries

-----------------------------------------------------------------------------
(* The cache *)

\* Mutant: the key is the segment alone.
CacheKeyContentOnly(w) == <<job[w].content, CHOOSE q \in Queries : TRUE>>

\* QueryAwareStorage._cache_key: the segment and the query of the context.
CacheKey(w) == <<job[w].content, job[w].query>>

\* get_cached_compressed: None on a miss, an outage or under CacheDisabledStorage.
Cached(w) ==
  IF contract = "query_aware" /\ storeUp THEN cache[CacheKey(w)] ELSE None

EmptyCache == [k \in Keys |-> None]

\* cache_compressed and invalidate_compressed; both do nothing when disabled.
Put(w, o) ==
  cache' = IF contract = "query_aware" THEN [cache EXCEPT ![CacheKey(w)] = o]
                                       ELSE cache

\* Mutant: a rejected text is left in the cache.
InvalidateNothing(w) == cache' = cache

\* Mutant: the fallback's original is cached in place of the rejected text.
InvalidateByOriginal(w) == Put(w, Exact)

Invalidate(w) == Put(w, None)
-----------------------------------------------------------------------------
(* The admission gate *)

BudgetObserved == observedCalls > 0 /\ observedMaxMs >= LatencyBudget

\* Mutant: the budget is never looked at.
ReasonForSizeOnly(c, cacheHit) ==
  IF ~cacheHit /\ c \in Oversized THEN "oversized" ELSE "none"

\* CompressionEligibilityGate.reason, None read as "none".
ReasonFor(c, cacheHit) ==
  CASE cacheHit                                      -> "none"
    [] ~cacheHit /\ c \in Oversized                  -> "oversized"
    [] ~cacheHit /\ c \notin Oversized /\ BudgetObserved    -> "overbudget"
    [] ~cacheHit /\ c \notin Oversized /\ ~BudgetObserved   -> "none"

\* The gate's decision for worker w.
Reason(w) == ReasonFor(job[w].content, hit[w])

\* Mutant: the last latency replaces the maximum.
ObserveUncachedLast(ms) ==
  /\ observedCalls' = observedCalls + 1
  /\ observedMaxMs' = ms
  /\ overruns' = IF ms >= LatencyBudget THEN overruns + 1 ELSE overruns

\* Mutant: only slow runs are counted.
ObserveUncachedSlowOnly(ms) ==
  /\ observedCalls' = IF ms >= LatencyBudget THEN observedCalls + 1 ELSE observedCalls
  /\ observedMaxMs' = IF ms > observedMaxMs THEN ms ELSE observedMaxMs
  /\ overruns' = IF ms >= LatencyBudget THEN overruns + 1 ELSE overruns

\* CompressionEligibilityGate.observe_uncached
ObserveUncached(ms) ==
  /\ observedCalls' = observedCalls + 1
  /\ observedMaxMs' = IF ms > observedMaxMs THEN ms ELSE observedMaxMs
  /\ overruns' = IF ms >= LatencyBudget THEN overruns + 1 ELSE overruns
-----------------------------------------------------------------------------
(* The counters: each record_* method is one locked section *)

Counters == {"total", "validated", "passes", "fallbacks", "exact", "skipped",
             "hits", "bypasses", "deadline", "rejected", "modelTimeout",
             "oversized", "overbudget"}

ZeroCounters == [c \in Counters |-> 0]

\* Add one to every counter of S.
Bump(S) == tel' = [c \in Counters |-> IF c \in S THEN tel[c] + 1 ELSE tel[c]]

HitCounter(w) == IF fromCache[w] THEN {"hits"} ELSE {}

RecordPass(w) == Bump({"total", "validated", "passes"} \cup HitCounter(w))

RecordFallback(w) ==
  Bump({"total", "validated", "fallbacks", "exact", "rejected"} \cup HitCounter(w))

\* Mutant: a backend error is not counted as an exact-original fallback.
RecordSkipNotExact(w) ==
  Bump({"total", "skipped"}
       \cup (IF note[w] \in {"backend_timeout", "backend_error"}
               THEN {"fallbacks", "modelTimeout"} ELSE {})
       \cup (IF note[w] = "backend_timeout" THEN {"deadline"} ELSE {}))

\* Every backend error is counted under the reason model_timeout; only one
\* that says "timeout" is a deadline fallback.
RecordSkip(w) ==
  Bump({"total", "skipped"}
       \cup (IF note[w] \in {"backend_timeout", "backend_error"}
               THEN {"fallbacks", "exact", "modelTimeout"} ELSE {})
       \cup (IF note[w] = "backend_timeout" THEN {"deadline"} ELSE {}))

RecordEligibilityBypass(w) == Bump({"total", "skipped", "bypasses", note[w]})
-----------------------------------------------------------------------------
(* compress, one step at a time *)

Goto(w, from, to) == pc[w] = from /\ pc' = [pc EXCEPT ![w] = to]

\* compress returns: a is forwarded and the locals are gone.
Return(w, from, a) ==
  /\ Goto(w, from, "idle")
  /\ answer' = [answer EXCEPT ![w] = a]
  /\ hit' = [hit EXCEPT ![w] = FALSE]
  /\ note' = [note EXCEPT ![w] = "none"]
  /\ res' = [res EXCEPT ![w] = None]
  /\ fromCache' = [fromCache EXCEPT ![w] = FALSE]
  /\ UNCHANGED <<job, issued>>

\* A segment arrives; set_active_query binds the query to this context.
Begin(w) ==
  /\ issued < MaxRequests
  /\ Goto(w, "idle", "lookup")
  /\ \E r \in Requests : job' = [job EXCEPT ![w] = r]
  /\ answer' = [answer EXCEPT ![w] = None]
  /\ issued' = issued + 1
  /\ UNCHANGED <<storeVars, gateVars, tel, hit, note, res, fromCache>>

\* Mutant: the lookup runs before the query is bound and sees any query's entry.
FirstLookupAnyQuery(w) ==
  /\ Goto(w, "lookup", "gate")
  /\ hit' = [hit EXCEPT ![w] = \E q \in Queries : cache[<<job[w].content, q>>] # None]
  /\ UNCHANGED <<storeVars, gateVars, tel, job, note, res, fromCache, answer, issued>>

\* cache_hit = get_cached_compressed(sid) is not None
FirstLookup(w) ==
  /\ Goto(w, "lookup", "gate")
  /\ hit' = [hit EXCEPT ![w] = Cached(w) # None]
  /\ UNCHANGED <<storeVars, gateVars, tel, job, note, res, fromCache, answer, issued>>

Admit(w) ==
  /\ Reason(w) = "none"
  /\ Goto(w, "gate", "compress")
  /\ UNCHANGED <<storeVars, gateVars, tel, localVars, answer, issued>>

Bypass(w) ==
  /\ Reason(w) # "none"
  /\ Goto(w, "gate", "bypass")
  /\ note' = [note EXCEPT ![w] = Reason(w)]
  /\ UNCHANGED <<storeVars, gateVars, tel, job, hit, res, fromCache, answer, issued>>

ReturnBypass(w) ==
  /\ Return(w, "bypass", Exact)
  /\ RecordEligibilityBypass(w)
  /\ UNCHANGED <<storeVars, gateVars>>

\* super().compress looks the cache up again.
SecondLookup(w) ==
  /\ \/ /\ Cached(w) # None
        /\ Goto(w, "compress", "observe")
        /\ res' = [res EXCEPT ![w] = Cached(w)]
        /\ fromCache' = [fromCache EXCEPT ![w] = TRUE]
     \/ /\ Cached(w) = None
        /\ Goto(w, "compress", "model")
        /\ UNCHANGED <<res, fromCache>>
  /\ UNCHANGED <<storeVars, gateVars, tel, job, hit, note, answer, issued>>

\* The local model answers with a text of this segment for this query.
ModelAnswers(w) ==
  /\ Goto(w, "model", "store")
  /\ \E s \in BOOLEAN :
       res' = [res EXCEPT ![w] = [content |-> job[w].content,
                                  query   |-> job[w].query,
                                  sound   |-> s]]
  /\ UNCHANGED <<storeVars, gateVars, tel, job, hit, note, fromCache, answer, issued>>

\* Mutant: a failed model call is tried again from the start.
ModelSkipsRetries(w) ==
  /\ Goto(w, "model", "compress")
  /\ UNCHANGED <<storeVars, gateVars, tel, localVars, answer, issued>>

\* The model fails, or PariTok finds the segment not worth compressing.
ModelSkips(w) ==
  /\ Goto(w, "model", "observe")
  /\ \E n \in {"backend_timeout", "backend_error", "refused"} :
       note' = [note EXCEPT ![w] = n]
  /\ UNCHANGED <<storeVars, gateVars, tel, job, hit, res, fromCache, answer, issued>>

\* storage.store and cache_compressed: cached before it is validated.
CacheResult(w) ==
  /\ storeUp
  /\ Goto(w, "store", "observe")
  /\ Put(w, res[w])
  /\ UNCHANGED <<contract, storeUp, gateVars, tel, localVars, answer, issued>>

\* compression_ms is measured; only a run that was cold at the first lookup
\* is shown to the gate.
Observe(w) ==
  /\ Goto(w, "observe", IF res[w] = None THEN "skipped" ELSE "validate")
  /\ \E ms \in Latencies :
       IF hit[w] THEN UNCHANGED gateVars ELSE ObserveUncached(ms)
  /\ UNCHANGED <<storeVars, tel, localVars, answer, issued>>

ReturnSkipped(w) ==
  /\ Return(w, "skipped", Exact)
  /\ RecordSkip(w)
  /\ UNCHANGED <<storeVars, gateVars>>

\* Mutant: a text that came from the cache is not validated again.
ValidatorTrustsCache(w) == fromCache[w] \/ res[w].sound

\* validate_or_fallback: the verdict on the text the worker holds.
Accepts(w) == res[w].sound

ReturnPass(w) ==
  /\ Return(w, "validate", res[w])
  /\ Accepts(w)
  /\ RecordPass(w)
  /\ UNCHANGED <<storeVars, gateVars>>

Reject(w) ==
  /\ Goto(w, "validate", "invalidate")
  /\ ~Accepts(w)
  /\ UNCHANGED <<storeVars, gateVars, tel, localVars, answer, issued>>

\* invalidate_compressed, which reaches Redis only under query_aware.
InvalidateRejected(w) ==
  /\ contract = "query_aware" => storeUp
  /\ Goto(w, "invalidate", "fallback")
  /\ Invalidate(w)
  /\ UNCHANGED <<contract, storeUp, gateVars, tel, localVars, answer, issued>>

ReturnFallback(w) ==
  /\ Return(w, "fallback", Exact)
  /\ RecordFallback(w)
  /\ UNCHANGED <<storeVars, gateVars>>

\* Redis is down at a write: the exception leaves compress, nothing is
\* recorded and nothing is forwarded.
StorageRaises(w) ==
  /\ ~storeUp
  /\ \/ Return(w, "store", None)
     \/ contract = "query_aware" /\ Return(w, "invalidate", None)
  /\ UNCHANGED <<storeVars, gateVars, tel>>

WorkerStep(w) ==
  \/ FirstLookup(w) \/ Admit(w) \/ Bypass(w) \/ ReturnBypass(w)
  \/ SecondLookup(w) \/ ModelAnswers(w) \/ ModelSkips(w) \/ CacheResult(w)
  \/ Observe(w) \/ ReturnSkipped(w) \/ ReturnPass(w) \/ Reject(w)
  \/ InvalidateRejected(w) \/ ReturnFallback(w) \/ StorageRaises(w)
-----------------------------------------------------------------------------
(* The environment *)

\* Redis drops an entry whose TTL has passed.
Expire(k) ==
  /\ "expiry" \in Faults
  /\ cache[k] # None
  /\ cache' = [cache EXCEPT ![k] = None]
  /\ UNCHANGED <<contract, storeUp, gateVars, tel, pc, localVars, answer, issued>>

Outage ==
  /\ "outage" \in Faults
  /\ storeUp' = ~storeUp
  /\ UNCHANGED <<contract, cache, gateVars, tel, pc, localVars, answer, issued>>

\* The process dies and is started again.  Startup needs Redis (from_url
\* pings it and refuses a memory fallback); every counter and the gate start
\* from zero, and only a Redis cache is still there.
Restart ==
  /\ "restart" \in Faults
  /\ storeUp
  /\ contract' \in Contracts
  /\ cache' = IF Backend = "redis" THEN cache ELSE EmptyCache
  /\ observedCalls' = 0
  /\ observedMaxMs' = 0
  /\ overruns' = 0
  /\ tel' = ZeroCounters
  /\ pc' = [w \in Workers |-> "idle"]
  /\ hit' = [w \in Workers |-> FALSE]
  /\ note' = [w \in Workers |-> "none"]
  /\ res' = [w \in Workers |-> None]
  /\ fromCache' = [w \in Workers |-> FALSE]
  /\ UNCHANGED <<storeUp, job, answer, issued>>

Init ==
  /\ contract \in Contracts
  /\ cache = EmptyCache
  /\ storeUp = TRUE
  /\ observedCalls = 0
  /\ observedMaxMs = 0
  /\ overruns = 0
  /\ tel = ZeroCounters
  /\ pc = [w \in Workers |-> "idle"]
  /\ \E r \in Requests : job = [w \in Workers |-> r]
  /\ hit = [w \in Workers |-> FALSE]
  /\ note = [w \in Workers |-> "none"]
  /\ res = [w \in Workers |-> None]
  /\ fromCache = [w \in Workers |-> FALSE]
  /\ answer = [w \in Workers |-> None]
  /\ issued = 0

Next ==
  \/ \E w \in Workers : Begin(w) \/ WorkerStep(w)
  \/ \E k \in Keys : Expire(k)
  \/ Outage
  \/ Restart

Spec == Init /\ [][Next]_vars

\* A thread inside compress is scheduled again; the model call it waits for
\* ends by its own timeout (the proxy caps it at the deadline).  A command of
\* the Redis client, which has no timeout, is assumed to return or to raise.
FairSpec == Spec /\ \A w \in Workers : WF_vars(WorkerStep(w))
-----------------------------------------------------------------------------
(* Properties *)

Places == {"idle", "lookup", "gate", "bypass", "compress", "model", "store",
           "observe", "skipped", "validate", "invalidate", "fallback"}

Notes == {"none", "oversized", "overbudget",
          "backend_timeout", "backend_error", "refused"}

\* Every variable keeps its type.
TypeOK ==
  /\ contract \in Contracts
  /\ cache \in [Keys -> Outputs \cup {None}]
  /\ storeUp \in BOOLEAN
  /\ observedCalls \in Nat
  /\ observedMaxMs \in Nat
  /\ overruns \in Nat
  /\ tel \in [Counters -> Nat]
  /\ pc \in [Workers -> Places]
  /\ job \in [Workers -> Requests]
  /\ hit \in [Workers -> BOOLEAN]
  /\ note \in [Workers -> Notes]
  /\ res \in [Workers -> Outputs \cup {None}]
  /\ fromCache \in [Workers -> BOOLEAN]
  /\ answer \in [Workers -> Outputs \cup {Exact, None}]
  /\ issued \in Nat

\* What is forwarded is the segment itself, or a text made from this very
\* segment for this very query that the validator accepts: whatever other
\* workers cache, reject or evict meanwhile, and whatever a crash left in the
\* cache (invariant 3 of architecture.md; compress, safe_proxy.py:224-311).
ForwardSafe ==
  \A w \in Workers : (pc[w] = "idle" /\ answer[w] \notin {Exact, None}) =>
    /\ answer[w].sound
    /\ answer[w].content = job[w].content
    /\ answer[w].query = job[w].query

\* Why ForwardSafe holds: an entry was made for the segment and the query of
\* its key (QueryAwareStorage, cache_safety.py:210-234), so what a worker
\* finds was made for its own request, whoever put it there and whenever.
CacheProvenance ==
  \A k \in Keys : cache[k] # None =>
    cache[k].content = k[1] /\ cache[k].query = k[2]

HeldProvenance ==
  \A w \in Workers : res[w] # None =>
    res[w].content = job[w].content /\ res[w].query = job[w].query

\* What a worker holds at each place, and that it answers only by returning.
HeldWhere ==
  \A w \in Workers :
    /\ pc[w] \in {"idle", "lookup", "gate", "bypass", "compress", "model"}
         => res[w] = None
    /\ pc[w] \in {"store", "validate", "invalidate", "fallback"}
         => res[w] # None
    /\ pc[w] = "bypass" => note[w] \in {"oversized", "overbudget"}
    /\ pc[w] # "idle" => answer[w] = None

\* The inductive invariant behind ForwardSafe.
SafetyInv ==
  CacheProvenance /\ HeldProvenance /\ HeldWhere /\ ForwardSafe

\* The safety counters agree with one another in every snapshot: every
\* segment is validated or skipped, every validation passes or falls back,
\* every fallback forwarded the exact original and has a reason.  The session
\* runner aborts when they disagree (SafetyTelemetry, safe_proxy.py:64-167;
\* session_live.py:206-217).
TelemetryBalances ==
  /\ tel["total"] = tel["validated"] + tel["skipped"]
  /\ tel["validated"] = tel["passes"] + tel["rejected"]
  /\ tel["fallbacks"] = tel["exact"]
  /\ tel["fallbacks"] = tel["rejected"] + tel["modelTimeout"]
  /\ tel["bypasses"] = tel["oversized"] + tel["overbudget"]
  /\ tel["bypasses"] + tel["modelTimeout"] <= tel["skipped"]
  /\ tel["deadline"] <= tel["modelTimeout"]
  /\ tel["hits"] <= tel["validated"]

\* The gate is checked and later fed in two locked sections, so several
\* workers can be inside a cold run when the budget is first exceeded; but
\* no more runs over the budget are ever observed than there are workers
\* (reason and observe_uncached, safe_proxy.py:36-52).
ColdOverrunsBounded == overruns <= Cardinality(Workers)

\* Why: the workers already past the gate with a cold segment are the only
\* ones that can still add to overruns once the budget is observed.
PastGateCold ==
  {w \in Workers : ~hit[w] /\ pc[w] \in {"compress", "model", "store", "observe"}}

GateInv ==
  overruns > 0 => /\ BudgetObserved
                  /\ overruns + Cardinality(PastGateCold) <= Cardinality(Workers)

\* Once the budget has been observed as exceeded, it stays so until the
\* process is restarted, however fast later runs are (safe_proxy.py:26).
BudgetLatch == [][BudgetObserved => BudgetObserved' \/ Restart]_vars

\* A worker admitted as a cache hit does not invoke the local model
\* (safe_proxy.py:26-27).
HitNeverInvokesModel == \A w \in Workers : hit[w] => pc[w] # "model"

\* Every validated text that did not come from the cache was a cold run shown
\* to the gate, so the gate cannot miss a slow one (safe_proxy.py:256-257).
ColdRunsReachGate == tel["validated"] <= tel["hits"] + observedCalls

\* A text the validator rejects is in the cache only while a worker that
\* holds it, and will evict it, is on its way; unless a crash or an outage
\* took that worker (invalidate_compressed, safe_proxy.py:294-295).
RejectedEntryIsOwned ==
  Faults \cap {"restart", "outage"} = {} =>
    \A k \in Keys : (cache[k] # None /\ ~cache[k].sound) =>
      \E w \in Workers : /\ CacheKey(w) = k
                         /\ pc[w] \in {"observe", "validate", "invalidate"}
                         /\ res[w] # None /\ ~res[w].sound

\* Every segment taken up is answered or fails: no worker waits for another,
\* for the gate or for the store for ever.
EveryRequestReturns ==
  \A w \in Workers : pc[w] # "idle" ~> pc[w] = "idle"

\* Without crash or outage a rejected text does not stay in the cache.
RejectedEntriesLeave ==
  \A k \in Keys : (cache[k] # None /\ ~cache[k].sound)
                    ~> (cache[k] = None \/ cache[k].sound)

\* The proxy implements the promise of SafetyBoundary.
Boundary == INSTANCE SafetyBoundary WITH
              inflight <- [w \in Workers |-> pc[w] # "idle"],
              request  <- job

\* Every behaviour of the proxy, with its races, faults and restarts, is one
\* of the boundary: a segment in flight is answered at most once and safely,
\* or dropped.
ImplementsBoundary == Boundary!Spec
=============================================================================
