--------------------------- MODULE SafeProxyProofs ---------------------------
(***************************************************************************)
(* Proofs about SafeProxy, for every set of workers, segments and queries, *)
(* every fault and every bound.                                            *)
(***************************************************************************)
EXTENDS SafeProxy, FiniteSetTheorems, TLAPS

\* A step takes a worker through compress, or is a step of the environment.
LEMMA ReasonType ==
  ASSUME NEW c, NEW h \in BOOLEAN
  PROVE  ReasonFor(c, h) \in {"none", "oversized", "overbudget"}
  BY DEF ReasonFor

\* Bumping counters keeps them natural numbers.
LEMMA BumpType ==
  ASSUME tel \in [Counters -> Nat], NEW S, Bump(S)
  PROVE  tel' \in [Counters -> Nat]
  BY DEF Bump

\* Returning from compress keeps the types of the worker's locals.
LEMMA ReturnType ==
  ASSUME TypeOK, NEW w \in Workers, NEW p, NEW a \in Outputs \cup {Exact, None},
         Return(w, p, a)
  PROVE  /\ pc' \in [Workers -> Places]
         /\ job' \in [Workers -> Requests]
         /\ hit' \in [Workers -> BOOLEAN]
         /\ note' \in [Workers -> Notes]
         /\ res' \in [Workers -> Outputs \cup {None}]
         /\ fromCache' \in [Workers -> BOOLEAN]
         /\ answer' \in [Workers -> Outputs \cup {Exact, None}]
         /\ issued' \in Nat
  BY DEF TypeOK, Return, Goto, Places, Notes

\* The cache key of a worker is a key of the cache.
LEMMA KeyType ==
  ASSUME TypeOK, NEW w \in Workers
  PROVE  /\ CacheKey(w) \in Keys
         /\ Cached(w) \in Outputs \cup {None}
  BY DEF TypeOK, CacheKey, Keys, Requests, Cached

\* Writing an entry, or None, keeps the cache's type.
LEMMA PutType ==
  ASSUME TypeOK, NEW w \in Workers, NEW o \in Outputs \cup {None}, Put(w, o)
  PROVE  cache' \in [Keys -> Outputs \cup {None}]
  BY KeyType DEF TypeOK, Put

\* Every step of a worker keeps every variable's type.
LEMMA WorkerTypes ==
  ASSUME TypeOK, NEW w \in Workers, Begin(w) \/ WorkerStep(w)
  PROVE  TypeOK'
<1> USE DEF TypeOK
<1>1. CASE Begin(w)
  BY <1>1 DEF Begin, Goto, Places, storeVars, gateVars, localVars
<1>2. CASE FirstLookup(w)
  BY <1>2 DEF FirstLookup, Goto, Places, storeVars, gateVars, localVars
<1>3. CASE Admit(w)
  BY <1>3 DEF Admit, Goto, Places, storeVars, gateVars, localVars
<1>4. CASE Bypass(w)
  <2>1. Reason(w) \in {"none", "oversized", "overbudget"}
    BY ReasonType DEF Reason
  <2> QED
    BY <1>4, <2>1 DEF Bypass, Goto, Places, Notes, storeVars, gateVars, localVars
<1>5. CASE ReturnBypass(w)
  BY <1>5, ReturnType, BumpType
     DEF ReturnBypass, RecordEligibilityBypass, storeVars, gateVars
<1>6. CASE SecondLookup(w)
  <2>1. PICK o \in Outputs \cup {None} : o = Cached(w)
    BY KeyType
  <2>2. pc' \in [Workers -> Places]
    BY <1>6 DEF SecondLookup, Goto, Places
  <2>3. res' \in [Workers -> Outputs \cup {None}]
    BY <1>6, <2>1 DEF SecondLookup
  <2>4. fromCache' \in [Workers -> BOOLEAN]
    BY <1>6, <2>1 DEF SecondLookup
  <2> QED
    BY <1>6, <2>2, <2>3, <2>4 DEF SecondLookup, storeVars, gateVars, localVars
<1>7. CASE ModelAnswers(w)
  BY <1>7 DEF ModelAnswers, Goto, Places, Requests, Outputs,
              storeVars, gateVars, localVars
<1>8. CASE ModelSkips(w)
  BY <1>8 DEF ModelSkips, Goto, Places, Notes, storeVars, gateVars, localVars
<1>9. CASE CacheResult(w)
  BY <1>9, PutType DEF CacheResult, Goto, Places, gateVars, localVars
<1>10. CASE Observe(w)
  BY <1>10, DomainAssumption
     DEF Observe, ObserveUncached, Goto, Places, storeVars, gateVars, localVars
<1>11. CASE ReturnSkipped(w)
  BY <1>11, ReturnType, BumpType DEF ReturnSkipped, RecordSkip, storeVars, gateVars
<1>12. CASE ReturnPass(w)
  BY <1>12, ReturnType, BumpType DEF ReturnPass, RecordPass, storeVars, gateVars
<1>13. CASE Reject(w)
  BY <1>13 DEF Reject, Goto, Places, storeVars, gateVars, localVars
<1>14. CASE InvalidateRejected(w)
  BY <1>14, PutType
     DEF InvalidateRejected, Invalidate, Goto, Places, gateVars, localVars
<1>15. CASE ReturnFallback(w)
  BY <1>15, ReturnType, BumpType DEF ReturnFallback, RecordFallback, storeVars, gateVars
<1>16. CASE StorageRaises(w)
  BY <1>16, ReturnType DEF StorageRaises, storeVars, gateVars
<1> QED
  BY <1>1, <1>2, <1>3, <1>4, <1>5, <1>6, <1>7, <1>8, <1>9, <1>10, <1>11,
     <1>12, <1>13, <1>14, <1>15, <1>16 DEF WorkerStep

\* The type invariant holds in every reachable state.
THEOREM TypeCorrect == Spec => []TypeOK
<1>1. Init => TypeOK
  BY DEF Init, TypeOK, EmptyCache, ZeroCounters, Places, Notes
<1>2. TypeOK /\ [Next]_vars => TypeOK'
  <2> SUFFICES ASSUME TypeOK, [Next]_vars PROVE TypeOK'
    OBVIOUS
  <2>1. CASE \E w \in Workers : Begin(w) \/ WorkerStep(w)
    BY <2>1, WorkerTypes
  <2>2. CASE \E k \in Keys : Expire(k)
    BY <2>2 DEF TypeOK, Expire, gateVars, localVars
  <2>3. CASE Outage
    BY <2>3 DEF TypeOK, Outage, gateVars, localVars
  <2>4. CASE Restart
    BY <2>4 DEF TypeOK, Restart, EmptyCache, ZeroCounters, Places, Notes
  <2>5. CASE UNCHANGED vars
    BY <2>5 DEF TypeOK, vars, storeVars, gateVars, localVars
  <2> QED
    BY <2>1, <2>2, <2>3, <2>4, <2>5 DEF Next
<1> QED
  BY <1>1, <1>2, PTL DEF Spec

-----------------------------------------------------------------------------
(* Forwarding is safe *)

\* A returning worker that answers safely leaves the other workers alone.
LEMMA ReturnSafe ==
  ASSUME TypeOK, SafetyInv, cache' = cache,
         NEW w \in Workers, NEW p \in Places, NEW a, Return(w, p, a),
         a \notin {Exact, None} => /\ a.sound
                                   /\ a.content = job[w].content
                                   /\ a.query = job[w].query
  PROVE  SafetyInv'
<1>1. CacheProvenance'
  BY DEF SafetyInv, CacheProvenance
<1>2. HeldProvenance'
  BY DEF SafetyInv, HeldProvenance, Return, TypeOK
<1>3. HeldWhere'
  BY DEF SafetyInv, HeldWhere, Return, Goto, TypeOK
<1>4. ForwardSafe'
  BY DEF SafetyInv, ForwardSafe, Return, Goto, TypeOK
<1> QED
  BY <1>1, <1>2, <1>3, <1>4 DEF SafetyInv

\* A step that moves one worker inside compress and changes neither the cache
\* nor what it holds.
LEMMA MoveSafe ==
  ASSUME TypeOK, SafetyInv, NEW w \in Workers, NEW p, NEW q \in Places \ {"idle"},
         Goto(w, p, q), UNCHANGED <<cache, job, res, answer>>,
         p # "idle",
         q \in {"lookup", "gate", "bypass", "compress", "model"} => res[w] = None,
         q \in {"store", "validate", "invalidate", "fallback"} => res[w] # None,
         q = "bypass" => note'[w] \in {"oversized", "overbudget"},
         \A v \in Workers \ {w} : note'[v] = note[v]
  PROVE  SafetyInv'
<1>1. CacheProvenance'
  BY DEF SafetyInv, CacheProvenance
<1>2. HeldProvenance'
  BY DEF SafetyInv, HeldProvenance
<1>3. HeldWhere'
  BY DEF SafetyInv, HeldWhere, Goto, TypeOK
<1>4. ForwardSafe'
  BY DEF SafetyInv, ForwardSafe, Goto, TypeOK
<1> QED
  BY <1>1, <1>2, <1>3, <1>4 DEF SafetyInv

\* The steps that touch what a worker holds, its request, or the cache.
LEMMA BeginSafe ==
  ASSUME TypeOK, SafetyInv, NEW w \in Workers, Begin(w)
  PROVE  SafetyInv'
<1>1. CacheProvenance'
  BY DEF SafetyInv, CacheProvenance, Begin, storeVars
<1>2. HeldProvenance'
  BY DEF SafetyInv, HeldProvenance, HeldWhere, Begin, Goto, TypeOK
<1>3. HeldWhere'
  BY DEF SafetyInv, HeldWhere, Begin, Goto, TypeOK
<1>4. ForwardSafe'
  BY DEF SafetyInv, ForwardSafe, Begin, Goto, TypeOK
<1> QED
  BY <1>1, <1>2, <1>3, <1>4 DEF SafetyInv

LEMMA SecondLookupSafe ==
  ASSUME TypeOK, SafetyInv, NEW w \in Workers, SecondLookup(w)
  PROVE  SafetyInv'
<1>1. CASE Cached(w) = None
  <2>1. /\ Goto(w, "compress", "model")
        /\ UNCHANGED <<cache, job, res, note, answer>>
    BY <1>1 DEF SecondLookup, storeVars
  <2>2. res[w] = None
    BY <2>1 DEF SafetyInv, HeldWhere, Goto
  <2> QED
    BY <2>1, <2>2, MoveSafe DEF Places
<1>2. CASE Cached(w) # None
  <2>1. PICK o \in Outputs : o = Cached(w)
    BY <1>2, KeyType
  <2>2. o.content = job[w].content /\ o.query = job[w].query
    <3>1. CacheKey(w) \in Keys /\ o = cache[CacheKey(w)] /\ o # None
      BY <1>2, <2>1, KeyType DEF Cached
    <3> QED
      BY <3>1 DEF SafetyInv, CacheProvenance, CacheKey
  <2>3. /\ Goto(w, "compress", "observe")
        /\ res' = [res EXCEPT ![w] = o]
        /\ UNCHANGED <<cache, job, note, answer>>
    BY <1>2, <2>1 DEF SecondLookup, storeVars
  <2>4. CacheProvenance'
    BY <2>3 DEF SafetyInv, CacheProvenance
  <2>5. HeldProvenance'
    BY <2>2, <2>3 DEF SafetyInv, HeldProvenance, TypeOK
  <2>6. HeldWhere'
    BY <2>3 DEF SafetyInv, HeldWhere, Goto, TypeOK
  <2>7. ForwardSafe'
    BY <2>3 DEF SafetyInv, ForwardSafe, Goto, TypeOK
  <2> QED
    BY <2>4, <2>5, <2>6, <2>7 DEF SafetyInv
<1> QED
  BY <1>1, <1>2

LEMMA ModelAnswersSafe ==
  ASSUME TypeOK, SafetyInv, NEW w \in Workers, ModelAnswers(w)
  PROVE  SafetyInv'
<1>1. PICK o \in Outputs : /\ res' = [res EXCEPT ![w] = o]
                           /\ o.content = job[w].content
                           /\ o.query = job[w].query
  BY DEF ModelAnswers, Outputs, TypeOK, Requests
<1>2. /\ Goto(w, "model", "store")
      /\ UNCHANGED <<cache, job, note, answer>>
  BY DEF ModelAnswers, storeVars
<1>3. CacheProvenance'
  BY <1>2 DEF SafetyInv, CacheProvenance
<1>4. HeldProvenance'
  BY <1>1, <1>2 DEF SafetyInv, HeldProvenance, TypeOK
<1>5. HeldWhere'
  BY <1>1, <1>2, SentinelAssumption DEF SafetyInv, HeldWhere, Goto, TypeOK
<1>6. ForwardSafe'
  BY <1>2 DEF SafetyInv, ForwardSafe, Goto, TypeOK
<1> QED
  BY <1>3, <1>4, <1>5, <1>6 DEF SafetyInv

LEMMA WriteSafe ==
  ASSUME TypeOK, SafetyInv, NEW w \in Workers, NEW o \in {res[w], None},
         Put(w, o), NEW p \in {"store", "invalidate"},
         NEW q \in {"observe", "fallback"}, Goto(w, p, q),
         UNCHANGED <<job, res, note, answer>>
  PROVE  SafetyInv'
<1>1. CacheProvenance'
  <2> SUFFICES ASSUME NEW k \in Keys, cache'[k] # None
               PROVE  cache'[k].content = k[1] /\ cache'[k].query = k[2]
    BY DEF CacheProvenance
  <2>1. CASE cache'[k] = cache[k]
    BY <2>1 DEF SafetyInv, CacheProvenance
  <2>2. CASE cache'[k] # cache[k]
    <3>1. k = CacheKey(w) /\ cache'[k] = o
      BY <2>2, KeyType DEF Put, TypeOK
    <3> QED
      BY <3>1 DEF SafetyInv, HeldProvenance, CacheKey
  <2> QED
    BY <2>1, <2>2
<1>2. HeldProvenance'
  BY DEF SafetyInv, HeldProvenance
<1>3. HeldWhere'
  BY DEF SafetyInv, HeldWhere, Goto, TypeOK
<1>4. ForwardSafe'
  BY DEF SafetyInv, ForwardSafe, Goto, TypeOK
<1> QED
  BY <1>1, <1>2, <1>3, <1>4 DEF SafetyInv

\* Every step of a worker keeps the inductive invariant.
LEMMA WorkerSafe ==
  ASSUME TypeOK, SafetyInv, NEW w \in Workers, Begin(w) \/ WorkerStep(w)
  PROVE  SafetyInv'
<1> USE DEF storeVars, localVars
<1>h. /\ pc[w] \in {"idle", "lookup", "gate", "bypass", "compress", "model"}
           => res[w] = None
      /\ pc[w] \in {"store", "validate", "invalidate", "fallback"}
           => res[w] # None
  BY DEF SafetyInv, HeldWhere
<1>n. note \in [Workers -> Notes]
  BY DEF TypeOK
<1>1. CASE Begin(w)
  BY <1>1, BeginSafe
<1>2. CASE FirstLookup(w)
  <2>1. Goto(w, "lookup", "gate") /\ UNCHANGED <<cache, job, res, answer, note>>
    BY <1>2 DEF FirstLookup
  <2> QED
    BY <2>1, <1>h, MoveSafe DEF Places, Goto
<1>3. CASE Admit(w)
  <2>1. Goto(w, "gate", "compress") /\ UNCHANGED <<cache, job, res, answer, note>>
    BY <1>3 DEF Admit
  <2> QED
    BY <2>1, <1>h, MoveSafe DEF Places, Goto
<1>4. CASE Bypass(w)
  <2>1. /\ Goto(w, "gate", "bypass") /\ UNCHANGED <<cache, job, res, answer>>
        /\ note' = [note EXCEPT ![w] = Reason(w)]
    BY <1>4 DEF Bypass
  <2>2. Reason(w) \in {"oversized", "overbudget"}
    BY <1>4, ReasonType DEF Bypass, Reason, TypeOK
  <2>3. /\ note'[w] \in {"oversized", "overbudget"}
        /\ \A v \in Workers \ {w} : note'[v] = note[v]
    BY <2>1, <2>2, <1>n
  <2> QED
    BY <2>1, <2>3, <1>h, MoveSafe DEF Places, Goto
<1>5. CASE ReturnBypass(w)
  BY <1>5, ReturnSafe DEF ReturnBypass, Places
<1>6. CASE SecondLookup(w)
  BY <1>6, SecondLookupSafe
<1>7. CASE ModelAnswers(w)
  BY <1>7, ModelAnswersSafe
<1>8. CASE ModelSkips(w)
  <2>1. /\ Goto(w, "model", "observe") /\ UNCHANGED <<cache, job, res, answer>>
        /\ \A v \in Workers \ {w} : note'[v] = note[v]
    BY <1>8, <1>n DEF ModelSkips
  <2> QED
    BY <2>1, <1>h, MoveSafe DEF Places, Goto
<1>9. CASE CacheResult(w)
  <2>1. /\ Goto(w, "store", "observe") /\ Put(w, res[w])
        /\ UNCHANGED <<job, res, note, answer>>
    BY <1>9 DEF CacheResult
  <2> QED
    BY <2>1, WriteSafe
<1>10. CASE Observe(w)
  <2>1. /\ Goto(w, "observe", IF res[w] = None THEN "skipped" ELSE "validate")
        /\ UNCHANGED <<cache, job, res, answer, note>>
    BY <1>10 DEF Observe
  <2>2. CASE res[w] = None
    BY <2>1, <2>2, MoveSafe DEF Places, Goto
  <2>3. CASE res[w] # None
    BY <2>1, <2>3, MoveSafe DEF Places, Goto
  <2> QED
    BY <2>2, <2>3
<1>11. CASE ReturnSkipped(w)
  BY <1>11, ReturnSafe DEF ReturnSkipped, Places
<1>12. CASE ReturnPass(w)
  <2>1. /\ Return(w, "validate", res[w]) /\ res[w].sound /\ cache' = cache
    BY <1>12 DEF ReturnPass, Accepts
  <2>2. /\ res[w].content = job[w].content
        /\ res[w].query = job[w].query
    BY <2>1, <1>h DEF Return, Goto, SafetyInv, HeldProvenance
  <2> QED
    BY <2>1, <2>2, ReturnSafe DEF Places
<1>13. CASE Reject(w)
  <2>1. /\ Goto(w, "validate", "invalidate")
        /\ UNCHANGED <<cache, job, res, answer, note>>
    BY <1>13 DEF Reject
  <2> QED
    BY <2>1, <1>h, MoveSafe DEF Places, Goto
<1>14. CASE InvalidateRejected(w)
  <2>1. /\ Goto(w, "invalidate", "fallback") /\ Put(w, None)
        /\ UNCHANGED <<job, res, note, answer>>
    BY <1>14 DEF InvalidateRejected, Invalidate
  <2> QED
    BY <2>1, WriteSafe
<1>15. CASE ReturnFallback(w)
  BY <1>15, ReturnSafe DEF ReturnFallback, Places
<1>16. CASE StorageRaises(w)
  BY <1>16, ReturnSafe DEF StorageRaises, Places
<1> QED
  BY <1>1, <1>2, <1>3, <1>4, <1>5, <1>6, <1>7, <1>8, <1>9, <1>10, <1>11,
     <1>12, <1>13, <1>14, <1>15, <1>16 DEF WorkerStep

\* Expiry, outage and restart keep it too: a restart leaves only cache
\* entries behind, and those carry their provenance.
LEMMA EnvironmentSafe ==
  ASSUME TypeOK, SafetyInv,
         (\E k \in Keys : Expire(k)) \/ Outage \/ Restart \/ UNCHANGED vars
  PROVE  SafetyInv'
<1> USE DEF SafetyInv, CacheProvenance, HeldProvenance, HeldWhere, ForwardSafe
<1>1. CASE \E k \in Keys : Expire(k)
  BY <1>1 DEF Expire, localVars, TypeOK
<1>2. CASE Outage
  BY <1>2 DEF Outage, localVars
<1>3. CASE Restart
  <2>1. CacheProvenance'
    BY <1>3 DEF Restart, EmptyCache
  <2>2. HeldProvenance' /\ HeldWhere'
    BY <1>3 DEF Restart
  <2>3. ForwardSafe'
    <3> SUFFICES ASSUME NEW w \in Workers, answer[w] \notin {Exact, None}
                 PROVE  /\ answer[w].sound
                        /\ answer[w].content = job[w].content
                        /\ answer[w].query = job[w].query
      BY <1>3 DEF Restart
    <3>1. pc[w] = "idle"
      OBVIOUS
    <3> QED
      BY <3>1
  <2> QED
    BY <2>1, <2>2, <2>3
<1>4. CASE UNCHANGED vars
  BY <1>4 DEF vars, storeVars, localVars
<1> QED
  BY <1>1, <1>2, <1>3, <1>4

\* In every reachable state the inductive invariant holds: what is cached or
\* held was made for the request whose key it is under.
THEOREM SafetyInvariant == Spec => []SafetyInv
<1>1. Init => SafetyInv
  BY DEF Init, SafetyInv, CacheProvenance, HeldProvenance, HeldWhere, ForwardSafe,
         EmptyCache
<1>2. TypeOK /\ SafetyInv /\ [Next]_vars => SafetyInv'
  BY WorkerSafe, EnvironmentSafe DEF Next
<1> QED
  BY <1>1, <1>2, TypeCorrect, PTL DEF Spec

\* Whatever is forwarded is the exact segment or an accepted text made for
\* that segment and that query.
THEOREM ForwardingSafe == Spec => []ForwardSafe
<1>1. SafetyInv => ForwardSafe
  BY DEF SafetyInv
<1> QED
  BY <1>1, SafetyInvariant, PTL

-----------------------------------------------------------------------------
(* The counters balance *)

\* A set of counters that can be bumped together.
Balanced(S) ==
  /\ "total" \in S
  /\ "skipped" \in S <=> "validated" \notin S
  /\ "validated" \in S <=> "passes" \in S \/ "rejected" \in S
  /\ ~("passes" \in S /\ "rejected" \in S)
  /\ "fallbacks" \in S <=> "exact" \in S
  /\ "fallbacks" \in S <=> "rejected" \in S \/ "modelTimeout" \in S
  /\ ~("rejected" \in S /\ "modelTimeout" \in S)
  /\ "bypasses" \in S <=> "oversized" \in S \/ "overbudget" \in S
  /\ ~("oversized" \in S /\ "overbudget" \in S)
  /\ "bypasses" \in S \/ "modelTimeout" \in S => "skipped" \in S
  /\ ~("bypasses" \in S /\ "modelTimeout" \in S)
  /\ "deadline" \in S => "modelTimeout" \in S
  /\ "hits" \in S => "validated" \in S

\* Bumping S adds one to the counters of S and leaves the others.
LEMMA BumpValue ==
  ASSUME TypeOK, NEW S, Bump(S), NEW c \in Counters
  PROVE  /\ tel[c] \in Nat
         /\ c \in S => tel'[c] = tel[c] + 1
         /\ c \notin S => tel'[c] = tel[c]
  BY DEF Bump, TypeOK

LEMMA BumpBalances ==
  ASSUME TypeOK, TelemetryBalances, NEW S, Balanced(S), Bump(S)
  PROVE  TelemetryBalances'
<1> USE BumpValue DEF Balanced
<1>c. Counters = {"total", "validated", "passes", "fallbacks", "exact", "skipped",
             "hits", "bypasses", "deadline", "rejected", "modelTimeout",
             "oversized", "overbudget"}
  BY DEF Counters
<1>1. tel'["total"] = tel'["validated"] + tel'["skipped"]
  <2>1. {"total", "validated", "skipped"} \subseteq Counters
    BY <1>c
  <2> QED
    BY <2>1 DEF TelemetryBalances
<1>2. tel'["validated"] = tel'["passes"] + tel'["rejected"]
  <2>1. {"validated", "passes", "rejected"} \subseteq Counters
    BY <1>c
  <2> QED
    BY <2>1 DEF TelemetryBalances
<1>3. tel'["fallbacks"] = tel'["exact"]
  <2>1. {"fallbacks", "exact"} \subseteq Counters
    BY <1>c
  <2> QED
    BY <2>1 DEF TelemetryBalances
<1>4. tel'["fallbacks"] = tel'["rejected"] + tel'["modelTimeout"]
  <2>1. {"fallbacks", "rejected", "modelTimeout"} \subseteq Counters
    BY <1>c
  <2> QED
    BY <2>1 DEF TelemetryBalances
<1>5. tel'["bypasses"] = tel'["oversized"] + tel'["overbudget"]
  <2>1. {"bypasses", "oversized", "overbudget"} \subseteq Counters
    BY <1>c
  <2> QED
    BY <2>1 DEF TelemetryBalances
<1>6. tel'["bypasses"] + tel'["modelTimeout"] <= tel'["skipped"]
  <2>1. {"bypasses", "modelTimeout", "skipped"} \subseteq Counters
    BY <1>c
  <2> QED
    BY <2>1 DEF TelemetryBalances
<1>7. tel'["deadline"] <= tel'["modelTimeout"] /\ tel'["hits"] <= tel'["validated"]
  <2>1. {"deadline", "modelTimeout", "hits", "validated"} \subseteq Counters
    BY <1>c
  <2> QED
    BY <2>1 DEF TelemetryBalances
<1> QED
  BY <1>1, <1>2, <1>3, <1>4, <1>5, <1>6, <1>7 DEF TelemetryBalances

\* Every record_* method bumps a balanced set.
LEMMA RecordBalances ==
  ASSUME NEW w \in Workers,
         \/ RecordPass(w)
         \/ RecordFallback(w)
         \/ RecordSkip(w)
         \/ RecordEligibilityBypass(w) /\ note[w] \in {"oversized", "overbudget"}
  PROVE  \E S : Balanced(S) /\ Bump(S)
<1>1. CASE RecordPass(w)
  BY <1>1 DEF RecordPass, HitCounter, Balanced
<1>2. CASE RecordFallback(w)
  BY <1>2 DEF RecordFallback, HitCounter, Balanced
<1>3. CASE RecordSkip(w)
  BY <1>3 DEF RecordSkip, Balanced
<1>4. CASE RecordEligibilityBypass(w) /\ note[w] \in {"oversized", "overbudget"}
  BY <1>4 DEF RecordEligibilityBypass, Balanced
<1> QED
  BY <1>1, <1>2, <1>3, <1>4

\* Every snapshot of the counters balances.
THEOREM CountersBalance == Spec => []TelemetryBalances
<1>1. Init => TelemetryBalances
  BY DEF Init, TelemetryBalances, ZeroCounters, Counters
<1>2. TypeOK /\ SafetyInv /\ TelemetryBalances /\ [Next]_vars => TelemetryBalances'
  <2> SUFFICES ASSUME TypeOK, SafetyInv, TelemetryBalances, [Next]_vars
               PROVE  TelemetryBalances'
    OBVIOUS
  <2>1. CASE tel' = tel
    BY <2>1 DEF TelemetryBalances
  <2>2. ASSUME NEW w \in Workers, WorkerStep(w), tel' # tel
        PROVE  TelemetryBalances'
    <3>1. \/ ReturnBypass(w) \/ ReturnSkipped(w) \/ ReturnPass(w) \/ ReturnFallback(w)
      BY <2>2 DEF WorkerStep, FirstLookup, Admit, Bypass, SecondLookup,
           ModelAnswers, ModelSkips, CacheResult, Observe, Reject,
           InvalidateRejected, StorageRaises
    <3>2. ReturnBypass(w) => note[w] \in {"oversized", "overbudget"}
      BY DEF ReturnBypass, Return, Goto, SafetyInv, HeldWhere
    <3> QED
      BY <3>1, <3>2, RecordBalances, BumpBalances
         DEF ReturnBypass, ReturnSkipped, ReturnPass, ReturnFallback
  <2>3. CASE Restart
    BY <2>3 DEF Restart, TelemetryBalances, ZeroCounters, Counters
  <2> QED
    BY <2>1, <2>2, <2>3 DEF Next, Begin, Expire, Outage, vars
<1> QED
  BY <1>1, <1>2, TypeCorrect, SafetyInvariant, PTL DEF Spec

-----------------------------------------------------------------------------
(* The proxy implements SafetyBoundary *)

\* A step that keeps w inside compress changes nothing the boundary sees.
LEMMA MoveStutters ==
  ASSUME TypeOK, NEW w \in Workers, NEW p, NEW q, Goto(w, p, q),
         p # "idle", q # "idle", UNCHANGED <<job, answer>>
  PROVE  UNCHANGED Boundary!bvars
  BY DEF TypeOK, Goto, Boundary!bvars

\* A return is the boundary's Forward when it answers and its Drop when it
\* does not.
LEMMA ReturnMaps ==
  ASSUME TypeOK, SafetyInv, NEW w \in Workers, NEW p, p # "idle", NEW a,
         Return(w, p, a), a = None \/ a \in Boundary!Allowed(job[w])
  PROVE  Boundary!Next
<1>1. [v \in Workers |-> pc'[v] # "idle"]
        = [[v \in Workers |-> pc[v] # "idle"] EXCEPT ![w] = FALSE]
  BY DEF Return, Goto, TypeOK
<1>2. pc[w] # "idle" /\ answer[w] = None
  BY DEF Return, Goto, SafetyInv, HeldWhere
<1>3. CASE a \in Boundary!Allowed(job[w])
  <2>1. Boundary!Forward(w)
    BY <1>1, <1>2, <1>3 DEF Return, Boundary!Forward
  <2> QED
    BY <2>1 DEF Boundary!Next
<1>4. CASE a = None
  <2>1. answer' = answer
    BY <1>2, <1>4 DEF Return, TypeOK
  <2>2. [v \in Workers |-> pc'[v] # "idle"]
          = [v \in Workers |-> [u \in Workers |-> pc[u] # "idle"][v] /\ v \notin {w}]
    BY <1>1
  <2>3. Boundary!Drop({w})
    BY <1>2, <2>1, <2>2 DEF Return, Boundary!Drop
  <2> QED
    BY <2>3 DEF Boundary!Next
<1> QED
  BY <1>3, <1>4

\* A segment's arrival is the boundary's Accept.
LEMMA BeginMaps ==
  ASSUME TypeOK, NEW w \in Workers, Begin(w)
  PROVE  Boundary!Next
<1>1. [v \in Workers |-> pc'[v] # "idle"]
        = [[v \in Workers |-> pc[v] # "idle"] EXCEPT ![w] = TRUE]
  BY DEF Begin, Goto, TypeOK
<1>2. pc[w] = "idle"
  BY DEF Begin, Goto
<1>3. Boundary!Accept(w)
  BY <1>1, <1>2 DEF Begin, Boundary!Accept, Boundary!Requests, Requests
<1> QED
  BY <1>3 DEF Boundary!Next

\* A restart drops every segment in flight, or is invisible when there is none.
LEMMA RestartMaps ==
  ASSUME TypeOK, Restart
  PROVE  Boundary!Next \/ UNCHANGED Boundary!bvars
<1>1. PICK W \in SUBSET Workers : W = {w \in Workers : pc[w] # "idle"}
  OBVIOUS
<1>2. CASE W = {}
  <2>1. [w \in Workers |-> pc'[w] # "idle"] = [w \in Workers |-> pc[w] # "idle"]
    BY <1>1, <1>2 DEF Restart
  <2> QED
    BY <2>1 DEF Restart, Boundary!bvars
<1>3. CASE W # {}
  <2>1. [w \in Workers |-> pc'[w] # "idle"]
          = [w \in Workers |-> [u \in Workers |-> pc[u] # "idle"][w] /\ w \notin W]
    BY <1>1 DEF Restart
  <2>2. Boundary!Drop(W)
    BY <1>1, <1>3, <2>1 DEF Restart, Boundary!Drop
  <2> QED
    BY <2>2 DEF Boundary!Next
<1> QED
  BY <1>2, <1>3

\* Every step of the proxy is a step of the boundary or is invisible to it.
LEMMA StepMaps ==
  ASSUME TypeOK, SafetyInv, [Next]_vars
  PROVE  [Boundary!Next]_(Boundary!bvars)
<1>1. ASSUME NEW w \in Workers, WorkerStep(w)
      PROVE  Boundary!Next \/ UNCHANGED Boundary!bvars
  <2> USE DEF localVars
  <2>1. Exact \in Boundary!Allowed(job[w])
    BY DEF Boundary!Allowed
  <2>2. CASE ReturnBypass(w) \/ ReturnSkipped(w) \/ ReturnFallback(w)
    BY <2>1, <2>2, ReturnMaps DEF ReturnBypass, ReturnSkipped, ReturnFallback
  <2>3. CASE StorageRaises(w)
    BY <2>3, ReturnMaps DEF StorageRaises
  <2>4. CASE ReturnPass(w)
    <3>1. /\ Return(w, "validate", res[w]) /\ res[w].sound
          /\ res[w] # None
      BY <2>4 DEF ReturnPass, Accepts, Return, Goto, SafetyInv, HeldWhere
    <3>2. res[w] \in Boundary!Allowed(job[w])
      BY <3>1 DEF SafetyInv, HeldProvenance, Boundary!Allowed, Boundary!Outputs,
                  TypeOK, Outputs
    <3> QED
      BY <3>1, <3>2, ReturnMaps
  <2>5. CASE FirstLookup(w) \/ Admit(w) \/ Bypass(w)
    BY <2>5, MoveStutters DEF FirstLookup, Admit, Bypass
  <2>s. CASE SecondLookup(w)
    BY <2>s, MoveStutters DEF SecondLookup
  <2>6. CASE ModelAnswers(w) \/ ModelSkips(w) \/ CacheResult(w)
    BY <2>6, MoveStutters DEF ModelAnswers, ModelSkips, CacheResult
  <2>7. CASE Observe(w) \/ Reject(w) \/ InvalidateRejected(w)
    BY <2>7, MoveStutters DEF Observe, Reject, InvalidateRejected
  <2> QED
    BY <1>1, <2>2, <2>3, <2>4, <2>5, <2>s, <2>6, <2>7 DEF WorkerStep
<1>2. CASE (\E k \in Keys : Expire(k)) \/ Outage \/ UNCHANGED vars
  BY <1>2 DEF Expire, Outage, vars, localVars, Boundary!bvars
<1> QED
  BY <1>1, <1>2, BeginMaps, RestartMaps DEF Next

\* Every behaviour of the proxy is a behaviour of the boundary.
THEOREM ProxyImplementsBoundary == Spec => ImplementsBoundary
<1>1. Init => Boundary!Init
  BY DEF Init, Boundary!Init, Boundary!Requests, Requests
<1>2. TypeOK /\ SafetyInv /\ [Next]_vars => [Boundary!Next]_(Boundary!bvars)
  BY StepMaps
<1> QED
  BY <1>1, <1>2, TypeCorrect, SafetyInvariant, PTL
     DEF Spec, ImplementsBoundary, Boundary!Spec

-----------------------------------------------------------------------------
(* The admission gate *)

\* Only observe_uncached and a restart change the gate, and the first never
\* lowers the maximum.
LEMMA GateSteps ==
  ASSUME TypeOK, [Next]_vars
  PROVE  \/ UNCHANGED gateVars
         \/ \E w \in Workers, ms \in Latencies :
              Observe(w) /\ ~hit[w] /\ ObserveUncached(ms)
         \/ Restart
<1>1. ASSUME NEW w \in Workers, Begin(w) \/ WorkerStep(w)
      PROVE  \/ UNCHANGED gateVars
             \/ \E ms \in Latencies : Observe(w) /\ ~hit[w] /\ ObserveUncached(ms)
  <2>1. CASE Observe(w)
    <3>1. PICK ms \in Latencies :
            IF hit[w] THEN UNCHANGED gateVars ELSE ObserveUncached(ms)
      BY <2>1 DEF Observe
    <3> QED
      BY <2>1, <3>1
  <2>2. CASE ~Observe(w)
    BY <1>1, <2>2 DEF Begin, WorkerStep, FirstLookup, Admit, Bypass, ReturnBypass,
         SecondLookup, ModelAnswers, ModelSkips, CacheResult, ReturnSkipped,
         ReturnPass, Reject, InvalidateRejected, ReturnFallback, StorageRaises
  <2> QED
    BY <2>1, <2>2
<1>2. CASE (\E k \in Keys : Expire(k)) \/ Outage \/ UNCHANGED vars
  BY <1>2 DEF Expire, Outage, vars
<1> QED
  BY <1>1, <1>2 DEF Next

\* A cold run that is observed keeps an observed budget observed.
LEMMA ObserveLatches ==
  ASSUME TypeOK, NEW ms \in Latencies, ObserveUncached(ms)
  PROVE  /\ BudgetObserved => BudgetObserved'
         /\ ms >= LatencyBudget => BudgetObserved' /\ overruns' = overruns + 1
         /\ ms < LatencyBudget => overruns' = overruns
  BY DomainAssumption DEF TypeOK, ObserveUncached, BudgetObserved

\* An observed overrun of the budget is forgotten only by a restart.
THEOREM BudgetLatches == Spec => BudgetLatch
<1>1. TypeOK /\ [Next]_vars => [BudgetObserved => BudgetObserved' \/ Restart]_vars
  BY GateSteps, ObserveLatches DEF BudgetObserved, gateVars
<1> QED
  BY <1>1, TypeCorrect, PTL DEF Spec, BudgetLatch

\* The workers past the gate with a cold segment are finitely many.
LEMMA PastGateFinite ==
  /\ IsFiniteSet(PastGateCold)
  /\ Cardinality(PastGateCold) \in Nat
  /\ Cardinality(Workers) \in Nat
  BY DomainAssumption, FS_Subset, FS_CardinalityType DEF PastGateCold

\* Nobody gets past the gate cold once the budget is observed.
LEMMA NobodyNewPastGate ==
  ASSUME TypeOK, [Next]_vars, ~Restart, BudgetObserved
  PROVE  PastGateCold' \subseteq PastGateCold
<1> SUFFICES ASSUME NEW v \in Workers, v \in PastGateCold', v \notin PastGateCold
             PROVE  FALSE
  BY DEF PastGateCold
<1>v. /\ ~hit'[v]
      /\ pc'[v] \in {"compress", "model", "store", "observe"}
      /\ hit[v] \/ pc[v] \notin {"compress", "model", "store", "observe"}
  BY DEF PastGateCold
<1>1. ASSUME NEW w \in Workers, Begin(w) \/ WorkerStep(w)
      PROVE  FALSE
  <2>1. CASE Admit(w)
    <3>1. v = w /\ hit' = hit /\ pc[w] = "gate"
      BY <2>1, <1>v DEF Admit, Goto, TypeOK, localVars
    <3>2. Reason(w) # "none"
      BY <3>1, <1>v DEF Reason, ReasonFor
    <3> QED
      BY <2>1, <3>2 DEF Admit
  <2>2. CASE Begin(w) \/ FirstLookup(w) \/ Bypass(w)
    BY <2>2, <1>v DEF Begin, FirstLookup, Bypass, Goto, TypeOK
  <2>3. CASE ReturnBypass(w) \/ ReturnSkipped(w) \/ ReturnPass(w)
             \/ ReturnFallback(w) \/ StorageRaises(w)
    BY <2>3, <1>v DEF ReturnBypass, ReturnSkipped, ReturnPass, ReturnFallback,
                      StorageRaises, Return, Goto, TypeOK
  <2>4. CASE SecondLookup(w)
    BY <2>4, <1>v DEF SecondLookup, Goto, TypeOK
  <2>5. CASE ModelAnswers(w) \/ ModelSkips(w) \/ CacheResult(w)
    BY <2>5, <1>v DEF ModelAnswers, ModelSkips, CacheResult, Goto, TypeOK, localVars
  <2>6. CASE Observe(w) \/ Reject(w) \/ InvalidateRejected(w)
    BY <2>6, <1>v DEF Observe, Reject, InvalidateRejected, Goto, TypeOK, localVars
  <2> QED
    BY <1>1, <2>1, <2>2, <2>3, <2>4, <2>5, <2>6 DEF WorkerStep
<1>2. CASE (\E k \in Keys : Expire(k)) \/ Outage \/ UNCHANGED vars
  BY <1>2, <1>v DEF Expire, Outage, vars, localVars
<1> QED
  BY <1>1, <1>2 DEF Next

\* A worker that is observed leaves the set of those past the gate.
LEMMA ObservedLeaves ==
  ASSUME TypeOK, NEW w \in Workers, Observe(w), ~hit[w]
  PROVE  w \in PastGateCold /\ PastGateCold' = PastGateCold \ {w}
  BY DEF TypeOK, Observe, Goto, PastGateCold, localVars

LEMMA GateInductive ==
  ASSUME TypeOK, GateInv, [Next]_vars
  PROVE  GateInv'
<1> USE PastGateFinite
<1>f. Cardinality(PastGateCold)' \in Nat /\ IsFiniteSet(PastGateCold)'
  BY DomainAssumption, FS_Subset, FS_CardinalityType DEF PastGateCold
<1>1. CASE UNCHANGED gateVars
  <2> SUFFICES ASSUME overruns > 0 PROVE GateInv'
    BY <1>1 DEF GateInv, gateVars
  <2>1. BudgetObserved /\ BudgetObserved'
    BY <1>1 DEF GateInv, gateVars, BudgetObserved
  <2>2. CASE Restart
    BY <2>2 DEF Restart, GateInv
  <2>3. CASE ~Restart
    <3>1. PastGateCold' \subseteq PastGateCold
      BY <2>1, <2>3, NobodyNewPastGate
    <3>2. Cardinality(PastGateCold') <= Cardinality(PastGateCold)
      BY <3>1, FS_Subset
    <3> QED
      BY <1>1, <1>f, <2>1, <3>2 DEF GateInv, gateVars, TypeOK
  <2> QED
    BY <2>2, <2>3
<1>2. CASE Restart
  BY <1>2 DEF Restart, GateInv
<1>3. ASSUME NEW w \in Workers, NEW ms \in Latencies,
             Observe(w), ~hit[w], ObserveUncached(ms)
      PROVE  GateInv'
  <2>1. w \in PastGateCold /\ PastGateCold' = PastGateCold \ {w}
    BY <1>3, ObservedLeaves
  <2>2. Cardinality(PastGateCold') = Cardinality(PastGateCold) - 1
    BY <2>1, FS_RemoveElement
  <2>3. Cardinality(PastGateCold) <= Cardinality(Workers)
    BY DomainAssumption, FS_Subset DEF PastGateCold
  <2>4. ms \in Nat /\ LatencyBudget \in Nat /\ overruns \in Nat
    BY DomainAssumption DEF TypeOK
  <2>5. CASE ms >= LatencyBudget
    <3>1. BudgetObserved' /\ overruns' = overruns + 1
      BY <1>3, <2>5, ObserveLatches
    <3>2. overruns + Cardinality(PastGateCold) <= Cardinality(Workers)
      BY <2>3, <2>4 DEF GateInv
    <3> QED
      BY <1>f, <2>2, <2>4, <3>1, <3>2 DEF GateInv
  <2>6. CASE ms < LatencyBudget
    <3>1. overruns' = overruns /\ (BudgetObserved => BudgetObserved')
      BY <1>3, <2>6, ObserveLatches
    <3> QED
      BY <1>f, <2>2, <2>4, <3>1 DEF GateInv
  <2> QED
    BY <2>4, <2>5, <2>6
<1> QED
  BY <1>1, <1>2, <1>3, GateSteps

\* However the workers interleave, no more runs over the latency budget are
\* observed between two restarts than there are workers.
THEOREM OverrunsBounded == Spec => []ColdOverrunsBounded
<1>1. Init => GateInv
  BY DEF Init, GateInv
<1>2. TypeOK /\ GateInv /\ [Next]_vars => GateInv'
  BY GateInductive
<1>3. TypeOK /\ GateInv => ColdOverrunsBounded
  BY PastGateFinite DEF GateInv, ColdOverrunsBounded, TypeOK
<1> QED
  BY <1>1, <1>2, <1>3, TypeCorrect, PTL DEF Spec

-----------------------------------------------------------------------------
(* Rejected texts in the cache *)

\* Worker w holds the rejected text that is cached at k, and is on its way to
\* evict it.
Owns(w, k) ==
  /\ CacheKey(w) = k
  /\ pc[w] \in {"observe", "validate", "invalidate"}
  /\ res[w] # None /\ ~res[w].sound

\* Without crash and outage the store answers, a disabled cache stays empty,
\* and every rejected text in the cache has its owner.
OwnedInv ==
  /\ storeUp
  /\ contract # "query_aware" => \A k \in Keys : cache[k] = None
  /\ \A k \in Keys : cache[k] # None /\ ~cache[k].sound => \E w \in Workers : Owns(w, k)

\* A step of one worker leaves where the others are and what they hold alone.
LEMMA OthersStay ==
  ASSUME TypeOK, NEW v \in Workers, Begin(v) \/ WorkerStep(v),
         NEW w \in Workers, w # v
  PROVE  job'[w] = job[w] /\ pc'[w] = pc[w] /\ res'[w] = res[w]
<1> USE DEF TypeOK, Goto, localVars
<1>1. CASE Begin(v)
  BY <1>1 DEF Begin
<1>2. CASE FirstLookup(v) \/ Admit(v) \/ Bypass(v)
  BY <1>2 DEF FirstLookup, Admit, Bypass
<1>3. CASE ReturnBypass(v) \/ ReturnSkipped(v) \/ ReturnPass(v) \/ ReturnFallback(v)
           \/ StorageRaises(v)
  BY <1>3 DEF ReturnBypass, ReturnSkipped, ReturnPass, ReturnFallback, StorageRaises,
              Return
<1>4. CASE SecondLookup(v)
  BY <1>4 DEF SecondLookup
<1>5. CASE ModelAnswers(v) \/ ModelSkips(v) \/ CacheResult(v)
  BY <1>5 DEF ModelAnswers, ModelSkips, CacheResult
<1>6. CASE Observe(v) \/ Reject(v) \/ InvalidateRejected(v)
  BY <1>6 DEF Observe, Reject, InvalidateRejected
<1> QED
  BY <1>1, <1>2, <1>3, <1>4, <1>5, <1>6 DEF WorkerStep

\* A worker that owns an entry goes on to evict it.
LEMMA OwnerStays ==
  ASSUME TypeOK, storeUp, contract = "query_aware",
         NEW v \in Workers, Begin(v) \/ WorkerStep(v),
         NEW k \in Keys, NEW w \in Workers, Owns(w, k)
  PROVE  Owns(w, k)' \/ cache'[k] = None
<1>1. CASE w # v
  BY <1>1, OthersStay DEF Owns, CacheKey
<1>2. CASE w = v
  <2>1. \/ Observe(w) \/ Reject(w) \/ InvalidateRejected(w)
    <3>1. ~ReturnPass(w)
      BY DEF ReturnPass, Accepts, Owns
    <3>2. ~StorageRaises(w)
      BY DEF StorageRaises
    <3> QED
      BY <1>2, <3>1, <3>2 DEF Begin, WorkerStep, FirstLookup, Admit, Bypass, ReturnBypass,
         SecondLookup, ModelAnswers, ModelSkips, CacheResult, ReturnSkipped,
         ReturnFallback, Return, Goto, Owns
  <2>2. CASE Observe(w) \/ Reject(w)
    BY <2>2 DEF Observe, Reject, Goto, Owns, CacheKey, TypeOK, localVars
  <2>3. CASE InvalidateRejected(w)
    BY <2>3, KeyType DEF InvalidateRejected, Invalidate, Put, Owns, TypeOK
  <2> QED
    BY <2>1, <2>2, <2>3
<1> QED
  BY <1>1, <1>2

\* Only a worker that caches what it holds puts a text into the cache.
LEMMA CachedBy ==
  ASSUME TypeOK, NEW v \in Workers, Begin(v) \/ WorkerStep(v),
         NEW k \in Keys, cache'[k] # cache[k], cache'[k] # None
  PROVE  /\ contract = "query_aware" /\ contract' = contract
         /\ ~cache'[k].sound => Owns(v, k)'
<1>1. CASE CacheResult(v)
  <2>1. /\ contract = "query_aware" /\ contract' = contract
        /\ k = CacheKey(v) /\ cache'[k] = res[v]
        /\ UNCHANGED <<job, res>> /\ pc'[v] = "observe"
    BY <1>1, KeyType DEF CacheResult, Put, TypeOK, Goto, localVars
  <2> QED
    BY <2>1 DEF Owns, CacheKey
<1>2. CASE InvalidateRejected(v)
  BY <1>2, KeyType DEF InvalidateRejected, Invalidate, Put, TypeOK
<1>3. CASE ~CacheResult(v) /\ ~InvalidateRejected(v)
  <2>1. cache' = cache
    BY <1>3 DEF Begin, WorkerStep, FirstLookup, Admit, Bypass, ReturnBypass,
         SecondLookup, ModelAnswers, ModelSkips, Observe, ReturnSkipped, ReturnPass,
         Reject, ReturnFallback, StorageRaises, storeVars
  <2> QED
    BY <2>1
<1> QED
  BY <1>1, <1>2, <1>3

\* Every step of a worker keeps the ownership of the rejected texts.
LEMMA WorkerOwns ==
  ASSUME TypeOK, OwnedInv, NEW v \in Workers, Begin(v) \/ WorkerStep(v)
  PROVE  OwnedInv'
<1>1. storeUp' = storeUp /\ contract' = contract
  BY DEF Begin, WorkerStep, FirstLookup, Admit, Bypass, ReturnBypass,
         SecondLookup, ModelAnswers, ModelSkips, CacheResult, Observe, ReturnSkipped,
         ReturnPass, Reject, InvalidateRejected, ReturnFallback, StorageRaises, storeVars
<1>2. contract # "query_aware" => \A k \in Keys : cache'[k] = None
  BY CachedBy DEF OwnedInv
<1>3. ASSUME NEW k \in Keys, cache'[k] # None, ~cache'[k].sound
      PROVE  \E w \in Workers : Owns(w, k)'
  <2>1. contract = "query_aware"
    BY <1>2, <1>3
  <2>2. CASE cache'[k] # cache[k]
    BY <1>3, <2>2, CachedBy
  <2>3. CASE cache'[k] = cache[k]
    <3>1. PICK w \in Workers : Owns(w, k)
      BY <1>3, <2>3 DEF OwnedInv
    <3> QED
      BY <1>3, <2>1, <3>1, OwnerStays DEF OwnedInv
  <2> QED
    BY <2>2, <2>3
<1> QED
  BY <1>1, <1>2, <1>3 DEF OwnedInv

\* Unless a crash or an outage can take the worker away, a rejected text is in
\* the cache only while a worker that will evict it is on its way.
THEOREM RejectedEntriesOwned == Spec => []RejectedEntryIsOwned
<1>1. CASE Faults \cap {"restart", "outage"} # {}
  <2>1. RejectedEntryIsOwned
    BY <1>1 DEF RejectedEntryIsOwned
  <2> QED
    BY <2>1, PTL
<1>2. CASE Faults \cap {"restart", "outage"} = {}
  <2>1. Init => OwnedInv
    BY DEF Init, OwnedInv, EmptyCache
  <2>2. TypeOK /\ OwnedInv /\ [Next]_vars => OwnedInv'
    <3> SUFFICES ASSUME TypeOK, OwnedInv, [Next]_vars PROVE OwnedInv'
      OBVIOUS
    <3>1. ASSUME NEW k \in Keys, Expire(k) PROVE OwnedInv'
      <4>1. /\ storeUp' = storeUp /\ contract' = contract
            /\ UNCHANGED <<job, pc, res>>
            /\ \A j \in Keys : cache'[j] = None \/ cache'[j] = cache[j]
        BY <3>1 DEF Expire, TypeOK, localVars
      <4>2. \A w \in Workers, j \in Keys : Owns(w, j)' <=> Owns(w, j)
        BY <4>1 DEF Owns, CacheKey
      <4> QED
        BY <4>1, <4>2 DEF OwnedInv
    <3>2. ~Restart /\ ~Outage
      BY <1>2 DEF Restart, Outage
    <3>3. CASE UNCHANGED vars
      BY <3>3 DEF OwnedInv, Owns, CacheKey, vars, storeVars, localVars
    <3> QED
      BY <3>1, <3>2, <3>3, WorkerOwns DEF Next
  <2>3. OwnedInv => RejectedEntryIsOwned
    BY DEF OwnedInv, Owns, RejectedEntryIsOwned
  <2> QED
    BY <2>1, <2>2, <2>3, TypeCorrect, PTL DEF Spec
<1> QED
  BY <1>1, <1>2

-----------------------------------------------------------------------------
(* One request at a time *)

\* A worker that found its text at the first lookup finds it at the second,
\* so that what it validates came from the cache.
HitInv ==
  \A w \in Workers : hit[w] =>
    /\ pc[w] \in {"gate", "compress", "observe", "validate", "invalidate", "fallback"}
    /\ pc[w] \in {"gate", "compress"} => Cached(w) # None
    /\ pc[w] \in {"observe", "validate", "invalidate", "fallback"}
         => fromCache[w] /\ res[w] # None

\* A run of the model that was observed and is not counted as validated yet.
Owed(w) ==
  IF pc[w] \in {"validate", "invalidate", "fallback"} /\ ~fromCache[w] THEN 1 ELSE 0

\* A text is validated from the cache or was observed, the run in progress
\* included.
CountInv(w) == tel["validated"] + Owed(w) <= tel["hits"] + observedCalls

\* Alone, a worker keeps what its first lookup saw: nobody evicts the entry.
LEMMA AloneHits ==
  ASSUME TypeOK, HitInv, NEW w \in Workers, Begin(w) \/ WorkerStep(w), Workers = {w}
  PROVE  HitInv'
<1> SUFFICES ASSUME hit'[w]
             PROVE  /\ pc'[w] \in {"gate", "compress", "observe", "validate",
                                   "invalidate", "fallback"}
                    /\ pc'[w] \in {"gate", "compress"} => Cached(w)' # None
                    /\ pc'[w] \in {"observe", "validate", "invalidate", "fallback"}
                         => fromCache'[w] /\ res'[w] # None
  BY DEF HitInv
<1> USE DEF Goto, TypeOK
<1>1. CASE Begin(w)
  BY <1>1 DEF Begin, HitInv
<1>2. CASE FirstLookup(w)
  <2>1. pc'[w] = "gate" /\ hit'[w] = (Cached(w) # None)
    BY <1>2 DEF FirstLookup
  <2>2. Cached(w)' = Cached(w)
    BY <1>2 DEF FirstLookup, Cached, CacheKey, storeVars
  <2> QED
    BY <2>1, <2>2
<1>3. CASE Admit(w)
  <2>1. pc[w] = "gate" /\ pc'[w] = "compress" /\ hit[w]
    BY <1>3 DEF Admit, localVars
  <2>2. Cached(w)' = Cached(w)
    BY <1>3 DEF Admit, Cached, CacheKey, storeVars, localVars
  <2> QED
    BY <2>1, <2>2 DEF HitInv
<1>4. CASE Bypass(w)
  <2>1. hit[w]
    BY <1>4 DEF Bypass
  <2> QED
    BY <1>4, <2>1 DEF Bypass, Reason, ReasonFor
<1>5. CASE ReturnBypass(w) \/ ReturnSkipped(w) \/ ReturnPass(w) \/ ReturnFallback(w)
           \/ StorageRaises(w)
  BY <1>5 DEF ReturnBypass, ReturnSkipped, ReturnPass, ReturnFallback, StorageRaises,
              Return
<1>6. CASE SecondLookup(w)
  <2>1. pc[w] = "compress" /\ hit[w]
    BY <1>6 DEF SecondLookup
  <2>2. Cached(w) # None
    BY <2>1 DEF HitInv
  <2> QED
    BY <1>6, <2>2 DEF SecondLookup
<1>7. CASE ModelAnswers(w) \/ ModelSkips(w) \/ CacheResult(w)
  BY <1>7 DEF ModelAnswers, ModelSkips, CacheResult, HitInv, localVars
<1>8. CASE Observe(w)
  <2>1. pc[w] = "observe" /\ pc'[w] \in {"skipped", "validate"}
        /\ UNCHANGED <<hit, res, fromCache>> /\ (pc'[w] = "skipped" => res[w] = None)
    BY <1>8 DEF Observe, localVars
  <2> QED
    BY <2>1 DEF HitInv
<1>9. CASE Reject(w) \/ InvalidateRejected(w)
  BY <1>9 DEF Reject, InvalidateRejected, HitInv, localVars
<1> QED
  BY <1>1, <1>2, <1>3, <1>4, <1>5, <1>6, <1>7, <1>8, <1>9 DEF WorkerStep

\* Bumping counters that do not say `validated` or say it with `hits` or to
\* settle what is owed keeps the count.
LEMMA CountBump ==
  ASSUME TypeOK, NEW w \in Workers, CountInv(w), NEW S, Bump(S),
         observedCalls' = observedCalls, pc'[w] = "idle",
         "validated" \in S => /\ pc[w] \in {"validate", "invalidate", "fallback"}
                              /\ fromCache[w] => "hits" \in S
  PROVE  CountInv(w)'
<1>1. /\ "validated" \in Counters /\ "hits" \in Counters
      /\ observedCalls \in Nat
  BY DEF Counters, TypeOK
<1>2. /\ tel["validated"] \in Nat /\ tel["hits"] \in Nat
      /\ tel'["validated"] = IF "validated" \in S THEN tel["validated"] + 1
                                                 ELSE tel["validated"]
      /\ tel'["hits"] = IF "hits" \in S THEN tel["hits"] + 1 ELSE tel["hits"]
  BY <1>1, BumpValue
<1>3. Owed(w)' = 0
  BY DEF Owed
<1>4. Owed(w) \in {0, 1} /\ ("validated" \in S /\ "hits" \notin S => Owed(w) = 1)
  BY DEF Owed
<1>5. tel["validated"] + Owed(w) <= tel["hits"] + observedCalls
  BY DEF CountInv
<1>6. tel'["validated"] + 0 <= tel'["hits"] + observedCalls
  BY <1>1, <1>2, <1>4, <1>5
<1> QED
  BY <1>3, <1>6 DEF CountInv

\* A worker that counts nothing and observes nothing keeps the count as long
\* as it takes on no debt.
LEMMA CountMove ==
  ASSUME TypeOK, NEW w \in Workers, CountInv(w), Owed(w)' <= Owed(w),
         UNCHANGED <<tel, observedCalls>>
  PROVE  CountInv(w)'
<1>1. /\ tel["validated"] \in Nat /\ tel["hits"] \in Nat /\ observedCalls \in Nat
  BY DEF Counters, TypeOK
<1>2. Owed(w) \in Nat /\ Owed(w)' \in Nat
  BY DEF Owed
<1> QED
  BY <1>1, <1>2 DEF CountInv

\* A step of the worker keeps the count.
LEMMA AloneCounts ==
  ASSUME TypeOK, HitInv, NEW w \in Workers, CountInv(w), Begin(w) \/ WorkerStep(w)
  PROVE  CountInv(w)'
<1> USE DEF Goto, TypeOK
<1>1. CASE ReturnBypass(w) \/ ReturnSkipped(w)
  <2>1. PICK S : Bump(S) /\ "validated" \notin S
    <3>1. CASE ReturnBypass(w)
      <4>1. note[w] # "validated"
        BY DEF Notes
      <4> QED
        BY <3>1, <4>1 DEF ReturnBypass, RecordEligibilityBypass
    <3>2. CASE ReturnSkipped(w)
      BY <3>2 DEF ReturnSkipped, RecordSkip
    <3> QED
      BY <1>1, <3>1, <3>2
  <2>2. observedCalls' = observedCalls /\ pc'[w] = "idle"
    BY <1>1 DEF ReturnBypass, ReturnSkipped, Return, gateVars
  <2> QED
    BY <2>1, <2>2, CountBump
<1>2. CASE ReturnPass(w) \/ ReturnFallback(w)
  <2>1. PICK S : Bump(S) /\ (fromCache[w] => "hits" \in S)
    BY <1>2 DEF ReturnPass, RecordPass, ReturnFallback, RecordFallback, HitCounter
  <2>2. /\ observedCalls' = observedCalls /\ pc'[w] = "idle"
        /\ pc[w] \in {"validate", "fallback"}
    BY <1>2 DEF ReturnPass, ReturnFallback, Return, gateVars
  <2> QED
    BY <2>1, <2>2, CountBump
<1>3. CASE Observe(w)
  <2>1. /\ tel["validated"] \in Nat /\ tel["hits"] \in Nat /\ observedCalls \in Nat
    BY DEF Counters
  <2>2. /\ pc[w] = "observe" /\ pc'[w] \in {"skipped", "validate"}
        /\ UNCHANGED <<tel, hit, fromCache>>
        /\ observedCalls' = IF hit[w] THEN observedCalls ELSE observedCalls + 1
    BY <1>3 DEF Observe, ObserveUncached, localVars, gateVars
  <2>3. Owed(w) = 0 /\ Owed(w)' \in {0, 1}
    BY <2>2 DEF Owed
  <2>4. hit[w] => Owed(w)' = 0
    BY <2>2 DEF Owed, HitInv
  <2>5. tel["validated"] + 0 <= tel["hits"] + observedCalls
    BY <2>3 DEF CountInv
  <2>6. tel["validated"] + Owed(w)' <= tel["hits"] + observedCalls'
    BY <2>1, <2>2, <2>3, <2>4, <2>5
  <2> QED
    BY <2>2, <2>6 DEF CountInv
<1>4. CASE StorageRaises(w)
  <2>1. pc'[w] = "idle" /\ UNCHANGED <<tel, observedCalls>>
    BY <1>4 DEF StorageRaises, Return, gateVars
  <2>2. Owed(w)' <= Owed(w)
    BY <2>1 DEF Owed
  <2> QED
    BY <2>1, <2>2, CountMove
<1>5. CASE Reject(w) \/ InvalidateRejected(w)
  <2>1. /\ pc[w] \in {"validate", "invalidate"}
        /\ UNCHANGED <<tel, observedCalls, fromCache>>
    BY <1>5 DEF Reject, InvalidateRejected, gateVars, localVars
  <2>2. Owed(w)' <= Owed(w)
    BY <2>1 DEF Owed
  <2> QED
    BY <2>1, <2>2, CountMove
<1>6. CASE Begin(w) \/ FirstLookup(w) \/ Admit(w) \/ Bypass(w) \/ SecondLookup(w)
           \/ ModelAnswers(w) \/ ModelSkips(w) \/ CacheResult(w)
  <2>1. /\ pc'[w] \in Places \ {"validate", "invalidate", "fallback"}
        /\ UNCHANGED <<tel, observedCalls>>
    BY <1>6 DEF Begin, FirstLookup, Admit, Bypass, SecondLookup, ModelAnswers, ModelSkips,
                CacheResult, Places, gateVars
  <2>2. Owed(w)' <= Owed(w)
    BY <2>1 DEF Owed
  <2> QED
    BY <2>1, <2>2, CountMove
<1> QED
  BY <1>1, <1>2, <1>3, <1>4, <1>5, <1>6 DEF WorkerStep

\* With one worker and nothing that takes an entry away, what the first
\* lookup saw holds, and the count with it.
LEMMA AloneInvariant ==
  ASSUME NEW w, Workers = {w}, Faults \subseteq {"restart"}
  PROVE  Spec => [](HitInv /\ CountInv(w))
<1>1. Init => HitInv /\ CountInv(w)
  BY DEF Init, HitInv, CountInv, Owed, ZeroCounters, Counters
<1>2. TypeOK /\ HitInv /\ CountInv(w) /\ [Next]_vars => HitInv' /\ CountInv(w)'
  <2> SUFFICES ASSUME TypeOK, HitInv, CountInv(w), [Next]_vars
               PROVE  HitInv' /\ CountInv(w)'
    OBVIOUS
  <2>1. CASE Begin(w) \/ WorkerStep(w)
    BY <2>1, AloneHits, AloneCounts
  <2>2. CASE Restart
    BY <2>2 DEF Restart, HitInv, CountInv, Owed, ZeroCounters, Counters
  <2>3. CASE UNCHANGED vars
    BY <2>3 DEF vars, storeVars, gateVars, localVars, HitInv, CountInv, Owed, Cached, CacheKey
  <2>4. ~Outage /\ \A k \in Keys : ~Expire(k)
    BY DEF Outage, Expire
  <2> QED
    BY <2>1, <2>2, <2>3, <2>4 DEF Next
<1> QED
  BY <1>1, <1>2, TypeCorrect, PTL DEF Spec

\* The docstring's promise, that an admitted hit does not run the local model,
\* holds where one thread compresses and the cache has no expiry and no
\* outage: the runs with expiry or a second worker show why no weaker
\* hypothesis will do.
THEOREM HitsStayHits ==
  ASSUME NEW w, Workers = {w}, Faults \subseteq {"restart"}
  PROVE  Spec => []HitNeverInvokesModel
<1>1. HitInv => HitNeverInvokesModel
  BY DEF HitInv, HitNeverInvokesModel
<1> QED
  BY <1>1, AloneInvariant, PTL

\* Under the same hypotheses every validated text came from the cache or was
\* shown to the gate.
THEOREM ColdRunsObserved ==
  ASSUME NEW w, Workers = {w}, Faults \subseteq {"restart"}
  PROVE  Spec => []ColdRunsReachGate
<1>1. TypeOK /\ CountInv(w) => ColdRunsReachGate
  <2> SUFFICES ASSUME TypeOK, CountInv(w) PROVE ColdRunsReachGate
    OBVIOUS
  <2>1. /\ tel["validated"] \in Nat /\ tel["hits"] \in Nat /\ observedCalls \in Nat
    BY DEF Counters, TypeOK
  <2>2. Owed(w) \in Nat
    BY DEF Owed
  <2> QED
    BY <2>1, <2>2 DEF CountInv, ColdRunsReachGate
<1> QED
  BY <1>1, AloneInvariant, TypeCorrect, PTL
=============================================================================
