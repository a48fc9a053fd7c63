------------------------- MODULE SessionAttribution -------------------------
(***************************************************************************)
(* How the session runner attributes the proxy's cumulative counters to    *)
(* one turn (session_live.py, run_arm, treatment arm): two snapshots       *)
(* before the request, two after it, over a proxy that serves other        *)
(* requests too, with the agent's timeouts and retries (execution.py,      *)
(* complete_messages) and the checks of the deltas (paritok.py).           *)
(*                                                                         *)
(* What is simplified: the safety counters are the number of segments that *)
(* passed, fell back or were skipped; token counts, latencies and the      *)
(* cache contract are left out.  The operator has named the safety proxy's *)
(* statistics (contextops_safety_stats_url); require_proxy_telemetry is on *)
(* or off in each run.  PariTok, external, counts a request once its       *)
(* segments are compressed (it counts compressed tokens) and before it     *)
(* replies (the runner reads the count right after the reply).             *)
(* Bounds: MaxTurns, MaxRuns, MaxRequests, MaxSegments.                    *)
(***************************************************************************)
EXTENDS Naturals, Integers

CONSTANTS
  Faults,       \* which of "timeout", "restart", "traffic" can happen
  Switches,     \* the values of require_proxy_telemetry the operator starts runs with
  MaxRetries,   \* max_retries of the agent
  MaxTurns,     \* turns of a session
  MaxRuns,      \* times the operator starts the run
  MaxRequests,  \* bound on the requests the proxy receives
  MaxSegments,  \* bound on the segments of a request
  None

ASSUME SwitchesAssumption == Switches \subseteq BOOLEAN /\ Switches # {}

ASSUME BoundsAssumption ==
  /\ MaxRetries \in Nat
  /\ {MaxTurns, MaxRuns, MaxRequests, MaxSegments} \subseteq Nat \ {0}

Requests == 1..MaxRequests

ASSUME NoneAssumption == None \notin Requests

Outcomes == {"pass", "fallback", "skip"}
NoSegments == [o \in Outcomes |-> 0]

VARIABLES
  native,   \* ProxyStats.total_requests
  safety,   \* ContextOpsSafetyStats, by outcome
  stage,    \* where each request is in the proxy
  left,     \* the segments it still has to compress
  tally,    \* history: the outcomes of its own segments
  step,     \* where the runner is
  turn,     \* its turn
  run,      \* the run it is in
  strict,   \* its require_proxy_telemetry
  sent,     \* the request of the last attempt, or None
  attempt,  \* its attempts of this turn so far
  before,   \* its snapshots before the request
  after,    \* its native snapshot after the request
  event,    \* the deltas of the turn just recorded, or None
  disturb   \* history: what happened since the first snapshot of the turn

proxyVars == <<native, safety, stage, left, tally>>
runVars == <<run, strict>>
runnerVars == <<step, turn, runVars, sent, attempt, before, after, event>>
vars == <<proxyVars, runnerVars, disturb>>
-----------------------------------------------------------------------------
(* The proxy *)

Arrive(r, n) ==
  /\ stage[r] = "free"
  /\ stage' = [stage EXCEPT ![r] = "compressing"]
  /\ left' = [left EXCEPT ![r] = n]

\* History: another request compressed between the safety snapshots, another
\* one was counted between the native ones, the proxy was restarted.
Undisturbed == [compressed |-> FALSE, counted |-> FALSE, restarted |-> FALSE]

\* One segment leaves compress and is recorded.
CompressSegment(r) ==
  /\ stage[r] = "compressing" /\ left[r] > 0
  /\ left' = [left EXCEPT ![r] = @ - 1]
  /\ \E o \in Outcomes :
       /\ safety' = [safety EXCEPT ![o] = @ + 1]
       /\ tally' = [tally EXCEPT ![r][o] = @ + 1]
  /\ disturb' = [disturb EXCEPT !.compressed = @ \/ (r # sent /\ step # "snapshot")]
  /\ UNCHANGED <<native, stage, runnerVars>>

\* PariTok counts the request.
CountRequest(r) ==
  /\ stage[r] = "compressing" /\ left[r] = 0
  /\ stage' = [stage EXCEPT ![r] = "counted"]
  /\ native' = native + 1
  /\ disturb' = [disturb EXCEPT !.counted = @ \/ (r # sent /\ step # "check")]
  /\ UNCHANGED <<safety, left, tally, runnerVars>>

Reply(r) ==
  /\ stage[r] = "counted"
  /\ stage' = [stage EXCEPT ![r] = "replied"]
  /\ UNCHANGED <<native, safety, left, tally, runnerVars, disturb>>

\* Another client uses the proxy.
OtherTraffic ==
  /\ "traffic" \in Faults
  /\ \E r \in Requests, n \in 1..MaxSegments : Arrive(r, n)
  /\ UNCHANGED <<native, safety, tally, runnerVars, disturb>>

\* The proxy is restarted: its counters start from zero and the requests in
\* it are lost.
Restart ==
  /\ "restart" \in Faults
  /\ native' = 0
  /\ safety' = NoSegments
  /\ stage' = [r \in Requests |->
                 IF stage[r] \in {"compressing", "counted"} THEN "lost" ELSE stage[r]]
  /\ disturb' = [disturb EXCEPT !.restarted = TRUE]
  /\ UNCHANGED <<left, tally, runnerVars>>
-----------------------------------------------------------------------------
(* The runner *)

Go(from, to) == step = from /\ step' = to

\* before = self.gateway.stats()
NativeBefore ==
  /\ Go("begin", "snapshot")
  /\ before' = [before EXCEPT !.native = native]
  /\ event' = None
  /\ disturb' = Undisturbed
  /\ UNCHANGED <<proxyVars, turn, runVars, sent, attempt, after>>

\* Mutant: the safety snapshot of the first turn is kept.
SafetyBeforeOnce ==
  /\ Go("snapshot", "send")
  /\ before' = IF turn = 1 THEN [before EXCEPT !.safety = safety] ELSE before
  /\ UNCHANGED <<proxyVars, turn, runVars, sent, attempt, after, event, disturb>>

\* safety_before = self.safety_gateway.stats()
SafetyBefore ==
  /\ Go("snapshot", "send")
  /\ before' = [before EXCEPT !.safety = safety]
  /\ UNCHANGED <<proxyVars, turn, runVars, sent, attempt, after, event, disturb>>

\* One attempt of complete_messages.
Send ==
  /\ Go("send", "wait")
  /\ \E r \in Requests, n \in 1..MaxSegments : Arrive(r, n) /\ sent' = r
  /\ attempt' = attempt + 1
  /\ UNCHANGED <<native, safety, tally, turn, runVars, before, after, event, disturb>>

Receive ==
  /\ Go("wait", "after")
  /\ stage[sent] = "replied"
  /\ UNCHANGED <<proxyVars, turn, runVars, sent, attempt, before, after, event, disturb>>

\* An exception leaves run_arm; the events of the arm are lost.
Abort ==
  /\ step' = "aborted"
  /\ sent' = None
  /\ attempt' = 0
  /\ event' = None

\* Mutant: one attempt too many.
MayRetryOnceMore == attempt <= MaxRetries + 1

\* attempt == self.max_retries raises.
MayRetry == attempt <= MaxRetries

\* A timeout, or the connection is lost with the proxy.  What was sent goes
\* on in the proxy.  The attempt is repeated or the error is raised.
AttemptFails ==
  /\ step = "wait"
  /\ \/ "timeout" \in Faults
     \/ stage[sent] = "lost"
  /\ \/ /\ MayRetry
        /\ step' = "send"
        /\ disturb' = [disturb EXCEPT
             !.compressed = @ \/ tally[sent] # NoSegments,
             !.counted = @ \/ stage[sent] \in {"counted", "replied"}]
        /\ sent' = None
        /\ UNCHANGED <<attempt, event>>
     \/ /\ ~MayRetry
        /\ Abort
        /\ UNCHANGED disturb
  /\ UNCHANGED <<proxyVars, turn, runVars, before, after>>

\* after = self.gateway.stats(); after.delta(before) raises when negative.
NativeAfter ==
  /\ step = "after"
  /\ \/ /\ native >= before.native
        /\ step' = "check"
        /\ after' = native
        /\ UNCHANGED <<sent, attempt, event>>
     \/ /\ native < before.native
        /\ Abort
        /\ UNCHANGED after
  /\ UNCHANGED <<proxyVars, turn, runVars, before, disturb>>

SafetyDelta == [o \in Outcomes |-> safety[o] - before.safety[o]]

\* Mutant: more than one request is accepted.
SomeRequest == after - before.native >= 1

\* delta.total_requests == 1
OneRequest == after - before.native = 1

\* The check of the requests can be switched off, that of the deltas cannot.
Attributable == (strict => OneRequest) /\ \A o \in Outcomes : SafetyDelta[o] >= 0

\* The safety snapshot after the request, the checks, and the event.
SafetyAfter ==
  /\ step = "check"
  /\ \/ /\ Attributable
        /\ step' = IF turn = MaxTurns THEN "done" ELSE "begin"
        /\ turn' = IF turn = MaxTurns THEN turn ELSE turn + 1
        /\ event' = [delta |-> SafetyDelta, requests |-> after - before.native,
                      own |-> tally[sent], disturb |-> disturb, strict |-> strict]
        /\ sent' = None
        /\ attempt' = 0
     \/ /\ ~Attributable
        /\ Abort
        /\ UNCHANGED turn
  /\ UNCHANGED <<proxyVars, runVars, before, after, disturb>>

\* The operator starts the run again, on the proxy as it is, perhaps with
\* another configuration.
StartAgain ==
  /\ Go("aborted", "begin")
  /\ run < MaxRuns
  /\ run' = run + 1
  /\ strict' \in Switches
  /\ turn' = 1
  /\ UNCHANGED <<proxyVars, sent, attempt, before, after, event, disturb>>

Init ==
  /\ native = 0
  /\ safety = NoSegments
  /\ stage = [r \in Requests |-> "free"]
  /\ left = [r \in Requests |-> 0]
  /\ tally = [r \in Requests |-> NoSegments]
  /\ step = "begin"
  /\ turn = 1
  /\ run = 1
  /\ strict \in Switches
  /\ sent = None
  /\ attempt = 0
  /\ before = [native |-> 0, safety |-> NoSegments]
  /\ after = 0
  /\ event = None
  /\ disturb = Undisturbed

Next ==
  \/ \E r \in Requests : CompressSegment(r) \/ CountRequest(r) \/ Reply(r)
  \/ OtherTraffic \/ Restart
  \/ NativeBefore \/ SafetyBefore \/ Send \/ Receive \/ AttemptFails
  \/ NativeAfter \/ SafetyAfter \/ StartAgain

Spec == Init /\ [][Next]_vars
-----------------------------------------------------------------------------
(* Properties *)

Tallies == [Outcomes -> Nat]
Disturbances == [compressed : BOOLEAN, counted : BOOLEAN, restarted : BOOLEAN]

\* Every variable keeps its type.
TypeOK ==
  /\ native \in Nat
  /\ safety \in Tallies
  /\ stage \in [Requests -> {"free", "compressing", "counted", "replied", "lost"}]
  /\ left \in [Requests -> 0..MaxSegments]
  /\ tally \in [Requests -> Tallies]
  /\ step \in {"begin", "snapshot", "send", "wait", "after", "check", "aborted", "done"}
  /\ turn \in 1..MaxTurns
  /\ run \in 1..MaxRuns
  /\ strict \in BOOLEAN
  /\ sent \in Requests \cup {None}
  /\ attempt \in 0..MaxRetries + 1
  /\ before \in [native : Nat, safety : Tallies]
  /\ after \in Nat
  /\ event \in [delta : Tallies, requests : Nat, own : Tallies,
                disturb : Disturbances, strict : BOOLEAN] \cup {None}
  /\ disturb \in Disturbances

\* A recorded turn carries the outcomes of its own request's segments and of
\* no other (README.md:242-244; run_arm, session_live.py:84-125).
AttributedToOwnRequest == event # None => event.delta = event.own

\* It does so on a dedicated proxy that stays up, whatever the timeouts, the
\* retries and the runs before: only a segment that another request, an
\* earlier attempt or an aborted run compresses between the two safety
\* snapshots can be taken for the turn's, and only a restart can hide one.
AttributedUnlessDisturbed ==
  event # None =>
    /\ ~event.disturb.compressed /\ ~event.disturb.restarted => event.delta = event.own
    /\ ~event.disturb.compressed =>
         \A o \in Outcomes : event.delta[o] <= event.own[o]

\* A turn during which another request was counted between the two native
\* snapshots, be it another client's, an earlier attempt's or one an aborted
\* run left in the proxy, is recorded only with require_proxy_telemetry off,
\* and then its proxy_request_count shows it; a restart of the proxy in between
\* can hide it (session_live.py:87-97).
CountedTrafficShows ==
  event # None /\ event.disturb.counted /\ ~event.disturb.restarted =>
    ~event.strict /\ event.requests > 1
=============================================================================
