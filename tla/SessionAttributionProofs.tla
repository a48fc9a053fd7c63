---------------------- MODULE SessionAttributionProofs ----------------------
(***************************************************************************)
(* Proofs about SessionAttribution, for every set of faults and every      *)
(* bound on the turns, the runs, the requests, their segments and the      *)
(* retries, with and without require_proxy_telemetry.                      *)
(***************************************************************************)
EXTENDS SessionAttribution, TLAPS

\* The runner's locals: it has a request exactly while an attempt is open, it
\* has used no attempt before it sends, it goes on only with a reply, and it
\* checks only a count that has not fallen.
RunnerInv ==
  /\ step = "check" => after >= before.native
  /\ sent # None <=> step \in {"wait", "after", "check"}
  /\ step \notin {"send", "wait", "after", "check"} => attempt = 0
  /\ step = "send" => attempt <= MaxRetries
  /\ step \in {"after", "check"} => stage[sent] = "replied"

\* A request that has not arrived has no outcome.
FreshInv == \A r \in Requests : stage[r] = "free" => tally[r] = NoSegments

\* What the open attempt has added to the safety counters.
Own == IF sent = None THEN NoSegments ELSE tally[sent]

\* Between the safety snapshots the counters have moved by the segments of the
\* open attempt, unless others compressed; a restart can only lower them.
SafetyInv ==
  step \in {"send", "wait", "after", "check"} /\ ~disturb.compressed =>
    \A o \in Outcomes :
      /\ safety[o] <= before.safety[o] + Own[o]
      /\ ~disturb.restarted => safety[o] = before.safety[o] + Own[o]

\* PariTok has counted the open attempt, and another request.
OwnCounted == IF sent # None /\ stage[sent] \in {"counted", "replied"} THEN 1 ELSE 0
OtherCounted == IF disturb.counted THEN 1 ELSE 0

\* Between the native snapshots the count has moved by the open attempt and by
\* at least one for the others counted, unless the proxy was restarted.
NativeInv ==
  ~disturb.restarted =>
    /\ step \in {"snapshot", "send", "wait", "after"} =>
         native >= before.native + OwnCounted + OtherCounted
    /\ step = "check" => after >= before.native + 1 + OtherCounted

\* The recorded turn satisfies both properties of the model.
EventInv == AttributedUnlessDisturbed /\ CountedTrafficShows

IInv == TypeOK /\ RunnerInv /\ FreshInv /\ SafetyInv /\ NativeInv /\ EventInv

-----------------------------------------------------------------------------
(* Types and the runner's locals *)

\* Counting one more outcome of a tally keeps it a tally.
LEMMA TallyType ==
  ASSUME NEW t \in Tallies, NEW o \in Outcomes
  PROVE  [t EXCEPT ![o] = @ + 1] \in Tallies
  BY DEF Tallies

\* Noting a disturbance keeps the record of them.
LEMMA DisturbType ==
  ASSUME NEW d \in Disturbances, NEW a \in BOOLEAN
  PROVE  /\ [d EXCEPT !.compressed = a] \in Disturbances
         /\ [d EXCEPT !.counted = a] \in Disturbances
         /\ [d EXCEPT !.restarted = a] \in Disturbances
  BY DEF Disturbances

\* Every step keeps every variable's type and the runner's locals in order.
LEMMA TypeStep ==
  ASSUME TypeOK, RunnerInv, [Next]_vars
  PROVE  TypeOK' /\ RunnerInv'
<1> USE BoundsAssumption, SwitchesAssumption, NoneAssumption
<1> USE DEF TypeOK, RunnerInv, proxyVars, runnerVars, runVars
<1>0. NoSegments \in Tallies
  BY DEF NoSegments, Tallies
<1>1. ASSUME NEW r \in Requests, CompressSegment(r) PROVE TypeOK' /\ RunnerInv'
  <2>1. PICK o \in Outcomes :
          /\ safety' = [safety EXCEPT ![o] = @ + 1]
          /\ tally' = [tally EXCEPT ![r][o] = @ + 1]
    BY <1>1 DEF CompressSegment
  <2>2. safety' \in Tallies
    BY <2>1, TallyType
  <2>3. tally' \in [Requests -> Tallies]
    <3>1. [tally[r] EXCEPT ![o] = @ + 1] \in Tallies
      BY TallyType
    <3> QED
      BY <2>1, <3>1
  <2>4. disturb' \in Disturbances
    <3> DEFINE a == disturb.compressed \/ (r # sent /\ step # "snapshot")
    <3>1. a \in BOOLEAN
      OBVIOUS
    <3>2. disturb' = [disturb EXCEPT !.compressed = a]
      BY <1>1 DEF CompressSegment
    <3> QED
      BY <3>1, <3>2, DisturbType
  <2> QED
    BY <1>1, <2>2, <2>3, <2>4 DEF CompressSegment
<1>2. ASSUME NEW r \in Requests, CountRequest(r) PROVE TypeOK' /\ RunnerInv'
  <2>1. disturb' \in Disturbances
    <3> DEFINE a == disturb.counted \/ (r # sent /\ step # "check")
    <3>1. a \in BOOLEAN
      OBVIOUS
    <3>2. disturb' = [disturb EXCEPT !.counted = a]
      BY <1>2 DEF CountRequest
    <3> QED
      BY <3>1, <3>2, DisturbType
  <2> QED
    BY <1>2, <2>1 DEF CountRequest
<1>3. ASSUME NEW r \in Requests, Reply(r) PROVE TypeOK' /\ RunnerInv'
  BY <1>3 DEF Reply
<1>4. CASE OtherTraffic
  BY <1>4 DEF OtherTraffic, Arrive
<1>5. CASE Restart
  BY <1>0, <1>5, DisturbType DEF Restart
<1>6. CASE NativeBefore
  BY <1>6 DEF NativeBefore, Go, Undisturbed, Disturbances
<1>7. CASE SafetyBefore
  BY <1>7 DEF SafetyBefore, Go
<1>8. CASE Send
  BY <1>8 DEF Send, Go, Arrive
<1>9. CASE Receive
  BY <1>9 DEF Receive, Go
<1>10. CASE AttemptFails
  <2>1. CASE MayRetry
    <3>1. disturb' \in Disturbances
      <4> DEFINE a == disturb.compressed \/ tally[sent] # NoSegments
                 b == disturb.counted \/ stage[sent] \in {"counted", "replied"}
      <4>1. a \in BOOLEAN /\ b \in BOOLEAN
        OBVIOUS
      <4>2. disturb' = [disturb EXCEPT !.compressed = a, !.counted = b]
        BY <1>10, <2>1 DEF AttemptFails
      <4>3. [disturb EXCEPT !.compressed = a] \in Disturbances
        BY <4>1, DisturbType
      <4>4. disturb' = [[disturb EXCEPT !.compressed = a] EXCEPT !.counted = b]
        BY <4>2
      <4> QED
        BY <4>1, <4>3, <4>4, DisturbType
    <3> QED
      BY <1>10, <2>1, <3>1 DEF AttemptFails, MayRetry
  <2>2. CASE ~MayRetry
    BY <1>10, <2>2 DEF AttemptFails, Abort
  <2> QED
    BY <2>1, <2>2
<1>11. CASE NativeAfter
  BY <1>11 DEF NativeAfter, Abort
<1>12. CASE SafetyAfter
  <2>1. CASE Attributable
    <3>1. SafetyDelta \in Tallies
      BY <2>1 DEF Attributable, SafetyDelta, Tallies
    <3>2. sent \in Requests /\ after - before.native \in Nat
      BY <1>12 DEF SafetyAfter
    <3> QED
      BY <1>12, <2>1, <3>1, <3>2 DEF SafetyAfter
  <2>2. CASE ~Attributable
    BY <1>12, <2>2 DEF SafetyAfter, Abort
  <2> QED
    BY <2>1, <2>2
<1>13. CASE StartAgain
  BY <1>13 DEF StartAgain, Go
<1>14. CASE UNCHANGED vars
  BY <1>14 DEF vars
<1> QED
  BY <1>1, <1>2, <1>3, <1>4, <1>5, <1>6, <1>7, <1>8, <1>9, <1>10, <1>11,
     <1>12, <1>13, <1>14 DEF Next

\* The initial state.
LEMMA InitInv == Init => IInv
<1> SUFFICES ASSUME Init PROVE IInv
  OBVIOUS
<1>1. TypeOK
  BY BoundsAssumption, SwitchesAssumption
     DEF Init, TypeOK, NoSegments, Tallies, Undisturbed, Disturbances
<1>2. RunnerInv /\ FreshInv /\ SafetyInv /\ NativeInv
  BY BoundsAssumption, NoneAssumption
     DEF Init, RunnerInv, FreshInv, SafetyInv, NativeInv, NoSegments, Undisturbed
<1>3. EventInv
  BY DEF Init, EventInv, AttributedUnlessDisturbed, CountedTrafficShows
<1> QED
  BY <1>1, <1>2, <1>3 DEF IInv

\* The type invariant of the session runner and the proxy it measures holds in
\* every reachable state.
THEOREM TypeCorrect == Spec => []TypeOK
<1>1. Init => TypeOK /\ RunnerInv
  BY InitInv DEF IInv
<1>2. TypeOK /\ RunnerInv /\ [Next]_vars => TypeOK' /\ RunnerInv'
  BY TypeStep
<1> QED
  BY <1>1, <1>2, PTL DEF Spec

-----------------------------------------------------------------------------
(* What the counters have moved by *)

\* A request has no outcome before it arrives.
LEMMA FreshStep ==
  ASSUME TypeOK, FreshInv, [Next]_vars
  PROVE  FreshInv'
<1> USE DEF TypeOK, FreshInv, proxyVars, runnerVars, runVars
<1>1. ASSUME NEW r \in Requests, CompressSegment(r) \/ CountRequest(r) \/ Reply(r)
      PROVE  FreshInv'
  BY <1>1 DEF CompressSegment, CountRequest, Reply
<1>2. CASE OtherTraffic \/ Restart \/ Send
  BY <1>2 DEF OtherTraffic, Restart, Send, Arrive
<1>3. CASE NativeBefore \/ SafetyBefore \/ Receive \/ AttemptFails \/ NativeAfter
           \/ SafetyAfter \/ StartAgain \/ UNCHANGED vars
  BY <1>3 DEF NativeBefore, SafetyBefore, Receive, AttemptFails, NativeAfter,
              SafetyAfter, StartAgain, vars
<1> QED
  BY <1>1, <1>2, <1>3 DEF Next

\* The safety counters move by the segments of the open attempt.
LEMMA SafetyStep ==
  ASSUME TypeOK, RunnerInv, FreshInv, SafetyInv, [Next]_vars
  PROVE  SafetyInv'
<1> USE NoneAssumption
<1> USE DEF TypeOK, SafetyInv, Own, Tallies, Disturbances, proxyVars, runnerVars, runVars
<1>1. ASSUME NEW r \in Requests, CompressSegment(r) PROVE SafetyInv'
  <2>1. PICK o \in Outcomes :
          /\ safety' = [safety EXCEPT ![o] = @ + 1]
          /\ tally' = [tally EXCEPT ![r][o] = @ + 1]
    BY <1>1 DEF CompressSegment
  <2> SUFFICES ASSUME step' \in {"send", "wait", "after", "check"},
                      ~disturb'.compressed, NEW q \in Outcomes
               PROVE  /\ safety'[q] <= before'.safety[q] + Own'[q]
                      /\ ~disturb'.restarted =>
                            safety'[q] = before'.safety[q] + Own'[q]
    OBVIOUS
  <2>2. /\ r = sent
        /\ ~disturb.compressed
        /\ disturb'.restarted = disturb.restarted
        /\ UNCHANGED <<step, before, sent>>
    BY <1>1 DEF CompressSegment
  <2>3. /\ safety[q] <= before.safety[q] + tally[sent][q]
        /\ ~disturb.restarted => safety[q] = before.safety[q] + tally[sent][q]
    BY <2>2
  <2>4. safety'[q] - safety[q] = tally'[sent][q] - tally[sent][q]
    BY <2>1, <2>2
  <2>5. /\ tally[sent] \in [Outcomes -> Nat]
        /\ tally'[sent] \in [Outcomes -> Nat]
        /\ safety' \in [Outcomes -> Nat]
    BY <2>1, <2>2
  <2>6. before.safety[q] \in Nat /\ safety[q] \in Nat
    OBVIOUS
  <2>7. Own' = tally'[sent] /\ before' = before
    BY <2>2
  <2>8. safety'[q] \in Nat /\ tally[sent][q] \in Nat /\ tally'[sent][q] \in Nat
    BY <2>5
  <2> HIDE DEF TypeOK, SafetyInv, Own, Tallies, Disturbances
  <2> QED
    BY <2>2, <2>3, <2>4, <2>6, <2>7, <2>8
<1>2. ASSUME NEW r \in Requests, CountRequest(r) \/ Reply(r) PROVE SafetyInv'
  BY <1>2 DEF CountRequest, Reply
<1>3. CASE OtherTraffic
  BY <1>3 DEF OtherTraffic, Arrive
<1>4. CASE Restart
  BY <1>4 DEF Restart, NoSegments
<1>5. CASE NativeBefore \/ StartAgain
  BY <1>5 DEF NativeBefore, StartAgain, Go
<1>6. CASE SafetyBefore
  BY <1>6 DEF SafetyBefore, Go, RunnerInv, NoSegments
<1>7. CASE Send
  BY <1>7 DEF Send, Go, Arrive, RunnerInv, FreshInv
<1>8. CASE Receive
  BY <1>8 DEF Receive, Go
<1>9. CASE AttemptFails
  BY <1>9 DEF AttemptFails, Abort, RunnerInv
<1>10. CASE NativeAfter
  BY <1>10 DEF NativeAfter, Abort, RunnerInv
<1>11. CASE SafetyAfter
  BY <1>11 DEF SafetyAfter, Abort
<1>12. CASE UNCHANGED vars
  BY <1>12 DEF vars
<1> QED
  BY <1>1, <1>2, <1>3, <1>4, <1>5, <1>6, <1>7, <1>8, <1>9, <1>10, <1>11,
     <1>12 DEF Next

\* The count moves by the open attempt and by the others.
LEMMA NativeStep ==
  ASSUME TypeOK, RunnerInv, NativeInv, [Next]_vars
  PROVE  NativeInv'
<1> USE NoneAssumption
<1> USE DEF TypeOK, NativeInv, OwnCounted, OtherCounted, Disturbances,
            proxyVars, runnerVars, runVars
<1>1. ASSUME NEW r \in Requests, CompressSegment(r) PROVE NativeInv'
  BY <1>1 DEF CompressSegment
<1>2. ASSUME NEW r \in Requests, CountRequest(r) PROVE NativeInv'
  <2>1. CASE r = sent
    BY <1>2, <2>1 DEF CountRequest, RunnerInv
  <2>2. CASE r # sent
    BY <1>2, <2>2 DEF CountRequest
  <2> QED
    BY <2>1, <2>2
<1>3. ASSUME NEW r \in Requests, Reply(r) PROVE NativeInv'
  BY <1>3 DEF Reply
<1>4. CASE OtherTraffic
  BY <1>4 DEF OtherTraffic, Arrive
<1>5. CASE Restart
  BY <1>5 DEF Restart
<1>6. CASE NativeBefore
  BY <1>6 DEF NativeBefore, Go, RunnerInv, Undisturbed
<1>7. CASE SafetyBefore
  BY <1>7 DEF SafetyBefore, Go
<1>8. CASE Send
  BY <1>8 DEF Send, Go, Arrive, RunnerInv
<1>9. CASE Receive
  BY <1>9 DEF Receive, Go
<1>10. CASE AttemptFails
  <2>1. /\ step = "wait" /\ UNCHANGED <<native, stage, before>>
        /\ step' \in {"send", "aborted"} /\ sent' = None
        /\ disturb'.restarted = disturb.restarted
    BY <1>10 DEF AttemptFails, Abort
  <2>2. step' = "send" /\ stage[sent] \in {"counted", "replied"} => disturb'.counted
    BY <1>10 DEF AttemptFails, Abort
  <2>3. step' = "send" /\ stage[sent] \notin {"counted", "replied"} =>
          disturb'.counted = disturb.counted
    BY <1>10 DEF AttemptFails, Abort
  <2>4. ~disturb.restarted => native >= before.native + OwnCounted + OtherCounted
    BY <2>1
  <2>5. sent # None
    BY <2>1 DEF RunnerInv
  <2>6. OwnCounted' = 0
    BY <2>1
  <2>7. step' = "send" => OtherCounted' <= OwnCounted + OtherCounted
    BY <2>2, <2>3, <2>5
  <2>8. /\ native \in Nat /\ before.native \in Nat
        /\ {OwnCounted, OtherCounted, OtherCounted'} \subseteq Nat
    OBVIOUS
  <2> HIDE DEF TypeOK, OwnCounted, OtherCounted, Disturbances
  <2> QED
    BY <2>1, <2>4, <2>6, <2>7, <2>8
<1>11. CASE NativeAfter
  BY <1>11 DEF NativeAfter, Abort, RunnerInv
<1>12. CASE SafetyAfter
  BY <1>12 DEF SafetyAfter, Abort
<1>13. CASE StartAgain
  BY <1>13 DEF StartAgain, Go
<1>14. CASE UNCHANGED vars
  BY <1>14 DEF vars
<1> QED
  BY <1>1, <1>2, <1>3, <1>4, <1>5, <1>6, <1>7, <1>8, <1>9, <1>10, <1>11,
     <1>12, <1>13, <1>14 DEF Next

\* The event is written once, by a turn that passes the checks.
LEMMA EventStep ==
  ASSUME IInv, [Next]_vars
  PROVE  EventInv'
<1> USE DEF IInv, EventInv, AttributedUnlessDisturbed, CountedTrafficShows
<1>1. CASE SafetyAfter /\ Attributable
  <2>1. /\ step = "check" /\ sent \in Requests
        /\ event' = [delta |-> SafetyDelta, requests |-> after - before.native,
                      own |-> tally[sent], disturb |-> disturb, strict |-> strict]
    BY <1>1 DEF SafetyAfter, Abort, RunnerInv, TypeOK
  <2>2. Own = tally[sent]
    BY <2>1, NoneAssumption DEF Own
  <2>3. ~disturb.compressed =>
          \A o \in Outcomes :
             /\ SafetyDelta[o] <= tally[sent][o]
             /\ ~disturb.restarted => SafetyDelta[o] = tally[sent][o]
    BY <2>1, <2>2 DEF SafetyInv, SafetyDelta, TypeOK, Tallies
  <2>4. ~disturb.compressed /\ ~disturb.restarted => SafetyDelta = tally[sent]
    BY <2>1, <2>3 DEF SafetyDelta, TypeOK, Tallies
  <2>5. disturb.counted /\ ~disturb.restarted => ~strict /\ after - before.native > 1
    <3>1. disturb.counted /\ ~disturb.restarted => after >= before.native + 1 + 1
      BY <2>1 DEF NativeInv, OtherCounted
    <3>2. after \in Nat /\ before.native \in Nat
      BY DEF TypeOK
    <3>3. strict => after - before.native = 1
      BY <1>1 DEF Attributable, OneRequest
    <3> QED
      BY <3>1, <3>2, <3>3
  <2> QED
    BY <2>1, <2>3, <2>4, <2>5
<1>2. CASE event' \in {event, None}
  BY <1>2
<1>3. [Next]_vars /\ ~(SafetyAfter /\ Attributable) => event' \in {event, None}
  BY DEF Next, CompressSegment, CountRequest, Reply, OtherTraffic, Restart,
         NativeBefore, SafetyBefore, Send, Receive, AttemptFails, NativeAfter,
         SafetyAfter, StartAgain, Abort, vars, runnerVars, runVars
<1> QED
  BY <1>1, <1>2, <1>3

\* The inductive invariant holds in every reachable state.
LEMMA Inductive == Spec => []IInv
<1>1. IInv /\ [Next]_vars => IInv'
  <2> SUFFICES ASSUME IInv, [Next]_vars PROVE IInv'
    OBVIOUS
  <2>1. TypeOK' /\ RunnerInv'
    BY TypeStep DEF IInv
  <2>2. FreshInv' /\ SafetyInv' /\ NativeInv'
    BY FreshStep, SafetyStep, NativeStep DEF IInv
  <2> QED
    BY <2>1, <2>2, EventStep DEF IInv
<1> QED
  BY <1>1, InitInv, PTL DEF Spec

\* The delta a turn records is what the segments of its own request added,
\* unless another request, an earlier attempt or an aborted run compressed
\* between the snapshots or the proxy was restarted; a restart alone can only
\* hide segments (run_arm, session_live.py:84-125).
THEOREM TurnsAttributed == Spec => []AttributedUnlessDisturbed
<1>1. IInv => AttributedUnlessDisturbed
  BY DEF IInv, EventInv
<1> QED
  BY <1>1, Inductive, PTL

\* No turn during which another request was counted is recorded, as long as
\* the proxy stayed up, unless require_proxy_telemetry is off; then the event
\* counts more than one request (session_live.py:87-97).
THEOREM TrafficShown == Spec => []CountedTrafficShows
<1>1. IInv => CountedTrafficShows
  BY DEF IInv, EventInv
<1> QED
  BY <1>1, Inductive, PTL

=============================================================================
