-------------------------- MODULE ContextStoreProofs --------------------------
(***************************************************************************)
(* Proofs about ContextStore, for any writers, readers, contents, TTLs,    *)
(* faults and bounds.                                                      *)
(***************************************************************************)
EXTENDS ContextStore, TLAPS

\* What the writers keep true of the two keys: an envelope is never older
\* than its clock reading, a body never outlives its tombstone, and the
\* tombstone of the last store lives Tombstone beyond its expiry.
RecordInv ==
  /\ \A w \in Writers : writing[w] # None => writing[w].expires <= clock + Ttl
  /\ status # None => status.expires < status.dead
  /\ body # None => /\ status # None
                    /\ status.expires = body.expires
                    /\ body.expires <= body.dead
                    /\ body.dead <= status.dead
  /\ latest # None => /\ status # None
                      /\ status.expires = latest
                      /\ latest + Tombstone <= status.dead

\* A reader in progress has seen the present state.
SeesPresent(r) ==
  Reading(r) => /\ Truth(body, status, clock) \in truths[r]
                /\ ~up => Result("unhealthy") \in truths[r]

\* What a reader knows that has found a body.
KnowsBody(r) ==
  (rpc[r] \in {"status", "decide"} /\ rbody[r] # None) =>
    /\ rbody[r].form = "unreadable" => Result("corrupt") \in truths[r]
    /\ clock < rbody[r].expires =>
         (IF rbody[r].form = "whole" THEN Found(rbody[r].content) ELSE Result("corrupt"))
           \in truths[r]
    /\ (~raced[r] /\ rbody[r].form # "unreadable") =>
         /\ status # None
         /\ status.expires = rbody[r].expires
         /\ body # None => body.expires = rbody[r].expires /\ body.form # "unreadable"
         /\ rbody[r].expires <= clock => Result("expired") \in truths[r]

\* What a reader knows that has found none ...
KnowsNoBody(r) ==
  (rpc[r] \in {"status", "decide"} /\ rbody[r] = None /\ ~raced[r]) =>
    Live(body, clock) = None

\* ... and has asked for the tombstone since.
KnowsStatus(r) ==
  (rpc[r] = "decide" /\ rbody[r] = None) =>
    /\ rstatus[r] = None => Result("not_found") \in truths[r]
    /\ (rstatus[r] # None /\ ~raced[r]) =>
         /\ status = rstatus[r]
         /\ clock < rstatus[r].expires => Result("corrupt") \in truths[r]
         /\ rstatus[r].expires <= clock => Result("expired") \in truths[r]

ReaderInv ==
  \A r \in Readers : SeesPresent(r) /\ KnowsBody(r) /\ KnowsNoBody(r) /\ KnowsStatus(r)
-----------------------------------------------------------------------------
(* Types *)

\* The answers of a read are results.
LEMMA TruthType ==
  ASSUME NEW b \in Bodies \cup {None}, NEW s \in Statuses \cup {None}, NEW t \in Nat
  PROVE  Truth(b, s, t) \in Results
  BY DEF Truth, Live, Results, Bodies, Statuses

LEMMA VerdictType ==
  ASSUME NEW b \in Bodies \cup {None}, NEW s \in Statuses \cup {None}, NEW t \in Nat
  PROVE  Verdict(b, s, t) \in Results
  BY DEF Verdict, Results, Bodies, Statuses

\* The history of true answers keeps its type.
LEMMA WitnessType ==
  ASSUME truths \in [Readers -> SUBSET Results],
         body' \in Bodies \cup {None}, status' \in Statuses \cup {None},
         clock' \in Nat, Witness
  PROVE  truths' \in [Readers -> SUBSET Results]
<1>1. Truth(body', status', clock') \in Results
  BY TruthType
<1>2. Answers(up', body', status', clock') \subseteq Results
  BY <1>1 DEF Answers, Results
<1> QED
  BY <1>2 DEF Witness

\* Every variable of the record keeps its type.
THEOREM TypeCorrect == Spec => []TypeOK
<1>1. Init => TypeOK
  BY DEF Init, TypeOK
<1>2. TypeOK /\ [Next]_vars => TypeOK'
  <2> SUFFICES ASSUME TypeOK, [Next]_vars PROVE TypeOK'
    OBVIOUS
  <2> USE StoreAssumption DEF TypeOK, storeVars, readVars
  <2>1. ASSUME NEW w \in Writers, PrepareStore(w) PROVE TypeOK'
    BY <2>1, WitnessType DEF PrepareStore, Envelopes
  <2>2. ASSUME NEW w \in Writers, ExecuteStore(w) PROVE TypeOK'
    <3>1. writing[w] \in Envelopes
      BY <2>2 DEF ExecuteStore
    <3>2. body' \in Bodies /\ status' \in Statuses /\ latest' \in Nat
      BY <2>2, <3>1 DEF ExecuteStore, StatusDeadline, Bodies, Forms, Statuses, Envelopes
    <3>3. raced' \in [Readers -> BOOLEAN]
      BY <2>2 DEF ExecuteStore, NoteChange
    <3> QED
      BY <2>2, <3>2, <3>3, WitnessType DEF ExecuteStore
  <2>3. ASSUME NEW w \in Writers, StoreRaises(w) PROVE TypeOK'
    BY <2>3, WitnessType DEF StoreRaises
  <2>4. CASE InvalidateCompressed
    BY <2>4, WitnessType DEF InvalidateCompressed, NoteChange
  <2>5. ASSUME NEW r \in Readers, BeginRead(r) PROVE TypeOK'
    BY <2>5, WitnessType DEF BeginRead
  <2>6. ASSUME NEW r \in Readers, GetBody(r) PROVE TypeOK'
    BY <2>6, WitnessType DEF GetBody, Live
  <2>7. ASSUME NEW r \in Readers, GetStatus(r) PROVE TypeOK'
    BY <2>7, WitnessType DEF GetStatus, Live
  <2>8. ASSUME NEW r \in Readers, GetRaises(r) PROVE TypeOK'
    <3>1. Result("unhealthy") \in Results
      BY DEF Results
    <3> QED
      BY <2>8, <3>1, WitnessType DEF GetRaises
  <2>9. ASSUME NEW r \in Readers, Decide(r) PROVE TypeOK'
    <3>1. Verdict(rbody[r], rstatus[r], clock) \in Results
      BY VerdictType
    <3> QED
      BY <2>9, <3>1, WitnessType DEF Decide
  <2>10. CASE Tick
    BY <2>10, WitnessType DEF Tick
  <2>11. CASE Outage
    BY <2>11, WitnessType DEF Outage
  <2>12. CASE Damage
    <3>1. body' \in Bodies \cup {None}
      BY <2>12 DEF Damage, Bodies, Forms
    <3>2. raced' \in [Readers -> BOOLEAN]
      BY <2>12 DEF Damage, NoteChange
    <3> QED
      BY <2>12, <3>1, <3>2, WitnessType DEF Damage
  <2>13. CASE UNCHANGED vars
    BY <2>13 DEF vars
  <2> QED
    BY <2>1, <2>2, <2>3, <2>4, <2>5, <2>6, <2>7, <2>8, <2>9, <2>10, <2>11,
       <2>12, <2>13 DEF Next
<1> QED
  BY <1>1, <1>2, PTL DEF Spec
-----------------------------------------------------------------------------
(* The two keys *)

\* No step lets a body outlive its tombstone or forgets an expiry.
LEMMA RecordStep ==
  ASSUME TypeOK, RecordInv, [Next]_vars
  PROVE  RecordInv'
<1> USE StoreAssumption DEF TypeOK, RecordInv, storeVars, readVars
<1>1. ASSUME NEW w \in Writers, PrepareStore(w) PROVE RecordInv'
  <2>1. \A v \in Writers : writing'[v] # None => writing'[v].expires <= clock + Ttl
    BY <1>1 DEF PrepareStore
  <2> QED
    BY <1>1, <2>1 DEF PrepareStore
<1>2. ASSUME NEW w \in Writers, ExecuteStore(w) PROVE RecordInv'
  <2>1. /\ writing[w] \in Envelopes
        /\ writing[w].expires \in Nat
        /\ writing[w].expires <= clock + Ttl
    BY <1>2 DEF ExecuteStore, Envelopes
  <2>2. \A v \in Writers : writing'[v] # None => writing'[v].expires <= clock + Ttl
    BY <1>2 DEF ExecuteStore
  <2>3. body' \in Bodies /\ status' \in Statuses
    BY <1>2, <2>1 DEF ExecuteStore, StatusDeadline, Bodies, Forms, Statuses, Envelopes
  <2>4. body' # None /\ status' # None
    BY <2>3
  <2> QED
    BY <1>2, <2>1, <2>2, <2>4 DEF ExecuteStore, StatusDeadline
<1>3. ASSUME NEW w \in Writers, StoreRaises(w) PROVE RecordInv'
  BY <1>3 DEF StoreRaises
<1>4. CASE InvalidateCompressed
  BY <1>4 DEF InvalidateCompressed
<1>5. ASSUME NEW r \in Readers, BeginRead(r) \/ GetBody(r) \/ GetStatus(r)
                                \/ GetRaises(r) \/ Decide(r)
      PROVE  RecordInv'
  BY <1>5 DEF BeginRead, GetBody, GetStatus, GetRaises, Decide
<1>6. CASE Tick
  BY <1>6 DEF Tick, Envelopes
<1>7. CASE Outage
  BY <1>7 DEF Outage
<1>8. CASE Damage
  <2>1. body' # None => body'.expires = body.expires /\ body'.dead = body.dead
    BY <1>8 DEF Damage, Bodies
  <2> QED
    BY <1>8, <2>1 DEF Damage
<1>9. CASE UNCHANGED vars
  BY <1>9 DEF vars
<1> QED
  BY <1>1, <1>2, <1>3, <1>4, <1>5, <1>6, <1>7, <1>8, <1>9 DEF Next

\* The invariant of the two keys holds in every reachable state.
THEOREM RecordInvariant == Spec => []RecordInv
<1>1. Init => RecordInv
  BY DEF Init, RecordInv
<1> QED
  BY <1>1, RecordStep, TypeCorrect, PTL DEF Spec

\* A body never outlives its tombstone, and both give the same expiry.
THEOREM TombstonesCover == Spec => []TombstoneCoversBody
<1>1. TypeOK /\ RecordInv => TombstoneCoversBody
  BY StoreAssumption DEF TypeOK, RecordInv, TombstoneCoversBody, Live, Bodies, Statuses
<1> QED
  BY <1>1, RecordInvariant, TypeCorrect, PTL

\* Until its tombstone ends, a stored record can be told from one that was
\* never there, however writers overlap.
THEOREM ExpiryKnown == Spec => []ExpiryStaysKnown
<1>1. TypeOK /\ RecordInv => ExpiryStaysKnown
  BY StoreAssumption DEF TypeOK, RecordInv, ExpiryStaysKnown, Live, Statuses
<1> QED
  BY <1>1, RecordInvariant, TypeCorrect, PTL
-----------------------------------------------------------------------------
(* The readers *)

\* What a step adds to the true answers of a reader in progress.
LEMMA Witnessed ==
  ASSUME TypeOK, Witness, NEW r \in Readers
  PROVE  /\ SeesPresent(r)'
         /\ Reading(r) => truths[r] \subseteq truths'[r]
         /\ rpc'[r] = "idle" => truths'[r] = truths[r]
  BY DEF Witness, Answers, SeesPresent, Reading

\* A step that touches neither the record, the clock nor this reader.
LEMMA Unmoved ==
  ASSUME TypeOK, ReaderInv, Witness, NEW r \in Readers,
         body' = body, status' = status, clock' = clock,
         rpc'[r] = rpc[r], rbody'[r] = rbody[r], rstatus'[r] = rstatus[r],
         raced'[r] = raced[r]
  PROVE  (KnowsBody(r) /\ KnowsNoBody(r) /\ KnowsStatus(r))'
<1>1. rpc[r] # "idle" => truths[r] \subseteq truths'[r]
  BY Witnessed DEF Reading
<1>2. KnowsBody(r)'
  BY <1>1 DEF ReaderInv, KnowsBody
<1>3. KnowsNoBody(r)'
  BY DEF ReaderInv, KnowsNoBody, Live
<1>4. KnowsStatus(r)'
  BY <1>1 DEF ReaderInv, KnowsStatus
<1> QED
  BY <1>2, <1>3, <1>4

\* A write overtakes the readers past their first GET.
LEMMA Overtaken ==
  ASSUME TypeOK, ReaderInv, Witness, NoteChange, NEW r \in Readers,
         clock' = clock, rpc' = rpc, rbody' = rbody, rstatus' = rstatus
  PROVE  (KnowsBody(r) /\ KnowsNoBody(r) /\ KnowsStatus(r))'
<1>1. rpc[r] # "idle" => truths[r] \subseteq truths'[r]
  BY Witnessed DEF Reading
<1>2. rpc[r] \in {"status", "decide"} => raced'[r]
  BY DEF NoteChange
<1>3. KnowsBody(r)'
  BY <1>1, <1>2 DEF ReaderInv, KnowsBody
<1>4. KnowsNoBody(r)'
  BY <1>2 DEF KnowsNoBody
<1>5. KnowsStatus(r)'
  BY <1>1, <1>2 DEF ReaderInv, KnowsStatus
<1> QED
  BY <1>3, <1>4, <1>5

\* The first GET: the body it returns is the body there is.
LEMMA BodyRead ==
  ASSUME TypeOK, RecordInv, ReaderInv, NEW r \in Readers, GetBody(r)
  PROVE  (KnowsBody(r) /\ KnowsNoBody(r) /\ KnowsStatus(r))'
<1> USE StoreAssumption
<1>1. /\ rpc'[r] = "status" /\ rbody'[r] = Live(body, clock)
      /\ body' = body /\ status' = status /\ clock' = clock
      /\ Truth(body, status, clock) \in truths'[r]
  <2>1. Reading(r)'
    BY DEF GetBody, Reading, TypeOK
  <2> QED
    BY <2>1, Witnessed DEF GetBody, storeVars, TypeOK, SeesPresent
<1>2. ASSUME rbody'[r] # None
      PROVE  /\ rbody'[r] = body /\ body \in Bodies /\ status \in Statuses
             /\ status.expires = body.expires /\ clock < body.dead
    BY <1>1, <1>2 DEF Live, TypeOK, RecordInv
<1>3. ASSUME rbody'[r] # None
      PROVE  Truth(body, status, clock) =
               IF body.form = "unreadable" THEN Result("corrupt")
               ELSE IF body.expires <= clock THEN Result("expired")
               ELSE IF body.form = "whole" THEN Found(body.content) ELSE Result("corrupt")
    BY <1>2, <1>3 DEF Truth, Live, Bodies, Statuses, TypeOK
<1>4. KnowsBody(r)'
  <2> SUFFICES ASSUME rbody'[r] # None PROVE KnowsBody(r)'
    BY DEF KnowsBody
  <2>1. clock \in Nat /\ body.expires \in Nat /\ status # None
    BY <1>2 DEF TypeOK, Bodies, Statuses
  <2> QED
    BY <1>1, <1>2, <1>3, <2>1 DEF KnowsBody
<1>5. KnowsNoBody(r)'
  BY <1>1 DEF KnowsNoBody, Live
<1>6. KnowsStatus(r)'
  BY <1>1 DEF KnowsStatus
<1> QED
  BY <1>4, <1>5, <1>6

\* The second GET: without a tombstone there is no body either, so the record
\* is truly absent.
LEMMA StatusRead ==
  ASSUME TypeOK, RecordInv, ReaderInv, NEW r \in Readers, GetStatus(r)
  PROVE  (KnowsBody(r) /\ KnowsNoBody(r) /\ KnowsStatus(r))'
<1> USE StoreAssumption
<1>1. /\ rpc[r] = "status" /\ rpc'[r] = "decide" /\ rstatus'[r] = Live(status, clock)
      /\ body' = body /\ status' = status /\ clock' = clock
      /\ rbody'[r] = rbody[r] /\ raced'[r] = raced[r]
      /\ Truth(body, status, clock) \in truths'[r]
      /\ truths[r] \subseteq truths'[r]
  <2>1. Reading(r) /\ Reading(r)'
    BY DEF GetStatus, Reading, TypeOK
  <2> QED
    BY <2>1, Witnessed DEF GetStatus, storeVars, TypeOK, SeesPresent, Reading
<1>2. KnowsBody(r)'
  BY <1>1 DEF ReaderInv, KnowsBody
<1>3. KnowsNoBody(r)'
  BY <1>1 DEF ReaderInv, KnowsNoBody, Live
<1>4. KnowsStatus(r)'
  <2> SUFFICES ASSUME rbody[r] = None PROVE KnowsStatus(r)'
    BY <1>1 DEF KnowsStatus
  <2>1. CASE rstatus'[r] = None
    <3>1. Live(status, clock) = None /\ Live(body, clock) = None
      BY <1>1, <2>1 DEF Live, TypeOK, RecordInv, Bodies, Statuses
    <3>2. Truth(body, status, clock) = Result("not_found")
      BY <3>1 DEF Truth
    <3> QED
      BY <1>1, <2>1, <3>2 DEF KnowsStatus
  <2>2. CASE rstatus'[r] # None
    <3> SUFFICES ASSUME ~raced[r] PROVE KnowsStatus(r)'
      BY <1>1, <2>2 DEF KnowsStatus
    <3>1. Live(status, clock) = status /\ status = rstatus'[r] /\ status \in Statuses
      BY <1>1, <2>2 DEF Live, TypeOK
    <3>2. Live(body, clock) = None
      BY <1>1 DEF ReaderInv, KnowsNoBody
    <3>3. Truth(body, status, clock) =
            IF status.expires <= clock THEN Result("expired") ELSE Result("corrupt")
      BY <2>2, <3>1, <3>2 DEF Truth
    <3>4. clock \in Nat /\ status.expires \in Nat
      BY <3>1 DEF TypeOK, Statuses
    <3> QED
      BY <1>1, <2>2, <3>1, <3>3, <3>4 DEF KnowsStatus
  <2> QED
    BY <2>1, <2>2
<1> QED
  BY <1>2, <1>3, <1>4

\* Time passes: a body found unexpired expires at the very instant the record
\* does, which its tombstone outlives.
LEMMA TimePassed ==
  ASSUME TypeOK, RecordInv, ReaderInv, NEW r \in Readers, Tick
  PROVE  (KnowsBody(r) /\ KnowsNoBody(r) /\ KnowsStatus(r))'
<1> USE StoreAssumption
<1>1. /\ rpc'[r] = rpc[r] /\ rbody'[r] = rbody[r] /\ rstatus'[r] = rstatus[r]
      /\ body' = body /\ status' = status /\ clock' = clock + 1
      /\ raced'[r] = raced[r] /\ clock \in Nat
  BY DEF Tick, readVars, storeVars, TypeOK
<1>2. ASSUME rpc[r] # "idle"
      PROVE  /\ truths[r] \subseteq truths'[r]
             /\ Truth(body, status, clock + 1) \in truths'[r]
  BY <1>1, <1>2, Witnessed DEF Tick, Reading, SeesPresent
<1>3. KnowsBody(r)'
  <2> SUFFICES ASSUME rpc[r] \in {"status", "decide"}, rbody[r] # None
               PROVE  KnowsBody(r)'
    BY <1>1 DEF KnowsBody
  <2>1. rbody[r] \in Bodies /\ rbody[r].expires \in Nat
    BY DEF TypeOK, Bodies
  <2>2. ASSUME ~raced[r], rbody[r].form # "unreadable", rbody[r].expires <= clock + 1
        PROVE  Result("expired") \in truths'[r]
    <3>1. CASE rbody[r].expires <= clock
      BY <1>2, <2>2, <3>1 DEF ReaderInv, KnowsBody
    <3>2. CASE rbody[r].expires = clock + 1
      <4>1. /\ status \in Statuses /\ status # None
            /\ status.expires = clock + 1 /\ clock + 1 < status.dead
            /\ body # None => body.expires = clock + 1 /\ body.form # "unreadable"
        BY <2>2, <3>2 DEF ReaderInv, KnowsBody, RecordInv, TypeOK
      <4>2. Truth(body, status, clock + 1) = Result("expired")
        BY <1>1, <4>1 DEF Truth, Live, Statuses
      <4> QED
        BY <1>2, <4>2
    <3> QED
      BY <1>1, <2>1, <2>2, <3>1, <3>2
  <2>3. ASSUME clock + 1 < rbody[r].expires
        PROVE  (IF rbody[r].form = "whole" THEN Found(rbody[r].content) ELSE Result("corrupt"))
                 \in truths'[r]
    BY <1>1, <1>2, <2>1, <2>3 DEF ReaderInv, KnowsBody
  <2>4. rbody[r].form = "unreadable" => Result("corrupt") \in truths'[r]
    BY <1>2 DEF ReaderInv, KnowsBody
  <2>5. (~raced[r] /\ rbody[r].form # "unreadable") =>
          /\ status # None
          /\ status.expires = rbody[r].expires
          /\ body # None => body.expires = rbody[r].expires /\ body.form # "unreadable"
    BY DEF ReaderInv, KnowsBody
  <2> QED
    BY <1>1, <2>2, <2>3, <2>4, <2>5 DEF KnowsBody
<1>4. KnowsNoBody(r)'
  <2>1. Live(body, clock) = None => Live(body, clock + 1) = None
    BY <1>1 DEF Live, TypeOK, Bodies
  <2> QED
    BY <1>1, <2>1 DEF ReaderInv, KnowsNoBody, Live
<1>5. KnowsStatus(r)'
  <2> SUFFICES ASSUME rpc[r] = "decide", rbody[r] = None
               PROVE  KnowsStatus(r)'
    BY <1>1 DEF KnowsStatus
  <2>1. CASE rstatus[r] = None
    BY <1>1, <1>2, <2>1 DEF ReaderInv, KnowsStatus
  <2>2. CASE rstatus[r] # None /\ raced[r]
    BY <1>1, <2>2 DEF KnowsStatus
  <2>3. CASE rstatus[r] # None /\ ~raced[r]
    <3>1. /\ rstatus[r] = status /\ status \in Statuses /\ status # None
          /\ status.expires \in Nat /\ status.dead \in Nat
          /\ status.expires < status.dead
          /\ Live(body, clock) = None
      BY <2>3 DEF ReaderInv, KnowsStatus, KnowsNoBody, RecordInv, TypeOK, Statuses
    <3>2. Live(body, clock + 1) = None
      BY <1>1, <3>1 DEF Live, TypeOK, Bodies
    <3>3. ASSUME status.expires = clock + 1
          PROVE  Result("expired") \in truths'[r]
      <4>1. Truth(body, status, clock + 1) = Result("expired")
        BY <1>1, <3>1, <3>2, <3>3 DEF Truth, Live
      <4> QED
        BY <1>2, <4>1
    <3>4. clock + 1 < status.expires => Result("corrupt") \in truths'[r]
      BY <1>1, <1>2, <2>3, <3>1 DEF ReaderInv, KnowsStatus
    <3>5. status.expires <= clock => Result("expired") \in truths'[r]
      BY <1>1, <1>2, <2>3, <3>1 DEF ReaderInv, KnowsStatus
    <3> QED
      BY <1>1, <3>1, <3>3, <3>4, <3>5 DEF KnowsStatus
  <2> QED
    BY <2>1, <2>2, <2>3
<1> QED
  BY <1>3, <1>4, <1>5

\* Damage keeps the expiry of a body, or takes the body away, or overtakes the
\* readers past their first GET.
LEMMA Damaged ==
  ASSUME TypeOK, ReaderInv, NEW r \in Readers, Damage
  PROVE  (KnowsBody(r) /\ KnowsNoBody(r) /\ KnowsStatus(r))'
<1> USE StoreAssumption
<1>1. /\ rpc'[r] = rpc[r] /\ rbody'[r] = rbody[r] /\ rstatus'[r] = rstatus[r]
      /\ status' = status /\ clock' = clock
  BY DEF Damage, readVars, TypeOK
<1>2. CASE NoteChange
  BY <1>2, Overtaken DEF Damage, readVars
<1>3. CASE UNCHANGED raced /\ (body' = None \/ body' = [body EXCEPT !.form = "tampered"])
  <2>1. /\ body # None /\ body.dead = body.dead
        /\ body' # None => /\ body'.expires = body.expires /\ body'.dead = body.dead
                           /\ body'.form # "unreadable"
    BY <1>3 DEF Damage, TypeOK, Bodies
  <2>2. rpc[r] # "idle" => truths[r] \subseteq truths'[r]
    BY Witnessed DEF Damage, Reading
  <2>3. KnowsBody(r)'
    BY <1>1, <1>3, <2>1, <2>2 DEF ReaderInv, KnowsBody
  <2>4. KnowsNoBody(r)'
    BY <1>1, <1>3, <2>1 DEF ReaderInv, KnowsNoBody, Live
  <2>5. KnowsStatus(r)'
    BY <1>1, <1>3, <2>2 DEF ReaderInv, KnowsStatus
  <2> QED
    BY <2>3, <2>4, <2>5
<1> QED
  BY <1>2, <1>3 DEF Damage

\* A reader that has just begun or ended knows nothing of the record.
LEMMA NotReadYet ==
  ASSUME NEW r \in Readers, rpc'[r] \in {"idle", "body"}
  PROVE  (KnowsBody(r) /\ KnowsNoBody(r) /\ KnowsStatus(r))'
  BY DEF KnowsBody, KnowsNoBody, KnowsStatus

\* Every step keeps what every reader knows.
LEMMA ReaderStep ==
  ASSUME TypeOK, RecordInv, ReaderInv, [Next]_vars
  PROVE  ReaderInv'
<1>1. CASE UNCHANGED vars
  BY <1>1 DEF vars, storeVars, readVars, ReaderInv, SeesPresent, KnowsBody,
              KnowsNoBody, KnowsStatus, Reading, Live
<1>2. CASE Next
  <2> SUFFICES ASSUME NEW q \in Readers
               PROVE  (KnowsBody(q) /\ KnowsNoBody(q) /\ KnowsStatus(q))' /\ Witness
    BY Witnessed DEF ReaderInv
  <2>1. ASSUME NEW w \in Writers, PrepareStore(w) \/ StoreRaises(w)
        PROVE  (KnowsBody(q) /\ KnowsNoBody(q) /\ KnowsStatus(q))' /\ Witness
    BY <2>1, Unmoved DEF PrepareStore, StoreRaises, storeVars, readVars
  <2>2. ASSUME NEW w \in Writers, ExecuteStore(w)
        PROVE  (KnowsBody(q) /\ KnowsNoBody(q) /\ KnowsStatus(q))' /\ Witness
    BY <2>2, Overtaken DEF ExecuteStore, readVars
  <2>3. CASE InvalidateCompressed
    BY <2>3, Overtaken DEF InvalidateCompressed, readVars
  <2>4. ASSUME NEW r \in Readers, BeginRead(r) \/ GetBody(r) \/ GetStatus(r)
                                  \/ GetRaises(r) \/ Decide(r)
        PROVE  (KnowsBody(q) /\ KnowsNoBody(q) /\ KnowsStatus(q))' /\ Witness
    <3>1. Witness /\ body' = body /\ status' = status /\ clock' = clock
      BY <2>4 DEF BeginRead, GetBody, GetStatus, GetRaises, Decide, storeVars
    <3>2. CASE q # r
      BY <2>4, <3>1, <3>2, Unmoved
         DEF BeginRead, GetBody, GetStatus, GetRaises, Decide, TypeOK
    <3>3. CASE q = r /\ GetBody(r)
      BY <3>1, <3>3, BodyRead
    <3>4. CASE q = r /\ GetStatus(r)
      BY <3>1, <3>4, StatusRead
    <3>5. CASE q = r /\ (BeginRead(r) \/ GetRaises(r) \/ Decide(r))
      <4>1. rpc'[r] \in {"idle", "body"}
        BY <3>5 DEF BeginRead, GetRaises, Decide, TypeOK
      <4> QED
        BY <3>1, <3>5, <4>1, NotReadYet
    <3> QED
      BY <2>4, <3>2, <3>3, <3>4, <3>5
  <2>5. CASE Tick
    BY <2>5, TimePassed DEF Tick
  <2>6. CASE Outage
    BY <2>6, Unmoved DEF Outage, storeVars, readVars
  <2>7. CASE Damage
    BY <2>7, Damaged DEF Damage
  <2> QED
    BY <1>2, <2>1, <2>2, <2>3, <2>4, <2>5, <2>6, <2>7 DEF Next
<1> QED
  BY <1>1, <1>2

\* The verdict on what a reader found was true while it read, or is expired
\* or corrupt after a write overtook it.
LEMMA VerdictTrue ==
  ASSUME TypeOK, ReaderInv, NEW r \in Readers, rpc[r] = "decide"
  PROVE  LET verdict == Verdict(rbody[r], rstatus[r], clock)
         IN  \/ verdict \in truths[r]
             \/ verdict \in {Result("corrupt"), Result("expired")} /\ raced[r]
<1> DEFINE verdict == Verdict(rbody[r], rstatus[r], clock)
<1>1. clock \in Nat
  BY DEF TypeOK
<1>2. CASE rbody[r] = None /\ rstatus[r] = None
  <2>1. verdict = Result("not_found")
    BY <1>2 DEF Verdict
  <2> QED
    BY <1>2, <2>1 DEF ReaderInv, KnowsStatus
<1>3. CASE rbody[r] = None /\ rstatus[r] # None
  <2>1. rstatus[r].expires \in Nat
    BY <1>3 DEF TypeOK, Statuses
  <2>2. verdict = Result(IF rstatus[r].expires <= clock THEN "expired" ELSE "corrupt")
    BY <1>3 DEF Verdict
  <2>3. CASE raced[r]
    BY <2>2, <2>3
  <2>4. CASE ~raced[r]
    BY <1>1, <1>3, <2>1, <2>2, <2>4 DEF ReaderInv, KnowsStatus
  <2> QED
    BY <2>3, <2>4
<1>4. CASE rbody[r] # None
  <2>1. rbody[r].expires \in Nat
    BY <1>4 DEF TypeOK, Bodies
  <2>2. CASE rbody[r].form = "unreadable"
    <3>1. verdict = Result("corrupt")
      BY <1>4, <2>2 DEF Verdict
    <3> QED
      BY <1>4, <2>2, <3>1 DEF ReaderInv, KnowsBody
  <2>3. CASE rbody[r].form # "unreadable" /\ rbody[r].expires <= clock
    <3>1. verdict = Result("expired")
      BY <1>1, <1>4, <2>1, <2>3 DEF Verdict
    <3> QED
      BY <1>4, <2>3, <3>1 DEF ReaderInv, KnowsBody
  <2>4. CASE rbody[r].form # "unreadable" /\ clock < rbody[r].expires
    <3>1. verdict = IF rbody[r].form = "whole" THEN Found(rbody[r].content)
                    ELSE Result("corrupt")
      BY <1>1, <1>4, <2>1, <2>4 DEF Verdict
    <3> QED
      BY <1>4, <2>4, <3>1 DEF ReaderInv, KnowsBody
  <2> QED
    BY <1>1, <2>1, <2>2, <2>3, <2>4
<1> QED
  BY <1>2, <1>3, <1>4

\* A result stays true: an idle reader's result and history do not change.
LEMMA ResultStep ==
  ASSUME TypeOK, ReaderInv, ReadsTrueOrRaced, [Next]_vars
  PROVE  ReadsTrueOrRaced'
<1>1. CASE UNCHANGED vars
  BY <1>1 DEF vars, readVars, ReadsTrueOrRaced, Reading
<1>2. CASE Next
  <2> SUFFICES ASSUME NEW q \in Readers, rpc'[q] = "idle", result'[q] # None
               PROVE  \/ result'[q] \in truths'[q]
                      \/ result'[q] \in {Result("corrupt"), Result("expired")} /\ raced'[q]
    BY DEF ReadsTrueOrRaced, Reading, Result
  <2>1. Witness
    BY <1>2 DEF Next, PrepareStore, ExecuteStore, StoreRaises, InvalidateCompressed,
                BeginRead, GetBody, GetStatus, GetRaises, Decide, Tick, Outage, Damage
  <2>2. truths'[q] = truths[q]
    BY <2>1, Witnessed
  <2>3. CASE Decide(q)
    BY <2>2, <2>3, VerdictTrue DEF Decide, TypeOK
  <2>4. CASE GetRaises(q)
    <3>1. Result("unhealthy") \in truths[q]
      BY <2>4 DEF GetRaises, ReaderInv, SeesPresent, Reading
    <3> QED
      BY <2>2, <2>4, <3>1 DEF GetRaises, TypeOK
  <2>5. CASE ~Decide(q) /\ ~GetRaises(q)
    <3>1. rpc[q] = "idle" /\ result'[q] = result[q] /\ raced'[q] = raced[q]
      <4>1. ASSUME NEW r \in Readers, BeginRead(r) \/ GetBody(r) \/ GetStatus(r)
                                      \/ GetRaises(r) \/ Decide(r)
            PROVE  rpc[q] = "idle" /\ result'[q] = result[q] /\ raced'[q] = raced[q]
        BY <2>5, <4>1 DEF BeginRead, GetBody, GetStatus, GetRaises, Decide, TypeOK
      <4>2. ASSUME NEW w \in Writers, PrepareStore(w) \/ ExecuteStore(w) \/ StoreRaises(w)
            PROVE  rpc[q] = "idle" /\ result'[q] = result[q] /\ raced'[q] = raced[q]
        BY <4>2 DEF PrepareStore, ExecuteStore, StoreRaises, NoteChange, readVars, TypeOK
      <4>3. CASE InvalidateCompressed \/ Tick \/ Outage \/ Damage
        BY <4>3 DEF InvalidateCompressed, Tick, Outage, Damage, NoteChange, readVars, TypeOK
      <4> QED
        BY <1>2, <4>1, <4>2, <4>3 DEF Next
    <3> QED
      BY <2>2, <3>1 DEF ReadsTrueOrRaced, Reading
  <2> QED
    BY <2>3, <2>4, <2>5
<1> QED
  BY <1>1, <1>2

\* A read returns what the record truly was at some instant while it ran, or
\* expired or corrupt after a write overtook it: for any number of readers and
\* writers, any TTLs, under outages and damage.
THEOREM ReadsTrue == Spec => []ReadsTrueOrRaced
<1>1. Init => ReaderInv /\ ReadsTrueOrRaced
  BY DEF Init, ReaderInv, SeesPresent, KnowsBody, KnowsNoBody, KnowsStatus,
         ReadsTrueOrRaced, Reading
<1>2. TypeOK /\ RecordInv /\ ReaderInv /\ ReadsTrueOrRaced /\ [Next]_vars
        => ReaderInv' /\ ReadsTrueOrRaced'
  BY ReaderStep, ResultStep
<1> QED
  BY <1>1, <1>2, RecordInvariant, TypeCorrect, PTL DEF Spec
=============================================================================
