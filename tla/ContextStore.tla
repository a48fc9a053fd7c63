---------------------------- MODULE ContextStore ----------------------------
(***************************************************************************)
(* One encrypted record of the durable store (context_store.py): a body    *)
(* key and a status key (the tombstone) in Redis, written in one MULTI and *)
(* read with two separate GETs by any number of proxy threads.             *)
(*                                                                         *)
(* What is simplified: the envelope is its content, its expires_at and its *)
(* form: whole, tampered (it no longer decrypts to its HMAC version) or    *)
(* unreadable (JSON, schema).  Damage spares every expires_at and the      *)
(* tombstone.  One clock serves Redis and the proxies.  Redis deletes a    *)
(* key at its own deadline, which is later than expires_at when the writer *)
(* was slow between taking the time and executing the MULTI.               *)
(* Bounds: MaxTime caps the clock, MaxReads the reads started.             *)
(***************************************************************************)
EXTENDS Naturals, FiniteSets

CONSTANTS
  Writers,    \* threads inside _store_encrypted
  Readers,    \* threads inside _retrieve_encrypted
  Contents,   \* plaintexts stored under this key
  Ttl,        \* ttl_seconds
  Tombstone,  \* tombstone_seconds
  Faults,     \* which of "outage", "damage" can happen
  MaxTime,    \* bound on the clock
  MaxReads,   \* bound on the reads
  None

Forms == {"whole", "tampered", "unreadable"}
Bodies == [content : Contents, expires : Nat, form : Forms, dead : Nat]
Statuses == [expires : Nat, dead : Nat]
Envelopes == [content : Contents, expires : Nat]

ASSUME StoreAssumption ==
  /\ Ttl \in Nat \ {0}
  /\ Tombstone \in Nat \ {0}
  /\ MaxTime \in Nat
  /\ MaxReads \in Nat
  /\ Faults \subseteq {"outage", "damage"}
  /\ None \notin Contents \cup Bodies \cup Statuses \cup Envelopes

VARIABLES
  clock,
  up,       \* Redis answers
  body,     \* [content, expires, form, dead] or None; dead is Redis's deadline
  status,   \* [expires, dead] or None
  writing,  \* writing[w]: the envelope w has prepared, or None
  rpc,      \* where each reader is
  rbody,    \* what its first GET returned
  rstatus,  \* what its second GET returned
  result,   \* [status, content] of its last read, or None
  truths,   \* history: what a read in one step would have returned since it began
  raced,    \* history: the record was written, or made unreadable, after its first GET
  latest,   \* history: expires_at of the last store not invalidated, or None
  reads     \* history: reads started

storeVars == <<body, status, latest>>
readVars  == <<rpc, rbody, rstatus, result, reads>>
vars == <<clock, up, storeVars, writing, readVars, truths, raced>>

Result(s) == [status |-> s, content |-> None]
Found(c)  == [status |-> "found", content |-> c]

\* What Redis still holds at time t.
Live(key, t) == IF key # None /\ t < key.dead THEN key ELSE None

\* Mutant: an authentic body is returned whatever its expires_at.
VerdictIgnoringExpiry(b, s, t) ==
  CASE b # None /\ b.form = "whole"          -> Found(b.content)
    [] b # None /\ b.form # "whole"          -> Result("corrupt")
    [] b = None /\ s = None                  -> Result("not_found")
    [] b = None /\ s # None                  ->
         Result(IF s.expires <= t THEN "expired" ELSE "corrupt")

\* Mutant: an expired body is reported found, without its content.
VerdictExpiredFound(b, s, t) ==
  IF b # None /\ b.expires <= t THEN Result("found") ELSE Result("not_found")

\* The decision of _retrieve_encrypted on what its GETs returned, at time t:
\* an envelope is read, its expiry is looked at, and it is decrypted.
Verdict(b, s, t) ==
  CASE b = None /\ s = None                  -> Result("not_found")
    [] b = None /\ s # None                  ->
         Result(IF s.expires <= t THEN "expired" ELSE "corrupt")
    [] b # None /\ b.form = "unreadable"     -> Result("corrupt")
    [] b # None /\ b.form # "unreadable"     ->
         IF b.expires <= t THEN Result("expired")
         ELSE IF b.form = "whole" THEN Found(b.content) ELSE Result("corrupt")

\* The documented answer for the record as it is at one instant
\* (the table of durable-context-storage.md).
Truth(b, s, t) ==
  LET here == Live(b, t)
      tomb == Live(s, t)
      readable == here # None /\ here.form # "unreadable"
      past(key) == key # None /\ key.expires <= t
  IN CASE here = None /\ tomb = None                        -> Result("not_found")
       [] (readable /\ past(here)) \/ (here = None /\ past(tomb)) -> Result("expired")
       [] readable /\ ~past(here) /\ here.form = "whole"     -> Found(here.content)
       [] OTHER                                             -> Result("corrupt")

\* The true answers at an instant: an outage is one, and hides no other.
Answers(isUp, b, s, t) ==
  {Truth(b, s, t)} \cup (IF isUp THEN {} ELSE {Result("unhealthy")})

Reading(r) == rpc[r] # "idle"

\* Every reader in progress also saw the state after this step.
Witness ==
  truths' = [r \in Readers |->
    IF rpc'[r] = "idle" THEN truths[r]
    ELSE (IF Reading(r) THEN truths[r] ELSE {})
           \cup Answers(up', body', status', clock')]

\* The record is changed: the readers past their first GET are overtaken.
NoteChange ==
  raced' = [r \in Readers |-> raced[r] \/ rpc[r] \in {"status", "decide"}]
-----------------------------------------------------------------------------
(* Writers *)

\* The time is taken and the envelope encrypted.
PrepareStore(w) ==
  /\ writing[w] = None
  /\ \E c \in Contents :
       writing' = [writing EXCEPT ![w] = [content |-> c, expires |-> clock + Ttl]]
  /\ UNCHANGED <<clock, up, storeVars, readVars, raced>>
  /\ Witness

\* Mutant: the tombstone lives as long as the body and no longer.
StatusDeadlineShort(t) == t + Ttl

\* ex=ttl + tombstone
StatusDeadline(t) == t + Ttl + Tombstone

\* The MULTI: both keys in one step.
ExecuteStore(w) ==
  /\ up
  /\ writing[w] # None
  /\ body' = [content |-> writing[w].content, expires |-> writing[w].expires,
              form |-> "whole", dead |-> clock + Ttl]
  /\ status' = [expires |-> writing[w].expires, dead |-> StatusDeadline(clock)]
  /\ latest' = writing[w].expires
  /\ writing' = [writing EXCEPT ![w] = None]
  /\ NoteChange
  /\ UNCHANGED <<clock, up, readVars>>
  /\ Witness

\* The exception leaves _store_encrypted; nothing was written.  (A MULTI that
\* Redis executed although its reply was lost leaves what ExecuteStore leaves.)
StoreRaises(w) ==
  /\ ~up
  /\ writing[w] # None
  /\ writing' = [writing EXCEPT ![w] = None]
  /\ UNCHANGED <<clock, up, storeVars, readVars, raced>>
  /\ Witness

\* Mutant: only the status key is deleted.
InvalidateStatusOnly ==
  /\ up
  /\ status' = None /\ latest' = None
  /\ NoteChange
  /\ UNCHANGED <<clock, up, body, writing, readVars>>
  /\ Witness

\* invalidate_compressed: one DEL of both keys.
InvalidateCompressed ==
  /\ up
  /\ body' = None /\ status' = None /\ latest' = None
  /\ NoteChange
  /\ UNCHANGED <<clock, up, writing, readVars>>
  /\ Witness
-----------------------------------------------------------------------------
(* Readers *)

BeginRead(r) ==
  /\ ~Reading(r)
  /\ reads < MaxReads
  /\ reads' = reads + 1
  /\ rpc' = [rpc EXCEPT ![r] = "body"]
  /\ result' = [result EXCEPT ![r] = None]
  /\ raced' = [raced EXCEPT ![r] = FALSE]
  /\ UNCHANGED <<clock, up, storeVars, writing, rbody, rstatus>>
  /\ Witness

GetBody(r) ==
  /\ rpc[r] = "body" /\ up
  /\ rpc' = [rpc EXCEPT ![r] = "status"]
  /\ rbody' = [rbody EXCEPT ![r] = Live(body, clock)]
  /\ UNCHANGED <<clock, up, storeVars, writing, rstatus, result, reads, raced>>
  /\ Witness

GetStatus(r) ==
  /\ rpc[r] = "status" /\ up
  /\ rpc' = [rpc EXCEPT ![r] = "decide"]
  /\ rstatus' = [rstatus EXCEPT ![r] = Live(status, clock)]
  /\ UNCHANGED <<clock, up, storeVars, writing, rbody, result, reads, raced>>
  /\ Witness

\* Either GET raises: UNHEALTHY.
GetRaises(r) ==
  /\ rpc[r] \in {"body", "status"} /\ ~up
  /\ rpc' = [rpc EXCEPT ![r] = "idle"]
  /\ result' = [result EXCEPT ![r] = Result("unhealthy")]
  /\ rbody' = [rbody EXCEPT ![r] = None]
  /\ rstatus' = [rstatus EXCEPT ![r] = None]
  /\ UNCHANGED <<clock, up, storeVars, writing, reads, raced>>
  /\ Witness

\* The clock is read again to decide.
Decide(r) ==
  /\ rpc[r] = "decide"
  /\ rpc' = [rpc EXCEPT ![r] = "idle"]
  /\ result' = [result EXCEPT ![r] = Verdict(rbody[r], rstatus[r], clock)]
  /\ rbody' = [rbody EXCEPT ![r] = None]
  /\ rstatus' = [rstatus EXCEPT ![r] = None]
  /\ UNCHANGED <<clock, up, storeVars, writing, reads, raced>>
  /\ Witness
-----------------------------------------------------------------------------
(* The environment *)

Tick ==
  /\ clock < MaxTime
  /\ clock' = clock + 1
  /\ UNCHANGED <<up, storeVars, writing, readVars, raced>>
  /\ Witness

Outage ==
  /\ "outage" \in Faults
  /\ up' = ~up
  /\ UNCHANGED <<clock, storeVars, writing, readVars, raced>>
  /\ Witness

\* The stored body is altered, or evicted without its tombstone.
Damage ==
  /\ "damage" \in Faults
  /\ body # None
  /\ \/ body' = None /\ UNCHANGED raced
     \/ body.form = "whole" /\ body' = [body EXCEPT !.form = "tampered"] /\ UNCHANGED raced
     \/ body' = [body EXCEPT !.form = "unreadable"] /\ NoteChange
  /\ UNCHANGED <<clock, up, status, latest, writing, readVars>>
  /\ Witness

Init ==
  /\ clock = 0
  /\ up = TRUE
  /\ body = None /\ status = None /\ latest = None
  /\ writing = [w \in Writers |-> None]
  /\ rpc = [r \in Readers |-> "idle"]
  /\ rbody = [r \in Readers |-> None]
  /\ rstatus = [r \in Readers |-> None]
  /\ result = [r \in Readers |-> None]
  /\ truths = [r \in Readers |-> {}]
  /\ raced = [r \in Readers |-> FALSE]
  /\ reads = 0

Next ==
  \/ \E w \in Writers : PrepareStore(w) \/ ExecuteStore(w) \/ StoreRaises(w)
  \/ InvalidateCompressed
  \/ \E r \in Readers : BeginRead(r) \/ GetBody(r) \/ GetStatus(r) \/ GetRaises(r)
                          \/ Decide(r)
  \/ Tick
  \/ Outage
  \/ Damage

Spec == Init /\ [][Next]_vars
-----------------------------------------------------------------------------
(* Properties *)

Results == {Result(s) : s \in {"not_found", "expired", "corrupt", "unhealthy"}}
             \cup {Found(c) : c \in Contents}

\* Every variable keeps its type; in particular a result is one of the five
\* documented states, with content exactly when it is found.
TypeOK ==
  /\ clock \in Nat
  /\ up \in BOOLEAN
  /\ body \in Bodies \cup {None}
  /\ status \in Statuses \cup {None}
  /\ latest \in Nat \cup {None}
  /\ writing \in [Writers -> Envelopes \cup {None}]
  /\ rpc \in [Readers -> {"idle", "body", "status", "decide"}]
  /\ rbody \in [Readers -> Bodies \cup {None}]
  /\ rstatus \in [Readers -> Statuses \cup {None}]
  /\ result \in [Readers -> Results \cup {None}]
  /\ truths \in [Readers -> SUBSET Results]
  /\ raced \in [Readers -> BOOLEAN]
  /\ reads \in Nat

\* A read returns what the record truly was at some instant while it ran: so
\* content is returned only if it was stored, whole and unexpired then, and
\* absence and outage are never invented.  Only expired and corrupt may be
\* wrong, and only when a write, or damage to the envelope, overtook the reader
\* between its GETs and its verdict (_retrieve_encrypted,
\* context_store.py:222-267).
ReadsTrueOrRaced ==
  \A r \in Readers : (~Reading(r) /\ result[r] # None) =>
    \/ result[r] \in truths[r]
    \/ result[r] \in {Result("corrupt"), Result("expired")} /\ raced[r]

\* Until its tombstone ends, a record that was stored and not invalidated can
\* be told from one that never was, whatever writers overlap
\* (_store_encrypted, context_store.py:195-208).
ExpiryStaysKnown ==
  (latest # None /\ clock < latest + Tombstone) => Live(status, clock) # None

\* A body never outlives its tombstone, and both give the same expiry, so a
\* reader that finds no body can trust the tombstone's.
TombstoneCoversBody ==
  Live(body, clock) # None =>
    /\ Live(status, clock) # None
    /\ status.expires = body.expires
    /\ body.expires <= body.dead
=============================================================================
