----------------------------- MODULE PathHistory -----------------------------
(***************************************************************************)
(* The shadow references of file paths in the durable store                *)
(* (context_store.py, set_shadow_for_path and its readers): callers check  *)
(* the shadow, read the mapping, change their copy of it, write it back    *)
(* and then write the encrypted reverse path, each by a command of its     *)
(* own.                                                                    *)
(*                                                                         *)
(* Files of one content share a shadow, and with it the reverse path.      *)
(* A mapping holds the newest id twice, as shadow_id and in shadow_ids.    *)
(*                                                                         *)
(* What is simplified: a shadow is available or not, which                 *)
(* ContextStore.tla takes apart; content versions are left out.  A mapping *)
(* is read whole or not at all, and a reader is one step.                  *)
(* Bounds: MaxSets caps the calls of set_shadow_for_path.                  *)
(***************************************************************************)
EXTENDS Naturals, FiniteSets, SequencesExt

CONSTANTS
  Setters,       \* callers of set_shadow_for_path
  Paths,         \* file paths
  Shadows,       \* shadow ids
  HistoryLimit,  \* the eight of history[-8:]
  Faults,        \* which of "crash", "outage", "lost" (a reply), "expiry" can happen
  MaxSets,       \* bound on the calls
  None

ASSUME HistoryLimitAssumption == HistoryLimit \in Nat \ {0}

ASSUME MaxSetsAssumption == MaxSets \in Nat

ASSUME NoneAssumption == None \notin Paths \cup Shadows

VARIABLES
  mapping,    \* each path's stored mapping [id, ids]; NoMapping when the key is absent
  reverse,    \* each shadow's stored reverse path; None when absent
  available,  \* the shadows retrieve_with_status finds
  up,         \* Redis answers
  pc,         \* where each caller is in set_shadow_for_path
  arg,        \* its arguments: the path and the shadow_id
  copy,       \* its local history
  calls,      \* history: the calls made
  told,       \* history: the ids written to each present mapping, in order
  owner,      \* history: the path each id was mapped to last
  base,       \* history: what each caller's copy was made from, as told
  spoiled,    \* history: the paths with a write that did not build on the
              \* mapping it replaced
  tangled     \* history: the ids whose last mapping overlapped another one
              \* of that id, or whose call did not reach its reverse path

callerVars == <<pc, arg, copy, base>>
mappingVars == <<mapping, told, owner, spoiled>>
vars == <<mappingVars, reverse, tangled, available, up, callerVars, calls>>

\* history[-n:]
LastOf(n, h) == SubSeq(h, (IF Len(h) > n THEN Len(h) - n ELSE 0) + 1, Len(h))

\* Mutant: an id that is already there is not removed first.
RememberAgain(h, s) == LastOf(HistoryLimit, Append(h, s))

\* Mutant: the oldest ids are kept.
RememberOldest(h, s) ==
  LET all == Append(RemoveFirst(h, s), s)
  IN  SubSeq(all, 1, IF Len(all) > HistoryLimit THEN HistoryLimit ELSE Len(all))

\* The id moves to the end; the last HistoryLimit ids stay.
Remember(h, s) == LastOf(HistoryLimit, Append(RemoveFirst(h, s), s))

NoArg == [path |-> None, id |-> None]

\* shadow_id and shadow_ids of a path whose key Redis does not hold.
NoMapping == [id |-> None, ids |-> << >>]

Goto(w, from, to) == pc[w] = from /\ pc' = [pc EXCEPT ![w] = to]

\* The callers between their two writes for the id s.
Midway(s) == {w \in Setters : pc[w] = "reverse" /\ arg[w].id = s}

\* Callers forget their local variables.
Forget(W) ==
  /\ arg' = [w \in Setters |-> IF w \in W THEN NoArg ELSE arg[w]]
  /\ copy' = [w \in Setters |-> IF w \in W THEN << >> ELSE copy[w]]
  /\ base' = [w \in Setters |-> IF w \in W THEN << >> ELSE base[w]]
-----------------------------------------------------------------------------
(* set_shadow_for_path *)

\* The shadow is looked up; one that is not FOUND (or a store that is down)
\* is a ValueError, before anything is written.
Check(w, p, s) ==
  /\ calls < MaxSets
  /\ up /\ s \in available
  /\ Goto(w, "idle", "read")
  /\ arg' = [arg EXCEPT ![w] = [path |-> p, id |-> s]]
  /\ calls' = calls + 1
  /\ UNCHANGED <<mappingVars, reverse, tangled, available, up, copy, base>>

\* Whatever goes wrong in reading the mapping, the history starts empty.
ReadMapping(w) ==
  LET stored == IF up THEN mapping[arg[w].path].ids ELSE << >>
  IN  /\ Goto(w, "read", "write")
      /\ copy' = [copy EXCEPT ![w] = Remember(stored, arg[w].id)]
      /\ base' = [base EXCEPT ![w] = IF up THEN told[arg[w].path] ELSE << >>]
      /\ UNCHANGED <<mappingVars, reverse, tangled, available, up, arg, calls>>

\* Mutant: the shadow_id of a mapping that is there is kept.
NewMappingKeepsId(w) ==
  [id  |-> IF mapping[arg[w].path] = NoMapping THEN arg[w].id ELSE mapping[arg[w].path].id,
   ids |-> copy[w]]

\* What the call is about to store: the new id, and its changed copy.
NewMapping(w) == [id |-> arg[w].id, ids |-> copy[w]]

\* Redis executes the SET of the mapping.
SetMapping(w) ==
  LET p == arg[w].path
      s == arg[w].id
  IN  /\ up
      /\ mapping' = [mapping EXCEPT ![p] = NewMapping(w)]
      /\ told' = [told EXCEPT ![p] = Append(@, s)]
      /\ owner' = [owner EXCEPT ![s] = p]
      /\ spoiled' = IF base[w] = told[p] THEN spoiled ELSE spoiled \cup {p}
      /\ UNCHANGED <<reverse, available, up, calls>>

WriteMapping(w) ==
  /\ Goto(w, "write", "reverse")
  /\ SetMapping(w)
  /\ tangled' = IF Midway(arg[w].id) = {} THEN tangled \ {arg[w].id}
                ELSE tangled \cup {arg[w].id}
  /\ UNCHANGED <<arg, copy, base>>

\* The SET was executed and its reply is lost: the caller sees a failed
\* write.  (After the second write the same loss leaves what WriteReverse
\* leaves, and after a GET what a failed one leaves.)
ReplyLost(w) ==
  /\ "lost" \in Faults
  /\ Goto(w, "write", "idle")
  /\ SetMapping(w)
  /\ tangled' = tangled \cup {arg[w].id}
  /\ Forget({w})

\* Mutant: the reverse path is written once and kept.
WriteReverseOnce(w) ==
  /\ up
  /\ Goto(w, "reverse", "idle")
  /\ reverse' = IF reverse[arg[w].id] # None THEN reverse
                ELSE [reverse EXCEPT ![arg[w].id] = arg[w].path]
  /\ Forget({w})
  /\ UNCHANGED <<mappingVars, tangled, available, up, calls>>

\* One record per shadow: the later path replaces the earlier one.
WriteReverse(w) ==
  /\ up
  /\ Goto(w, "reverse", "idle")
  /\ reverse' = [reverse EXCEPT ![arg[w].id] = arg[w].path]
  /\ Forget({w})
  /\ UNCHANGED <<mappingVars, tangled, available, up, calls>>

\* Mutant: a failed write of the mapping is swallowed.
SetRaisesSwallowed(w) ==
  /\ ~up
  /\ Goto(w, "write", "reverse")
  /\ UNCHANGED <<mappingVars, reverse, tangled, available, up, arg, copy, base, calls>>

\* A write fails: the exception leaves the call, what was written stays.
SetRaises(w) ==
  /\ ~up
  /\ Goto(w, "write", "idle") \/ Goto(w, "reverse", "idle")
  /\ tangled' = tangled \cup (IF pc[w] = "reverse" THEN {arg[w].id} ELSE {})
  /\ Forget({w})
  /\ UNCHANGED <<mappingVars, reverse, available, up, calls>>
-----------------------------------------------------------------------------
(* The readers *)

\* get_shadow_for_path: the stored shadow_id, if its body is there.
GetShadow(p) ==
  IF up /\ mapping[p].id \in available THEN mapping[p].id ELSE None

\* The stored shadow_ids, newest first, without the unavailable ones.
Listed(h) ==
  LET listed[n \in 0..Len(h)] ==
        IF n = 0 THEN << >>
        ELSE (IF h[n] \in available THEN <<h[n]>> ELSE << >>) \o listed[n - 1]
  IN  listed[Len(h)]

GetShadows(p) == IF up THEN Listed(mapping[p].ids) ELSE << >>

GetPath(s) == IF up THEN reverse[s] ELSE None
-----------------------------------------------------------------------------
(* The rest of the store and the environment *)

\* store(content) writes the body of a shadow.
Store(s) ==
  /\ up
  /\ s \notin available
  /\ available' = available \cup {s}
  /\ UNCHANGED <<mappingVars, reverse, tangled, up, callerVars, calls>>

\* A key's TTL passes: a body, a reverse path, or the whole mapping.
Expire ==
  /\ "expiry" \in Faults
  /\ \/ /\ \E s \in available : available' = available \ {s}
        /\ UNCHANGED <<mappingVars, reverse>>
     \/ /\ \E s \in Shadows : reverse[s] # None /\ reverse' = [reverse EXCEPT ![s] = None]
        /\ UNCHANGED <<mappingVars, available>>
     \/ /\ \E p \in Paths : /\ mapping[p] # NoMapping
                            /\ mapping' = [mapping EXCEPT ![p] = NoMapping]
                            /\ told' = [told EXCEPT ![p] = << >>]
        /\ UNCHANGED <<reverse, available, owner, spoiled>>
  /\ UNCHANGED <<tangled, up, callerVars, calls>>

Outage ==
  /\ "outage" \in Faults
  /\ up' = ~up
  /\ UNCHANGED <<mappingVars, reverse, tangled, available, callerVars, calls>>

\* The process of every caller dies; Redis keeps what was written.
Crash ==
  /\ "crash" \in Faults
  /\ \E w \in Setters : pc[w] # "idle"
  /\ pc' = [w \in Setters |-> "idle"]
  /\ tangled' = tangled \cup {s \in Shadows : Midway(s) # {}}
  /\ Forget(Setters)
  /\ UNCHANGED <<mappingVars, reverse, available, up, calls>>

Init ==
  /\ mapping = [p \in Paths |-> NoMapping]
  /\ reverse = [s \in Shadows |-> None]
  /\ available = {}
  /\ up = TRUE
  /\ pc = [w \in Setters |-> "idle"]
  /\ arg = [w \in Setters |-> NoArg]
  /\ copy = [w \in Setters |-> << >>]
  /\ calls = 0
  /\ told = [p \in Paths |-> << >>]
  /\ owner = [s \in Shadows |-> None]
  /\ base = [w \in Setters |-> << >>]
  /\ spoiled = {}
  /\ tangled = {}

Next ==
  \/ \E w \in Setters :
       \/ \E p \in Paths, s \in Shadows : Check(w, p, s)
       \/ ReadMapping(w) \/ WriteMapping(w) \/ ReplyLost(w)
       \/ WriteReverse(w) \/ SetRaises(w)
  \/ \E s \in Shadows : Store(s)
  \/ Expire
  \/ Outage
  \/ Crash

Spec == Init /\ [][Next]_vars
-----------------------------------------------------------------------------
(* Properties *)

\* Histories are short and without repetition, in Redis and in every caller.
Histories == {h \in UNION {[1..n -> Shadows] : n \in 0..HistoryLimit} : IsInjective(h)}

\* Every variable keeps its type.
TypeOK ==
  /\ mapping \in [Paths -> [id : Shadows \cup {None}, ids : Histories]]
  /\ reverse \in [Shadows -> Paths \cup {None}]
  /\ available \subseteq Shadows
  /\ up \in BOOLEAN
  /\ pc \in [Setters -> {"idle", "read", "write", "reverse"}]
  /\ arg \in [Setters -> [path : Paths, id : Shadows] \cup {NoArg}]
  /\ copy \in [Setters -> Histories]
  /\ calls \in 0..MaxSets
  /\ told \in [Paths -> Seq(Shadows)]
  /\ owner \in [Shadows -> Paths \cup {None}]
  /\ base \in [Setters -> Seq(Shadows)]
  /\ spoiled \subseteq Paths
  /\ tangled \subseteq Shadows

\* When an id was last written to a path's mapping.
LastTold(p, s) == CHOOSE i \in 1..Len(told[p]) :
                    /\ told[p][i] = s
                    /\ \A j \in i+1..Len(told[p]) : told[p][j] # s

\* The mapping of p is its most recent references, HistoryLimit of them, in
\* the order they were last mapped.
IsMostRecent(p) ==
  LET Newer(s) == {t \in Range(told[p]) : LastTold(p, t) > LastTold(p, s)}
      h        == mapping[p].ids
  IN  /\ Range(h) = {s \in Range(told[p]) : Cardinality(Newer(s)) < HistoryLimit}
      /\ \A i, j \in 1..Len(h) : i < j => LastTold(p, h[i]) < LastTold(p, h[j])

\* Forward mappings retain the most recent shadow references
\* (durable-context-storage.md:53-54; set_shadow_for_path,
\* context_store.py:303-322).
RetainsMostRecent == \A p \in Paths : IsMostRecent(p)

\* They are lost only to a write that did not build on the mapping it
\* replaced, because its read failed or another caller of that path wrote in
\* between; crashes, expiry, failed writes, lost replies and the callers of
\* other paths never lose one (context_store.py:303-322).
LostOnlyToBlindWrites == \A p \in Paths \ spoiled : IsMostRecent(p)

\* The newest reference survives every race.  The stored shadow_id is the
\* caller's own and the stored shadow_ids come from a copy it made earlier;
\* of callers that overlap one overwrites the other's mapping, a read fails, a
\* reply is lost, bodies expire: still get_shadow_for_path answers the id of
\* the last SET that Redis executed, exactly while that shadow is available,
\* and get_shadows_for_path then lists that same id first
\* (context_store.py:303-322, 325-347).
ReadersAgree ==
  \A p \in Paths :
    /\ GetShadow(p) = IF up /\ told[p] # << >> /\ Last(told[p]) \in available
                      THEN Last(told[p]) ELSE None
    /\ GetShadow(p) # None => Head(GetShadows(p)) = GetShadow(p)

\* Files of one content share a reverse path.  Between calls, the path
\* get_path_for_shadow answers is the one the shadow was mapped to last,
\* unless that mapping overlapped another one of the shadow or its call did
\* not reach the reverse path; a failed or unfinished call for one path never
\* answers for a path it did not map (context_store.py:322-323, 349-352).
ReverseFollowsLastMapping ==
  \A s \in Shadows :
    GetPath(s) # None =>
      /\ owner[s] # None
      /\ s \notin tangled /\ Midway(s) = {} => GetPath(s) = owner[s]
=============================================================================
