-------------------------- MODULE PathHistoryProofs --------------------------
(***************************************************************************)
(* Proofs about PathHistory.tla, whatever callers, faults and bounds.      *)
(*                                                                         *)
(* The first half is about the reverse path: it is the path a shadow was   *)
(* mapped to last, except after the overlaps and the unfinished calls that *)
(* `tangled` records.  It does not depend on what a history holds.         *)
(*                                                                         *)
(* The second half is about the histories.  Remembering an id in the most  *)
(* recent ids of what Redis was told gives the most recent ids of what it  *)
(* is told next (RememberedIsMostRecent), so that a history lacks a recent *)
(* id only after a write whose caller had not seen the one before it.      *)
(***************************************************************************)
EXTENDS PathHistory, FiniteSetTheorems, SequenceTheorems, TLAPS

Args == [path : Paths, id : Shadows]

\* The types of the variables the reverse path depends on; the arguments of
\* a caller inside the call are a path and a shadow.
ReverseTypes ==
  /\ reverse \in [Shadows -> Paths \cup {None}]
  /\ owner \in [Shadows -> Paths \cup {None}]
  /\ pc \in [Setters -> {"idle", "read", "write", "reverse"}]
  /\ arg \in [Setters -> Args \cup {NoArg}]
  /\ \A w \in Setters : pc[w] # "idle" => arg[w] \in Args
  /\ tangled \subseteq Shadows

\* A reverse path, or a caller about to write one, follows a mapping.
MappedFirst ==
  /\ \A s \in Shadows : reverse[s] # None => owner[s] # None
  /\ \A w \in Setters : pc[w] = "reverse" => owner[arg[w].id] # None

\* A caller between its two writes will write the path of the last mapping.
MidwayOwns ==
  \A s \in Shadows \ tangled : \A w \in Midway(s) : arg[w].path = owner[s]

\* When no caller is between its writes, that path is what is stored.
Settled ==
  \A s \in Shadows \ tangled :
    Midway(s) = {} /\ reverse[s] # None => reverse[s] = owner[s]

ReverseInv == ReverseTypes /\ MappedFirst /\ MidwayOwns /\ Settled

reverseVars == <<reverse, owner, tangled, pc, arg>>
-----------------------------------------------------------------------------
\* Steps that leave the reverse paths, the callers and the owners alone keep
\* the invariant (Store and Outage of the store around the calls).
LEMMA Untouched ==
  ASSUME ReverseInv, UNCHANGED reverseVars
  PROVE  ReverseInv'
BY DEF ReverseInv, ReverseTypes, MappedFirst, MidwayOwns, Settled, reverseVars,
       Midway

\* A caller that moves between places other than "reverse", keeping or being
\* given its arguments (the guards of set_shadow_for_path and its GET).
LEMMA BeforeWrites ==
  ASSUME ReverseInv, NEW w \in Setters, NEW from, NEW to,
         Goto(w, from, to), from # "reverse", to \in {"read", "write"},
         NEW a \in Args, arg' = [arg EXCEPT ![w] = a],
         UNCHANGED <<reverse, owner, tangled>>
  PROVE  ReverseInv'
<1>1. ReverseTypes'
  BY DEF ReverseInv, ReverseTypes, Goto
<1>2. \A s \in Shadows : Midway(s)' = Midway(s)
  BY DEF ReverseInv, ReverseTypes, Goto, Midway
<1>3. \A v \in Setters : pc'[v] = "reverse" => pc[v] = "reverse" /\ arg'[v] = arg[v]
  BY DEF ReverseInv, ReverseTypes, Goto
<1>4. MappedFirst'
  BY <1>3 DEF ReverseInv, MappedFirst
<1>5. MidwayOwns'
  BY <1>2, <1>3 DEF ReverseInv, MidwayOwns, Midway
<1>6. Settled'
  BY <1>2 DEF ReverseInv, Settled
<1> QED
  BY <1>1, <1>4, <1>5, <1>6 DEF ReverseInv

\* The write of the mapping, the first of the two writes (context_store.py:322).
LEMMA MappingWritten ==
  ASSUME ReverseInv, NEW w \in Setters, WriteMapping(w)
  PROVE  ReverseInv'
<1> DEFINE p == arg[w].path
           i == arg[w].id
<1>1. /\ arg[w] \in Args /\ p \in Paths /\ i \in Shadows
      /\ pc[w] = "write" /\ pc' = [pc EXCEPT ![w] = "reverse"]
      /\ arg' = arg /\ reverse' = reverse
      /\ owner' = [owner EXCEPT ![i] = p]
      /\ tangled' = IF Midway(i) = {} THEN tangled \ {i} ELSE tangled \cup {i}
  BY DEF WriteMapping, SetMapping, Goto, ReverseInv, ReverseTypes, Args
<1> HIDE DEF p, i
<1>2. ReverseTypes'
  BY <1>1 DEF ReverseInv, ReverseTypes
<1>3. \A s \in Shadows : Midway(s)' = IF s = i THEN Midway(s) \cup {w} ELSE Midway(s)
  BY <1>1 DEF Midway, ReverseInv, ReverseTypes, i
<1>4. MappedFirst'
  <2>1. p # None
    BY <1>1, NoneAssumption
  <2>2. \A s \in Shadows : owner[s] # None => owner'[s] # None
    BY <1>1, <2>1 DEF ReverseInv, ReverseTypes
  <2>3. owner'[i] = p
    BY <1>1 DEF ReverseInv, ReverseTypes
  <2>4. ASSUME NEW v \in Setters, pc'[v] = "reverse"
        PROVE  owner'[arg'[v].id] # None
    <3>1. CASE v = w
      BY <3>1, <1>1, <2>1, <2>3 DEF i
    <3>2. CASE v # w
      <4>1. pc[v] = "reverse" /\ arg[v] \in Args
        BY <3>2, <2>4, <1>1 DEF ReverseInv, ReverseTypes
      <4> QED
        BY <4>1, <2>2, <1>1 DEF ReverseInv, MappedFirst, Args
    <3> QED
      BY <3>1, <3>2
  <2>5. \A s \in Shadows : reverse'[s] # None => owner'[s] # None
    BY <1>1, <2>2 DEF ReverseInv, MappedFirst
  <2> QED
    BY <2>4, <2>5 DEF MappedFirst
<1>5. MidwayOwns'
  <2>1. ASSUME NEW s \in Shadows \ tangled', NEW v \in Midway(s)'
        PROVE  arg'[v].path = owner'[s]
    <3>1. CASE s = i
      \* Otherwise the id would be tangled.
      <4>1. Midway(i) = {}
        BY <3>1, <1>1
      <4>2. v = w
        BY <3>1, <4>1, <1>3
      <4> QED
        BY <3>1, <4>2, <1>1 DEF ReverseInv, ReverseTypes, p
    <3>2. CASE s # i
      <4>1. s \in Shadows \ tangled /\ v \in Midway(s) /\ owner'[s] = owner[s]
        BY <3>2, <1>1, <1>3 DEF ReverseInv, ReverseTypes
      <4> QED
        BY <4>1, <1>1 DEF ReverseInv, MidwayOwns
    <3> QED
      BY <3>1, <3>2
  <2> QED
    BY <2>1 DEF MidwayOwns
<1>6. Settled'
  <2>1. ASSUME NEW s \in Shadows \ tangled', Midway(s)' = {}, reverse'[s] # None
        PROVE  reverse'[s] = owner'[s]
    <3>1. s # i
      BY <2>1, <1>3
    <3>2. s \in Shadows \ tangled /\ Midway(s) = {} /\ owner'[s] = owner[s]
      BY <3>1, <2>1, <1>1, <1>3 DEF ReverseInv, ReverseTypes
    <3> QED
      BY <3>2, <2>1, <1>1 DEF ReverseInv, Settled
  <2> QED
    BY <2>1 DEF Settled
<1> QED
  BY <1>2, <1>4, <1>5, <1>6 DEF ReverseInv

\* The mapping is written, and the call that wrote it does not learn so: its
\* id is tangled (context_store.py:322).
LEMMA MappingWrittenUnheard ==
  ASSUME ReverseInv, NEW w \in Setters, ReplyLost(w)
  PROVE  ReverseInv'
<1> DEFINE p == arg[w].path
           i == arg[w].id
<1>1. /\ arg[w] \in Args /\ p \in Paths /\ i \in Shadows
      /\ pc[w] = "write" /\ pc' = [pc EXCEPT ![w] = "idle"]
      /\ arg' = [v \in Setters |-> IF v = w THEN NoArg ELSE arg[v]]
      /\ reverse' = reverse
      /\ owner' = [owner EXCEPT ![i] = p]
      /\ tangled' = tangled \cup {i}
  BY DEF ReplyLost, SetMapping, Goto, Forget, ReverseInv, ReverseTypes, Args
<1> HIDE DEF p, i
<1>2. ReverseTypes'
  BY <1>1 DEF ReverseInv, ReverseTypes
<1>3. \A v \in Setters : pc'[v] = "reverse" => pc[v] = "reverse" /\ arg'[v] = arg[v]
  BY <1>1 DEF ReverseInv, ReverseTypes
<1>4. \A s \in Shadows : Midway(s)' = Midway(s)
  BY <1>1 DEF Midway, ReverseInv, ReverseTypes
<1>5. MappedFirst'
  <2>1. \A s \in Shadows : owner[s] # None => owner'[s] # None
    BY <1>1, NoneAssumption DEF ReverseInv, ReverseTypes
  <2>2. \A v \in Setters : pc[v] = "reverse" => arg[v].id \in Shadows
    BY DEF ReverseInv, ReverseTypes, Args
  <2> QED
    BY <1>1, <1>3, <2>1, <2>2 DEF ReverseInv, MappedFirst
<1>6. \A s \in Shadows \ tangled' : s \notin tangled /\ owner'[s] = owner[s]
  BY <1>1 DEF ReverseInv, ReverseTypes
<1>7. MidwayOwns'
  BY <1>3, <1>4, <1>6 DEF ReverseInv, MidwayOwns, Midway
<1>8. Settled'
  BY <1>1, <1>4, <1>6 DEF ReverseInv, Settled
<1> QED
  BY <1>2, <1>5, <1>7, <1>8 DEF ReverseInv

\* The write of the reverse path, the second (context_store.py:323).
LEMMA ReverseWritten ==
  ASSUME ReverseInv, NEW w \in Setters, WriteReverse(w)
  PROVE  ReverseInv'
<1> DEFINE p == arg[w].path
           i == arg[w].id
<1>1. /\ arg[w] \in Args /\ p \in Paths /\ i \in Shadows
      /\ pc[w] = "reverse" /\ pc' = [pc EXCEPT ![w] = "idle"]
      /\ arg' = [v \in Setters |-> IF v = w THEN NoArg ELSE arg[v]]
      /\ reverse' = [reverse EXCEPT ![i] = p]
      /\ owner' = owner /\ tangled' = tangled
      /\ w \in Midway(i)
  BY DEF WriteReverse, Goto, Forget, Midway, mappingVars, ReverseInv,
         ReverseTypes, Args
<1> HIDE DEF p, i
<1>2. ReverseTypes'
  BY <1>1 DEF ReverseInv, ReverseTypes
<1>3. \A s \in Shadows : Midway(s)' = Midway(s) \ {w}
  BY <1>1 DEF Midway, ReverseInv, ReverseTypes
<1>4. \A v \in Setters \ {w} : pc'[v] = pc[v] /\ arg'[v] = arg[v]
  BY <1>1 DEF ReverseInv, ReverseTypes
<1>5. MappedFirst'
  <2>1. owner[i] # None
    BY <1>1 DEF ReverseInv, MappedFirst, i
  <2>2. \A s \in Shadows : reverse'[s] # None => owner'[s] # None
    BY <1>1, <2>1 DEF ReverseInv, ReverseTypes, MappedFirst
  <2>3. \A v \in Setters : pc'[v] = "reverse" => v # w
    BY <1>1 DEF ReverseInv, ReverseTypes
  <2> QED
    BY <1>1, <1>4, <2>2, <2>3 DEF ReverseInv, MappedFirst
<1>6. MidwayOwns'
  BY <1>1, <1>3, <1>4 DEF ReverseInv, MidwayOwns, Midway
<1>7. Settled'
  <2>1. ASSUME NEW s \in Shadows \ tangled', Midway(s)' = {}, reverse'[s] # None
        PROVE  reverse'[s] = owner'[s]
    <3>1. CASE s = i
      BY <3>1, <2>1, <1>1 DEF ReverseInv, ReverseTypes, MidwayOwns, p
    <3>2. CASE s # i
      <4>1. w \notin Midway(s)
        BY <3>2 DEF Midway, i
      <4>2. Midway(s) = {} /\ reverse'[s] = reverse[s]
        BY <4>1, <3>2, <2>1, <1>1, <1>3 DEF ReverseInv, ReverseTypes
      <4> QED
        BY <4>2, <2>1, <1>1 DEF ReverseInv, Settled
    <3> QED
      BY <3>1, <3>2
  <2> QED
    BY <2>1 DEF Settled
<1> QED
  BY <1>2, <1>5, <1>6, <1>7 DEF ReverseInv

\* Callers whose calls end before their second write leave the ids they were
\* at tangled (an exception of context_store.py:322-323, or a crash).
LEMMA CallsAbandoned ==
  ASSUME ReverseInv, NEW W \in SUBSET Setters,
         pc' = [v \in Setters |-> IF v \in W THEN "idle" ELSE pc[v]],
         arg' = [v \in Setters |-> IF v \in W THEN NoArg ELSE arg[v]],
         tangled' = tangled \cup {s \in Shadows : Midway(s) \cap W # {}},
         UNCHANGED <<reverse, owner>>
  PROVE  ReverseInv'
<1>1. ReverseTypes'
  BY DEF ReverseInv, ReverseTypes
<1>2. \A s \in Shadows : Midway(s)' = Midway(s) \ W
  BY DEF ReverseInv, ReverseTypes, Midway
<1>3. \A v \in Setters \ W : pc'[v] = pc[v] /\ arg'[v] = arg[v]
  OBVIOUS
<1>4. MappedFirst'
  <2>1. \A v \in Setters : pc'[v] = "reverse" => v \notin W
    OBVIOUS
  <2> QED
    BY <1>3, <2>1 DEF ReverseInv, MappedFirst
<1>5. \A s \in Shadows \ tangled' : s \notin tangled /\ Midway(s)' = Midway(s)
  BY <1>2
<1>6. MidwayOwns'
  BY <1>2, <1>3, <1>5 DEF ReverseInv, MidwayOwns, Midway
<1>7. Settled'
  BY <1>5 DEF ReverseInv, Settled
<1> QED
  BY <1>1, <1>4, <1>6, <1>7 DEF ReverseInv
-----------------------------------------------------------------------------
\* Every step of a caller keeps the invariant.
LEMMA CallerStep ==
  ASSUME ReverseInv, NEW w \in Setters,
         \/ \E p \in Paths, s \in Shadows : Check(w, p, s)
         \/ ReadMapping(w) \/ WriteMapping(w) \/ ReplyLost(w)
         \/ WriteReverse(w) \/ SetRaises(w)
  PROVE  ReverseInv'
<1>1. ASSUME NEW p \in Paths, NEW s \in Shadows, Check(w, p, s)
      PROVE  ReverseInv'
  <2>1. [path |-> p, id |-> s] \in Args
    BY DEF Args
  <2> QED
    BY <1>1, <2>1, BeforeWrites DEF Check, mappingVars
<1>2. CASE ReadMapping(w)
  <2>1. arg[w] \in Args /\ arg' = [arg EXCEPT ![w] = arg[w]]
    BY <1>2 DEF ReadMapping, Goto, ReverseInv, ReverseTypes
  <2> QED
    BY <1>2, <2>1, BeforeWrites DEF ReadMapping, mappingVars
<1>3. CASE SetRaises(w)
  <2>1. pc' = [v \in Setters |-> IF v \in {w} THEN "idle" ELSE pc[v]]
    BY <1>3 DEF SetRaises, Goto, ReverseInv, ReverseTypes
  <2>2. arg[w].id \in Shadows
    BY <1>3 DEF SetRaises, Goto, ReverseInv, ReverseTypes, Args
  <2>3. {s \in Shadows : Midway(s) \cap {w} # {}}
          = IF pc[w] = "reverse" THEN {arg[w].id} ELSE {}
    BY <2>2 DEF Midway
  <2>4. /\ arg' = [v \in Setters |-> IF v \in {w} THEN NoArg ELSE arg[v]]
        /\ tangled' = tangled \cup {s \in Shadows : Midway(s) \cap {w} # {}}
        /\ UNCHANGED <<reverse, owner>>
    BY <1>3, <2>3 DEF SetRaises, Forget, mappingVars
  <2> QED
    BY <2>1, <2>4, CallsAbandoned
<1> QED
  BY <1>1, <1>2, <1>3, MappingWritten, MappingWrittenUnheard, ReverseWritten

\* Every step of the store and the environment keeps it.
LEMMA StoreStep ==
  ASSUME ReverseInv,
         (\E s \in Shadows : Store(s)) \/ Expire \/ Outage \/ Crash
  PROVE  ReverseInv'
<1>1. CASE \E s \in Shadows : Store(s)
  BY <1>1, Untouched DEF Store, callerVars, mappingVars, reverseVars
<1>2. CASE Outage
  BY <1>2, Untouched DEF Outage, callerVars, mappingVars, reverseVars
<1>3. CASE Expire
  <2>1. CASE UNCHANGED reverse
    BY <2>1, <1>3, Untouched DEF Expire, callerVars, mappingVars, reverseVars
  <2>2. ASSUME NEW t \in Shadows, reverse' = [reverse EXCEPT ![t] = None],
               UNCHANGED mappingVars
        PROVE  ReverseInv'
    <3>1. UNCHANGED <<owner, tangled, pc, arg>>
      BY <2>2, <1>3 DEF Expire, callerVars, mappingVars
    <3>2. \A s \in Shadows : reverse'[s] # None => reverse'[s] = reverse[s]
      BY <2>2 DEF ReverseInv, ReverseTypes
    <3>3. reverse' \in [Shadows -> Paths \cup {None}]
      BY <2>2 DEF ReverseInv, ReverseTypes
    <3> QED
      BY <3>1, <3>2, <3>3
      DEF ReverseInv, ReverseTypes, MappedFirst, MidwayOwns, Settled, Midway
  <2> QED
    BY <1>3, <2>1, <2>2 DEF Expire
<1>4. CASE Crash
  <2>1. pc' = [v \in Setters |-> IF v \in Setters THEN "idle" ELSE pc[v]]
    BY <1>4 DEF Crash
  <2>2. \A s \in Shadows : Midway(s) \cap Setters = Midway(s)
    BY DEF Midway
  <2>3. /\ arg' = [v \in Setters |-> IF v \in Setters THEN NoArg ELSE arg[v]]
        /\ tangled' = tangled \cup {s \in Shadows : Midway(s) \cap Setters # {}}
        /\ UNCHANGED <<reverse, owner>>
    BY <1>4, <2>2 DEF Crash, Forget, mappingVars
  <2> QED
    BY <2>1, <2>3, CallsAbandoned
<1> QED
  BY <1>1, <1>2, <1>3, <1>4
-----------------------------------------------------------------------------
\* The inductive invariant of the reverse paths: an id is settled, or a caller
\* is about to settle it, or it is recorded as tangled
\* (set_shadow_for_path, context_store.py:297-323).
THEOREM ReverseInvariant == Spec => []ReverseInv
<1>1. Init => ReverseInv
  BY DEF Init, ReverseInv, ReverseTypes, MappedFirst, MidwayOwns, Settled, Midway
<1>2. ReverseInv /\ [Next]_vars => ReverseInv'
  <2> SUFFICES ASSUME ReverseInv, [Next]_vars
               PROVE  ReverseInv'
    OBVIOUS
  <2>1. CASE Next
    BY <2>1, CallerStep, StoreStep DEF Next
  <2>2. CASE UNCHANGED vars
    BY <2>2, Untouched DEF vars, mappingVars, callerVars, reverseVars
  <2> QED
    BY <2>1, <2>2
<1> QED
  BY <1>1, <1>2, PTL DEF Spec

\* Between calls get_path_for_shadow answers the path the shadow was mapped to
\* last, unless that mapping overlapped another one of the shadow or was left
\* without its reverse path; it never answers for an id that was not mapped
\* (context_store.py:322-323, 349-352).
THEOREM ReverseFollows == Spec => []ReverseFollowsLastMapping
<1>1. ReverseInv => ReverseFollowsLastMapping
  BY DEF ReverseInv, MappedFirst, Settled, ReverseFollowsLastMapping, GetPath
<1> QED
  BY <1>1, ReverseInvariant, PTL
-----------------------------------------------------------------------------
(* Histories *)

\* A set of natural numbers has a smallest one.
LEMMA Smallest ==
  ASSUME NEW T \in SUBSET Nat, T # {}
  PROVE  \E m \in T : \A k \in T : m <= k
<1>1. PICK m \in T : \A k \in T : <<k, m>> \notin OpToRel(<, Nat)
  BY NatLessThanWellFounded, WFMin
<1>2. \A k \in T : ~(k < m)
  BY <1>1 DEF OpToRel
<1> QED
  BY <1>2

\* A history is a short sequence without repetition.
LEMMA HistoryIsSeq ==
  /\ \A h \in Histories :
       /\ h \in Seq(Shadows) /\ Len(h) \in 0..HistoryLimit
       /\ \A i, j \in 1..Len(h) : h[i] = h[j] => i = j
  /\ \A h \in Seq(Shadows) :
       /\ Len(h) <= HistoryLimit /\ (\A i, j \in 1..Len(h) : h[i] = h[j] => i = j)
            => h \in Histories
<1>1. ASSUME NEW h \in Histories
      PROVE  /\ h \in Seq(Shadows) /\ Len(h) \in 0..HistoryLimit
             /\ \A i, j \in 1..Len(h) : h[i] = h[j] => i = j
  <2>1. PICK n \in 0..HistoryLimit : h \in [1..n -> Shadows]
    BY DEF Histories
  <2>2. n \in Nat /\ h \in Seq(Shadows) /\ Len(h) = n /\ DOMAIN h = 1..n
    BY <2>1, HistoryLimitAssumption
  <2>3. IsInjective(h)
    BY DEF Histories
  <2> QED
    BY <2>2, <2>3 DEF IsInjective
<1>2. ASSUME NEW h \in Seq(Shadows), Len(h) <= HistoryLimit,
             \A i, j \in 1..Len(h) : h[i] = h[j] => i = j
      PROVE  h \in Histories
  <2>1. Len(h) \in 0..HistoryLimit /\ h \in [1..Len(h) -> Shadows] /\ DOMAIN h = 1..Len(h)
    BY <1>2, LenProperties, HistoryLimitAssumption
  <2>2. IsInjective(h)
    BY <1>2, <2>1 DEF IsInjective
  <2> QED
    BY <2>1, <2>2 DEF Histories
<1> QED
  BY <1>1, <1>2

\* What is left of a history without an id: the others, in their order.
\* At i they were at kept[i].
RestOf(h, s, r, kept) ==
  /\ r \in Seq(Shadows)
  /\ kept \in [1..Len(r) -> 1..Len(h)]
  /\ \A i \in 1..Len(r) : r[i] = h[kept[i]] /\ r[i] # s
  /\ \A i, j \in 1..Len(r) : i < j => kept[i] < kept[j]
  /\ \A i \in 1..Len(h) : h[i] # s => \E j \in 1..Len(r) : kept[j] = i

\* history.remove(shadow_id) leaves the rest (context_store.py:308-309).
LEMMA RemovedFirst ==
  ASSUME NEW h \in Histories, NEW s
  PROVE  \E kept : RestOf(h, s, RemoveFirst(h, s), kept)
<1> DEFINE n == Len(h)
           I == {i \in 1..n : h[i] = s}
           r == RemoveFirst(h, s)
<1>1. /\ h \in Seq(Shadows) /\ n \in Nat
      /\ \A i, j \in 1..n : h[i] = h[j] => i = j
  BY HistoryIsSeq
<1>2. CASE I = {}
  <2>1. r = h
    BY <1>2 DEF RemoveFirst
  <2> DEFINE kept == [i \in 1..n |-> i]
  <2>2. RestOf(h, s, h, kept)
    BY <1>1, <1>2 DEF RestOf
  <2> QED
    BY <2>1, <2>2
<1>3. CASE I # {}
  <2> DEFINE k == Min(I)
  <2>1. k \in I
    <3>1. \E x \in I : \A y \in I : x <= y
      BY <1>1, <1>3, Smallest
    <3> QED
      BY <3>1 DEF Min
  <2>2. r = SubSeq(h, 1, k - 1) \o SubSeq(h, k + 1, n)
    BY <1>3, <2>1 DEF RemoveFirst, RemoveAt, SelectInSeq
  <2> HIDE DEF k
  <2>3. k \in 1..n /\ h[k] = s
    BY <2>1
  <2> HIDE DEF I, r, n
  <2> DEFINE u == SubSeq(h, 1, k - 1)
             v == SubSeq(h, k + 1, n)
  <2>4. /\ u \in Seq(Shadows) /\ Len(u) = k - 1
        /\ \A i \in 1..(k - 1) : u[i] = h[i]
    <3>1. \A i \in 1..(k - 1) : h[i] \in Shadows /\ 1 + i - 1 = i
      BY <1>1, <2>3 DEF n
    <3> QED
      BY <1>1, <2>3, <3>1, SubSeqProperties
  <2>5. /\ v \in Seq(Shadows) /\ Len(v) = n - k
        /\ \A i \in 1..(n - k) : v[i] = h[k + i]
    <3>1. \A i \in (k + 1)..n : h[i] \in Shadows
      BY <1>1, <2>3 DEF n
    <3>2. k + 1 \in Int /\ n \in Int /\ n - (k + 1) + 1 = n - k
          /\ \A i \in 1..(n - k) : (k + 1) + i - 1 = k + i
      BY <1>1, <2>3
    <3>3. /\ v \in Seq(Shadows) /\ Len(v) = IF k + 1 <= n THEN n - (k + 1) + 1 ELSE 0
          /\ \A i \in 1..(n - (k + 1) + 1) : v[i] = h[(k + 1) + i - 1]
      BY <3>1, <3>2, SubSeqProperties
    <3> QED
      BY <1>1, <2>3, <3>2, <3>3
  <2> HIDE DEF u, v
  <2>6. /\ r \in Seq(Shadows) /\ Len(r) = n - 1
        /\ \A i \in 1..(n - 1) : r[i] = IF i < k THEN h[i] ELSE h[i + 1]
    <3>1. r = u \o v
      BY <2>2 DEF u, v
    <3>2. /\ r \in Seq(Shadows) /\ Len(r) = Len(u) + Len(v)
          /\ \A i \in 1..(Len(u) + Len(v)) : r[i] = IF i <= Len(u) THEN u[i] ELSE v[i - Len(u)]
      BY <2>4, <2>5, <3>1, ConcatProperties, Zenon
    <3>3. Len(u) + Len(v) = n - 1
      BY <1>1, <2>3, <2>4, <2>5
    <3>4. ASSUME NEW i \in 1..(n - 1)
          PROVE  r[i] = IF i < k THEN h[i] ELSE h[i + 1]
      <4>1. CASE i < k
        <5>1. i <= Len(u) /\ i \in 1..(k - 1)
          BY <2>3, <2>4, <4>1
        <5> QED
          BY <2>4, <3>2, <3>3, <4>1, <5>1
      <4>2. CASE ~(i < k)
        <5>1. ~(i <= Len(u)) /\ i - Len(u) \in 1..(n - k) /\ k + (i - Len(u)) = i + 1
          BY <1>1, <2>3, <2>4, <4>2
        <5>2. r[i] = v[i - Len(u)]
          BY <3>2, <3>3, <5>1
        <5> QED
          BY <2>5, <4>2, <5>1, <5>2
      <4> QED
        BY <4>1, <4>2
    <3> QED
      BY <3>2, <3>3, <3>4
  <2> DEFINE kept == [i \in 1..(n - 1) |-> IF i < k THEN i ELSE i + 1]
  <2>7. /\ kept \in [1..(n - 1) -> 1..n]
        /\ \A i, j \in 1..(n - 1) : i < j => kept[i] < kept[j]
        /\ \A i \in 1..(n - 1) : kept[i] # k /\ r[i] = h[kept[i]]
    BY <1>1, <2>3, <2>6
  <2>8. ASSUME NEW i \in 1..n, h[i] # s PROVE \E j \in 1..(n - 1) : kept[j] = i
    <3>1. i # k
      BY <2>3, <2>8
    <3>2. CASE i < k
      <4>1. i \in 1..(n - 1)
        BY <1>1, <2>3, <3>2
      <4> QED
        BY <3>2, <4>1
    <3>3. CASE i > k
      <4>1. i - 1 \in 1..(n - 1) /\ ~(i - 1 < k) /\ (i - 1) + 1 = i
        BY <1>1, <2>3, <3>3
      <4> QED
        BY <4>1
    <3> QED
      BY <1>1, <2>3, <3>1, <3>2, <3>3
  <2> HIDE DEF kept
  <2>9. ASSUME NEW i \in 1..(n - 1) PROVE r[i] # s
    <3>1. kept[i] \in 1..n /\ kept[i] # k /\ r[i] = h[kept[i]]
      BY <2>7
    <3> QED
      BY <1>1, <2>3, <3>1
  <2>10. RestOf(h, s, r, kept)
    <3>1. Len(r) = n - 1 /\ Len(h) = n /\ r \in Seq(Shadows)
      BY <2>6 DEF n
    <3> QED
      BY <2>7, <2>8, <2>9, <3>1 DEF RestOf
  <2> QED
    BY <2>10 DEF r
<1> QED
  BY <1>2, <1>3

\* How many of the oldest ids do not fit beside a new one.
Dropped(r) == IF Len(r) + 1 > HistoryLimit THEN Len(r) + 1 - HistoryLimit ELSE 0

\* The remembered id is the last, after the youngest of the rest
\* (context_store.py:308-311).
LEMMA Remembered ==
  ASSUME NEW h \in Histories, NEW s \in Shadows, NEW r, NEW kept,
         r = RemoveFirst(h, s), RestOf(h, s, r, kept)
  PROVE  /\ Len(r) \in Nat /\ Dropped(r) \in 0..Len(r)
         /\ Remember(h, s) \in Histories
         /\ Len(Remember(h, s)) = Len(r) - Dropped(r) + 1
         /\ Remember(h, s)[Len(r) - Dropped(r) + 1] = s
         /\ \A i \in 1..(Len(r) - Dropped(r)) : Remember(h, s)[i] = r[Dropped(r) + i]
<1> DEFINE m == Len(r)
           d == Dropped(r)
           a == Append(r, s)
           R == Remember(h, s)
<1>1. r \in Seq(Shadows) /\ m \in Nat
  BY LenProperties DEF RestOf
<1>2. /\ a \in Seq(Shadows) /\ Len(a) = m + 1 /\ a[m + 1] = s
      /\ \A i \in 1..m : a[i] = r[i]
  BY <1>1, AppendProperties
<1>3. d \in 0..m /\ m + 1 - d <= HistoryLimit
  BY <1>1, HistoryLimitAssumption DEF Dropped
<1>4. R = SubSeq(a, d + 1, m + 1)
  <2>1. R = LastOf(HistoryLimit, a)
    BY DEF Remember
  <2>2. Len(a) = m + 1
    BY <1>2
  <2> HIDE DEF a, R
  <2>3. \A l : l = Len(a) =>
          R = SubSeq(a, (IF l > HistoryLimit THEN l - HistoryLimit ELSE 0) + 1, l)
    BY <2>1, Zenon DEF LastOf
  <2>4. d = IF m + 1 > HistoryLimit THEN m + 1 - HistoryLimit ELSE 0
    BY DEF Dropped
  <2> HIDE DEF m, d
  <2>5. PICK l : l = m + 1
    OBVIOUS
  <2>6. d = IF l > HistoryLimit THEN l - HistoryLimit ELSE 0
    BY <1>1, <2>4, <2>5, HistoryLimitAssumption
  <2>7. R = SubSeq(a, (IF l > HistoryLimit THEN l - HistoryLimit ELSE 0) + 1, l)
    BY <2>2, <2>3, <2>5
  <2> QED
    BY <2>5, <2>6, <2>7
<1> HIDE DEF m, d, a, R
<1>5. /\ R \in Seq(Shadows) /\ Len(R) = m + 1 - d
      /\ \A i \in 1..(m + 1 - d) : R[i] = a[d + i]
  <2>1. \A i \in (d + 1)..(m + 1) : i \in 1..(m + 1)
    BY <1>1, <1>3
  <2>2. \A i \in (d + 1)..(m + 1) : a[i] \in Shadows
    BY <1>2, <2>1, ElementOfSeq
  <2>3. d + 1 \in Int /\ m + 1 \in Int
    BY <1>1, <1>3
  <2>4. /\ R \in Seq(Shadows)
        /\ Len(R) = IF d + 1 <= m + 1 THEN (m + 1) - (d + 1) + 1 ELSE 0
        /\ \A i \in 1..((m + 1) - (d + 1) + 1) : R[i] = a[(d + 1) + i - 1]
    BY <1>4, <2>2, <2>3, SubSeqProperties
  <2>5. /\ d + 1 <= m + 1 /\ (m + 1) - (d + 1) + 1 = m + 1 - d
        /\ \A i \in 1..(m + 1 - d) : (d + 1) + i - 1 = d + i
    BY <1>1, <1>3
  <2> QED
    BY <2>4, <2>5
<1>6. /\ \A i \in 1..(m - d) : i \in 1..(m + 1 - d) /\ d + i \in 1..m
      /\ m - d + 1 \in 1..(m + 1 - d) /\ d + (m - d + 1) = m + 1 /\ m + 1 - d = m - d + 1
  BY <1>1, <1>3
<1>7. /\ Len(R) = m - d + 1 /\ R[m - d + 1] = s
      /\ \A i \in 1..(m - d) : R[i] = r[d + i]
  BY <1>2, <1>5, <1>6
<1>8. \A i, j \in 1..m : r[i] = r[j] => i = j
  <2> SUFFICES ASSUME NEW i \in 1..m, NEW j \in 1..m, r[i] = r[j] PROVE i = j
    OBVIOUS
  <2>1. kept[i] \in 1..Len(h) /\ kept[j] \in 1..Len(h) /\ h[kept[i]] = h[kept[j]]
    BY DEF RestOf, m
  <2>2. kept[i] = kept[j] /\ kept[i] \in Nat
    BY <2>1, HistoryIsSeq
  <2>3. (i < j => kept[i] < kept[j]) /\ (j < i => kept[j] < kept[i])
    BY DEF RestOf, m
  <2> QED
    BY <1>1, <2>2, <2>3
<1>9. ASSUME NEW i \in 1..Len(R), NEW j \in 1..Len(R), R[i] = R[j]
      PROVE  i = j
  <2>1. \A k \in 1..Len(R) : k \in 1..(m - d) \/ k = m - d + 1
    BY <1>1, <1>3, <1>7
  <2>2. \A k \in 1..m : r[k] # s
    BY DEF RestOf, m
  <2>3. i \in 1..(m - d) /\ j \in 1..(m - d) => d + i = d + j
    BY <1>6, <1>7, <1>8, <1>9
  <2>4. d + i = d + j => i = j
    BY <1>3
  <2> QED
    BY <1>6, <1>7, <1>9, <2>1, <2>2, <2>3, <2>4
<1>10. R \in Histories
  <2>1. Len(R) <= HistoryLimit
    BY <1>3, <1>5
  <2> QED
    BY <1>5, <1>9, <2>1, HistoryIsSeq
<1> QED
  BY <1>1, <1>3, <1>7, <1>10 DEF m, d, R

-----------------------------------------------------------------------------
(* The most recent references *)

\* LastTold, Newer and IsMostRecent of the properties, for any sequence of ids.
LastAt(t, s) ==
  CHOOSE i \in 1..Len(t) : t[i] = s /\ \A j \in i+1..Len(t) : t[j] # s

NewerIn(t, s) == {x \in Range(t) : LastAt(t, x) > LastAt(t, s)}

MostRecent(h, t) ==
  /\ Range(h) = {s \in Range(t) : Cardinality(NewerIn(t, s)) < HistoryLimit}
  /\ \A i, j \in 1..Len(h) : i < j => LastAt(t, h[i]) < LastAt(t, h[j])

\* The ids of a sequence are those at its indices, finitely many.
LEMMA RangeIs ==
  ASSUME NEW S, NEW t \in Seq(S)
  PROVE  /\ Len(t) \in Nat /\ Range(t) = {t[i] : i \in 1..Len(t)} /\ Range(t) \in SUBSET S
         /\ IsFiniteSet(Range(t))
<1>1. Len(t) \in Nat /\ Range(t) = {t[i] : i \in 1..Len(t)} /\ Range(t) \in SUBSET S
  BY LenProperties DEF Range
<1>2. t \in Surjection(1..Len(t), Range(t))
  BY <1>1, LenProperties DEF Surjection
<1>3. IsFiniteSet(1..Len(t))
  BY <1>1, FS_Interval
<1> QED
  BY <1>1, <1>2, <1>3, FS_Surjection

\* Every id of a sequence is somewhere for the last time.
LEMMA LastAtIs ==
  ASSUME NEW t \in Seq(Shadows), NEW s \in Range(t)
  PROVE  /\ LastAt(t, s) \in 1..Len(t) /\ t[LastAt(t, s)] = s
         /\ \A j \in 1..Len(t) : t[j] = s => j <= LastAt(t, s)
         /\ \A i \in 1..Len(t) :
              t[i] = s /\ (\A j \in i+1..Len(t) : t[j] # s) => LastAt(t, s) = i
<1> DEFINE n == Len(t)
           Back == {k \in Nat : k < n /\ t[n - k] = s}
           At(i) == t[i] = s /\ \A j \in i+1..n : t[j] # s
<1>1. n \in Nat
  BY LenProperties
<1> HIDE DEF n
<1>2. PICK i \in 1..n : t[i] = s
  BY RangeIs DEF n
<1>3. n - i \in Back
  <2>1. n - i \in Nat /\ n - i < n /\ n - (n - i) = i
    BY <1>1, <1>2
  <2> QED
    BY <1>2, <2>1
<1>4. PICK k \in Back : \A l \in Back : k <= l
  BY <1>3, Smallest
<1>5. n - k \in 1..n /\ At(n - k)
  <2>1. k \in Nat /\ k < n /\ t[n - k] = s
    BY <1>4
  <2>2. ASSUME NEW j \in (n - k)+1..n, t[j] = s PROVE FALSE
    <3>1. n - j \in Nat /\ n - j < n /\ n - (n - j) = j /\ ~(k <= n - j)
      BY <1>1, <2>1, <2>2
    <3>2. n - j \in Back
      BY <2>2, <3>1
    <3> QED
      BY <1>4, <3>1, <3>2
  <2> QED
    BY <1>1, <2>1, <2>2
<1> HIDE DEF Back
<1>6. LastAt(t, s) = CHOOSE l \in 1..n : At(l)
  BY DEF LastAt, n
<1>7. LastAt(t, s) \in 1..n /\ At(LastAt(t, s))
  BY <1>5, <1>6
<1>8. \A j \in 1..n : t[j] = s => j <= LastAt(t, s)
  BY <1>1, <1>7
<1>9. \A l \in 1..n : At(l) => LastAt(t, s) = l
  BY <1>1, <1>7, <1>8
<1> QED
  BY <1>7, <1>8, <1>9 DEF n

\* Writing an id again makes it the newest and moves no other.
LEMMA Retold ==
  ASSUME NEW t \in Seq(Shadows), NEW s \in Shadows
  PROVE  LET u == Append(t, s)
         IN  /\ u \in Seq(Shadows) /\ Range(u) = Range(t) \cup {s}
             /\ LastAt(u, s) = Len(t) + 1
             /\ \A x \in Range(t) \ {s} : LastAt(u, x) = LastAt(t, x)
<1> DEFINE u == Append(t, s)
           n == Len(t)
<1>1. /\ u \in Seq(Shadows) /\ Len(u) = n + 1 /\ n \in Nat
      /\ \A i \in 1..n : u[i] = t[i]
      /\ u[n + 1] = s
  BY AppendProperties, LenProperties
<1> HIDE DEF u, n
<1>2. Range(u) = Range(t) \cup {s}
  <2>1. Range(u) = {u[i] : i \in 1..(n + 1)}
    BY <1>1, RangeIs
  <2>2. Range(t) = {t[i] : i \in 1..n}
    BY RangeIs DEF n
  <2>3. \A i \in 1..(n + 1) : i \in 1..n \/ i = n + 1
    BY <1>1
  <2>4. \A i \in 1..n : i \in 1..(n + 1)
    BY <1>1
  <2>5. n + 1 \in 1..(n + 1)
    BY <1>1
  <2> QED
    BY <1>1, <2>1, <2>2, <2>3, <2>4, <2>5
<1>3. LastAt(u, s) = n + 1
  <2>1. s \in Range(u)
    BY <1>2
  <2>2. n + 1 \in 1..Len(u) /\ \A j \in (n + 1)+1..Len(u) : u[j] # s
    BY <1>1
  <2> QED
    BY <1>1, <2>1, <2>2, LastAtIs
<1>4. ASSUME NEW x \in Range(t) \ {s} PROVE LastAt(u, x) = LastAt(t, x)
  <2> DEFINE i == LastAt(t, x)
  <2>1. i \in 1..n /\ t[i] = x /\ \A j \in 1..n : t[j] = x => j <= i
    BY LastAtIs DEF n
  <2> HIDE DEF i
  <2>2. i \in 1..Len(u) /\ u[i] = x
    BY <1>1, <2>1
  <2>3. ASSUME NEW j \in i+1..Len(u) PROVE u[j] # x
    <3>1. CASE j = n + 1
      BY <1>1, <3>1
    <3>2. CASE j # n + 1
      <4>1. j \in 1..n /\ ~(j <= i)
        BY <1>1, <2>1, <2>3, <3>2
      <4> QED
        BY <1>1, <2>1, <4>1
    <3> QED
      BY <3>1, <3>2
  <2>4. x \in Range(u)
    BY <1>2
  <2>5. LastAt(u, x) = i
    BY <1>1, <2>2, <2>3, <2>4, LastAtIs
  <2> QED
    BY <2>5 DEF i
<1> QED
  BY <1>1, <1>2, <1>3, <1>4 DEF u, n

\* The ids newer than one of a mapping are those after it.
LEMMA NewerAreAfter ==
  ASSUME NEW h \in Histories, NEW t \in Seq(Shadows), MostRecent(h, t), NEW i \in 1..Len(h)
  PROVE  NewerIn(t, h[i]) = {h[j] : j \in i+1..Len(h)}
<1> DEFINE n == Len(h)
<1>1. n \in Nat /\ Range(h) = {h[j] : j \in 1..n} /\ \A j \in 1..n : h[j] \in Range(h)
  BY HistoryIsSeq, RangeIs
<1>2. /\ Range(h) = {s \in Range(t) : Cardinality(NewerIn(t, s)) < HistoryLimit}
      /\ \A j, k \in 1..n : j < k => LastAt(t, h[j]) < LastAt(t, h[k])
  BY DEF MostRecent
<1>3. \A x \in Range(t) : LastAt(t, x) \in Nat
  BY LastAtIs, LenProperties
<1>4. IsFiniteSet(Range(t))
  BY RangeIs
<1> HIDE DEF n
<1>5. ASSUME NEW j \in i+1..n PROVE h[j] \in NewerIn(t, h[i])
  <2>1. j \in 1..n /\ i < j /\ i \in 1..n
    BY <1>1 DEF n
  <2>2. LastAt(t, h[i]) < LastAt(t, h[j]) /\ h[j] \in Range(t) /\ h[i] \in Range(t)
    BY <1>1, <1>2, <2>1
  <2> QED
    BY <1>3, <2>2 DEF NewerIn
<1>6. ASSUME NEW x \in NewerIn(t, h[i]) PROVE \E j \in i+1..n : h[j] = x
  <2>1. x \in Range(t) /\ LastAt(t, x) > LastAt(t, h[i]) /\ h[i] \in Range(t) /\ i \in 1..n
    BY <1>1, <1>2 DEF NewerIn, n
  <2>2. NewerIn(t, x) \in SUBSET NewerIn(t, h[i])
    BY <1>3, <2>1 DEF NewerIn
  <2>3. IsFiniteSet(NewerIn(t, h[i]))
    BY <1>4, FS_Subset DEF NewerIn
  <2>4. /\ Cardinality(NewerIn(t, x)) \in Nat /\ Cardinality(NewerIn(t, h[i])) \in Nat
        /\ Cardinality(NewerIn(t, x)) <= Cardinality(NewerIn(t, h[i]))
    BY <2>2, <2>3, FS_Subset, FS_CardinalityType
  <2>5. Cardinality(NewerIn(t, h[i])) < HistoryLimit
    BY <1>1, <1>2, <2>1
  <2>6. x \in Range(h)
    BY <1>2, <2>1, <2>4, <2>5, HistoryLimitAssumption
  <2>7. PICK j \in 1..n : h[j] = x
    BY <1>1, <2>6
  <2>8. ~(j < i) /\ j # i
    BY <1>2, <1>3, <2>1, <2>7
  <2>9. j \in i+1..n
    BY <1>1, <2>1, <2>8
  <2> QED
    BY <2>7, <2>9
<1> QED
  BY <1>5, <1>6 DEF n

\* As many ids as places, when none is there twice.
LEMMA CountFrom ==
  ASSUME NEW r \in Seq(Shadows), \A j, k \in 1..Len(r) : r[j] = r[k] => j = k,
         NEW i \in 1..Len(r)
  PROVE  LET T == {r[j] : j \in i+1..Len(r)}
         IN  IsFiniteSet(T) /\ Cardinality(T) = Len(r) - i
<1> DEFINE n == Len(r)
           J == i+1..n
           T == {r[j] : j \in J}
           f == [j \in J |-> r[j]]
<1>1. n \in Nat /\ i \in Nat /\ i <= n
  BY LenProperties
<1>2. IsFiniteSet(J) /\ Cardinality(J) = n - i
  <2>1. i + 1 \in Int /\ n \in Int
    BY <1>1
  <2>2. IsFiniteSet(J) /\ Cardinality(J) = IF i + 1 > n THEN 0 ELSE n - (i + 1) + 1
    BY <2>1, FS_Interval
  <2> HIDE DEF J, n
  <2> QED
    BY <1>1, <2>2
<1>3. \A j \in J : j \in 1..n
  BY <1>1
<1>4. f \in [J -> T] /\ \A x \in T : \E j \in J : f[j] = x
  OBVIOUS
<1>5. \A j, k \in J : f[j] = f[k] => j = k
  BY <1>3
<1> HIDE DEF n, J, T, f
<1>6. f \in Bijection(J, T)
  BY <1>4, <1>5 DEF Bijection, Injection, Surjection, IsInjective
<1>7. IsFiniteSet(T) /\ Cardinality(T) = Cardinality(J)
  BY <1>2, <1>6, FS_Bijection DEF ExistsBijection
<1> QED
  BY <1>2, <1>7 DEF T, n, J

\* Remembering an id in a mapping of the most recent references gives the most
\* recent ones again.
LEMMA RememberedIsMostRecent ==
  ASSUME NEW h \in Histories, NEW t \in Seq(Shadows), MostRecent(h, t), NEW s \in Shadows
  PROVE  MostRecent(Remember(h, s), Append(t, s))
<1> DEFINE u == Append(t, s)
           r == RemoveFirst(h, s)
           m == Len(r)
           d == Dropped(r)
           R == Remember(h, s)
<1>1. PICK kept : RestOf(h, s, r, kept)
  BY RemovedFirst
<1>2. /\ m \in Nat /\ d \in 0..m /\ R \in Histories /\ Len(R) = m - d + 1
      /\ R[m - d + 1] = s
      /\ \A i \in 1..(m - d) : R[i] = r[d + i]
  BY <1>1, Remembered
<1>3. /\ r \in Seq(Shadows)
      /\ \A i \in 1..m : /\ kept[i] \in 1..Len(h) /\ r[i] = h[kept[i]] /\ r[i] # s
      /\ \A i, j \in 1..m : i < j => kept[i] < kept[j]
      /\ \A i \in 1..Len(h) : h[i] # s => \E j \in 1..m : kept[j] = i
  BY <1>1 DEF RestOf
<1>4. /\ Len(h) \in Nat /\ Range(h) = {h[j] : j \in 1..Len(h)}
      /\ \A i, j \in 1..Len(h) : h[i] = h[j] => i = j
      /\ Range(R) = {R[j] : j \in 1..Len(R)}
  BY <1>2, HistoryIsSeq, RangeIs
<1>5. /\ u \in Seq(Shadows) /\ Range(u) = Range(t) \cup {s}
      /\ LastAt(u, s) = Len(t) + 1
      /\ \A x \in Range(t) \ {s} : LastAt(u, x) = LastAt(t, x)
  BY Retold
<1>6. /\ Len(t) \in Nat
      /\ \A x \in Range(t) : LastAt(t, x) \in 1..Len(t)
  BY LastAtIs, LenProperties
<1>7. d = IF m + 1 > HistoryLimit THEN m + 1 - HistoryLimit ELSE 0
  BY DEF Dropped
<1> HIDE DEF u, r, m, d, R
<1>8. /\ Range(h) = {x \in Range(t) : Cardinality(NewerIn(t, x)) < HistoryLimit}
      /\ \A i, j \in 1..Len(h) : i < j => LastAt(t, h[i]) < LastAt(t, h[j])
  BY DEF MostRecent
<1>9. \A i \in 1..m : r[i] \in Range(t) \ {s}
  BY <1>3, <1>4, <1>8
\* The order among the rest is the one they had.
<1>10. \A i, j \in 1..m : i < j => LastAt(u, r[i]) < LastAt(u, r[j])
  <2> SUFFICES ASSUME NEW i \in 1..m, NEW j \in 1..m, i < j
               PROVE  LastAt(u, r[i]) < LastAt(u, r[j])
    OBVIOUS
  <2>1. LastAt(t, h[kept[i]]) < LastAt(t, h[kept[j]])
    BY <1>3, <1>8
  <2>2. LastAt(u, r[i]) = LastAt(t, r[i]) /\ LastAt(u, r[j]) = LastAt(t, r[j])
    BY <1>5, <1>9
  <2> QED
    BY <1>3, <2>1, <2>2
\* Newer than one of them are those after it, and the id itself.
<1>11. \A i \in 1..m : NewerIn(u, r[i]) = {r[j] : j \in i+1..m} \cup {s}
  <2> SUFFICES ASSUME NEW i \in 1..m
               PROVE  NewerIn(u, r[i]) = {r[j] : j \in i+1..m} \cup {s}
    OBVIOUS
  <2>1. kept[i] \in 1..Len(h) /\ r[i] = h[kept[i]] /\ r[i] \in Range(t) \ {s}
    BY <1>3, <1>9
  <2>2. NewerIn(t, r[i]) = {h[j] : j \in kept[i]+1..Len(h)}
    BY <2>1, NewerAreAfter
  <2>3. LastAt(u, r[i]) = LastAt(t, r[i]) /\ LastAt(t, r[i]) \in 1..Len(t)
    BY <1>5, <1>6, <2>1
  <2>4. s \in NewerIn(u, r[i])
    BY <1>5, <1>6, <2>3 DEF NewerIn
  <2>5. ASSUME NEW j \in i+1..m PROVE r[j] \in NewerIn(u, r[i])
    <3>1. j \in 1..m /\ i < j
      BY <1>2, <2>5
    <3>2. LastAt(u, r[i]) < LastAt(u, r[j]) /\ r[j] \in Range(u)
      BY <1>5, <1>9, <1>10, <3>1
    <3>3. LastAt(u, r[j]) \in Nat
      BY <1>5, <1>6, <1>9, <3>1
    <3> QED
      BY <1>6, <2>3, <3>2, <3>3 DEF NewerIn
  <2>6. ASSUME NEW x \in NewerIn(u, r[i]), x # s PROVE \E j \in i+1..m : r[j] = x
    <3>1. x \in Range(t) /\ LastAt(t, x) > LastAt(t, r[i])
      BY <1>5, <2>3, <2>6 DEF NewerIn
    <3>2. x \in NewerIn(t, r[i])
      BY <3>1 DEF NewerIn
    <3>3. PICK k \in kept[i]+1..Len(h) : h[k] = x
      BY <2>2, <3>2
    <3>4. k \in 1..Len(h) /\ kept[i] < k
      BY <1>4, <2>1
    <3>5. PICK j \in 1..m : kept[j] = k
      BY <1>3, <2>6, <3>3, <3>4
    <3>6. ~(j < i) /\ j # i
      BY <1>3, <1>4, <2>1, <3>4, <3>5
    <3>7. j \in i+1..m
      BY <1>2, <3>6
    <3> QED
      BY <1>3, <3>3, <3>5, <3>7
  <2> QED
    BY <2>4, <2>5, <2>6
<1>12. \A i \in 1..m : Cardinality(NewerIn(u, r[i])) = m - i + 1
  <2> SUFFICES ASSUME NEW i \in 1..m PROVE Cardinality(NewerIn(u, r[i])) = m - i + 1
    OBVIOUS
  <2> DEFINE T == {r[j] : j \in i+1..m}
  <2>1. \A j, k \in 1..m : r[j] = r[k] => j = k
    <3> SUFFICES ASSUME NEW j \in 1..m, NEW k \in 1..m, r[j] = r[k] PROVE j = k
      OBVIOUS
    <3>1. kept[j] = kept[k] /\ kept[j] \in Nat
      BY <1>3, <1>4
    <3>2. (j < k => kept[j] < kept[k]) /\ (k < j => kept[k] < kept[j])
      BY <1>3
    <3>3. ~(kept[j] < kept[j])
      BY <3>1
    <3>4. ~(j < k) /\ ~(k < j)
      BY <3>1, <3>2, <3>3
    <3> QED
      BY <1>2, <3>4
  <2>2. IsFiniteSet(T) /\ Cardinality(T) = m - i
    BY <1>3, <2>1, CountFrom DEF m
  <2>3. s \notin T
    <3>1. \A j \in i+1..m : j \in 1..m
      BY <1>2
    <3> QED
      BY <1>3, <3>1
  <2> HIDE DEF T
  <2>4. Cardinality(T \cup {s}) = Cardinality(T) + 1
    BY <2>2, <2>3, FS_AddElement
  <2> QED
    BY <1>11, <2>2, <2>4 DEF T
\* Nothing is newer than the id, and an old reference has become older.
<1>13. Cardinality(NewerIn(u, s)) = 0
  <2>1. \A x \in Range(u) : ~(LastAt(u, x) > LastAt(u, s))
    BY <1>5, <1>6
  <2>2. NewerIn(u, s) = {}
    BY <2>1 DEF NewerIn
  <2> QED
    BY <2>2, FS_EmptySet
<1>14. \A x \in Range(t) : x # s /\ x \notin Range(h) => ~(Cardinality(NewerIn(u, x)) < HistoryLimit)
  <2> SUFFICES ASSUME NEW x \in Range(t), x # s, x \notin Range(h)
               PROVE  ~(Cardinality(NewerIn(u, x)) < HistoryLimit)
    OBVIOUS
  <2>1. NewerIn(t, x) \in SUBSET NewerIn(u, x)
    <3> SUFFICES ASSUME NEW y \in NewerIn(t, x) PROVE y \in NewerIn(u, x)
      OBVIOUS
    <3>1. y \in Range(t) /\ LastAt(t, y) > LastAt(t, x) /\ LastAt(u, x) = LastAt(t, x)
      BY <1>5 DEF NewerIn
    <3>2. LastAt(u, y) > LastAt(u, x)
      BY <1>5, <1>6, <3>1
    <3> QED
      BY <1>5, <3>1, <3>2 DEF NewerIn
  <2>2. IsFiniteSet(NewerIn(u, x))
    <3>1. IsFiniteSet(Range(u))
      BY <1>5, RangeIs
    <3> QED
      BY <3>1, FS_Subset DEF NewerIn
  <2>3. /\ Cardinality(NewerIn(t, x)) <= Cardinality(NewerIn(u, x))
        /\ Cardinality(NewerIn(t, x)) \in Nat /\ Cardinality(NewerIn(u, x)) \in Nat
    BY <2>1, <2>2, FS_Subset, FS_CardinalityType
  <2>4. ~(Cardinality(NewerIn(t, x)) < HistoryLimit)
    BY <1>8
  <2> QED
    BY <2>3, <2>4, HistoryLimitAssumption
<1>15. Range(R) = {s} \cup {r[i] : i \in d+1..m}
  <2>1. \A j \in 1..Len(R) : R[j] = s \/ \E i \in d+1..m : R[j] = r[i]
    <3>1. \A j \in 1..Len(R) : j \in 1..(m - d) \/ j = m - d + 1
      BY <1>2
    <3>2. \A j \in 1..(m - d) : d + j \in d+1..m
      BY <1>2
    <3> QED
      BY <1>2, <3>1, <3>2
  <2>2. \A i \in d+1..m : \E j \in 1..Len(R) : R[j] = r[i]
    <3>1. \A i \in d+1..m : i - d \in 1..(m - d) /\ i - d \in 1..Len(R) /\ d + (i - d) = i
      BY <1>2
    <3> QED
      BY <1>2, <3>1
  <2>3. \E j \in 1..Len(R) : R[j] = s
    BY <1>2
  <2> QED
    BY <1>4, <2>1, <2>2, <2>3
<1>16. Range(R) = {x \in Range(u) : Cardinality(NewerIn(u, x)) < HistoryLimit}
  <2>1. \A i \in 1..m : i \in d+1..m <=> Cardinality(NewerIn(u, r[i])) < HistoryLimit
    <3>1. \A i \in 1..m : i \in d+1..m <=> m - i + 1 < HistoryLimit
      BY <1>2, <1>7, HistoryLimitAssumption
    <3> QED
      BY <1>12, <3>1
  <2>2. \A i \in d+1..m : i \in 1..m
    BY <1>2
  <2>3. \A x \in Range(h) : x = s \/ \E i \in 1..m : r[i] = x
    BY <1>3, <1>4
  <2>4. 0 < HistoryLimit
    BY HistoryLimitAssumption
  <2>5. ASSUME NEW x \in Range(R)
        PROVE  x \in Range(u) /\ Cardinality(NewerIn(u, x)) < HistoryLimit
    <3>1. CASE x = s
      BY <1>5, <1>13, <2>4, <3>1
    <3>2. CASE x # s
      <4>1. PICK i \in d+1..m : x = r[i]
        BY <1>15, <3>2
      <4> QED
        BY <1>5, <1>9, <2>1, <2>2, <4>1
    <3> QED
      BY <3>1, <3>2
  <2>6. ASSUME NEW x \in Range(u), Cardinality(NewerIn(u, x)) < HistoryLimit
        PROVE  x \in Range(R)
    <3>1. CASE x = s
      BY <1>15, <3>1
    <3>2. CASE x # s
      <4>1. x \in Range(h)
        BY <1>5, <1>14, <2>6, <3>2
      <4>2. PICK i \in 1..m : r[i] = x
        BY <2>3, <3>2, <4>1
      <4>3. i \in d+1..m
        BY <2>1, <2>6, <4>2
      <4> QED
        BY <1>15, <4>2, <4>3
    <3> QED
      BY <3>1, <3>2
  <2> QED
    BY <2>5, <2>6
<1>17. \A i, j \in 1..Len(R) : i < j => LastAt(u, R[i]) < LastAt(u, R[j])
  <2> SUFFICES ASSUME NEW i \in 1..Len(R), NEW j \in 1..Len(R), i < j
               PROVE  LastAt(u, R[i]) < LastAt(u, R[j])
    OBVIOUS
  <2>1. i \in 1..(m - d) /\ d + i \in 1..m /\ R[i] = r[d + i]
    BY <1>2
  <2>2. CASE j \in 1..(m - d)
    <3>1. d + j \in 1..m /\ R[j] = r[d + j] /\ d + i < d + j
      BY <1>2, <2>2
    <3> QED
      BY <1>10, <2>1, <3>1
  <2>3. CASE j = m - d + 1
    <3>1. LastAt(u, R[j]) = Len(t) + 1
      BY <1>2, <1>5, <2>3
    <3>2. LastAt(u, R[i]) \in 1..Len(t)
      BY <1>5, <1>6, <1>9, <2>1
    <3> QED
      BY <1>6, <3>1, <3>2
  <2> QED
    BY <1>2, <2>2, <2>3
<1> QED
  BY <1>16, <1>17 DEF MostRecent, R, u

-----------------------------------------------------------------------------
(* The list of shadows *)

\* The newest id, if it is available, is the first in the list
\* (get_shadows_for_path, context_store.py:338-347).  The list is built along
\* the history, so that it exists, and is one, is shown for the shortest
\* history for which it would not be.
LEMMA NewestListed ==
  ASSUME NEW h \in Seq(Shadows), h # << >>, h[Len(h)] \in available
  PROVE  Head(Listed(h)) = h[Len(h)]
<1> DEFINE N == Len(h)
           one(n) == IF h[n] \in available THEN <<h[n]>> ELSE << >>
           step(f, n) == IF n = 0 THEN << >> ELSE one(n) \o f[n - 1]
           listed == CHOOSE f : f = [n \in 0..N |-> step(f, n)]
<1>1. Listed(h) = listed[N]
  BY DEF Listed
<1>2. N \in Nat \ {0}
  BY LenProperties, EmptySeq
<1>3. \A n \in 1..N : one(n) \in Seq(Shadows)
  <2> SUFFICES ASSUME NEW n \in 1..N PROVE one(n) \in Seq(Shadows)
    OBVIOUS
  <2>1. h[n] \in Shadows
    BY ElementOfSeq
  <2> QED
    BY <2>1
<1> HIDE DEF N, one
<1> DEFINE Exists(k) == \E f : f = [n \in 0..k |-> step(f, n)]
           Missing == {k \in Nat : ~Exists(k)}
<1>4. Exists(N)
  <2> SUFFICES ASSUME Missing # {} PROVE FALSE
    BY <1>2
  <2>1. PICK k \in Missing : \A l \in Missing : k <= l
    <3>1. Missing \in SUBSET Nat
      OBVIOUS
    <3> HIDE DEF Missing
    <3> QED
      BY <3>1, Smallest
  <2>2. CASE k = 0
    <3> DEFINE f == [n \in 0..0 |-> << >>]
    <3>1. f = [n \in 0..0 |-> step(f, n)]
      OBVIOUS
    <3> QED
      BY <2>1, <2>2, <3>1
  <2>3. CASE k # 0
    <3>1. k \in Nat /\ k - 1 \in Nat /\ ~(k <= k - 1)
      BY <2>1, <2>3
    <3>2. PICK f : f = [n \in 0..(k - 1) |-> step(f, n)]
      BY <2>1, <3>1
    <3> DEFINE g == [n \in 0..k |-> IF n = k THEN step(f, k) ELSE f[n]]
    <3>3. \A n \in 0..k : n # k => n \in 0..(k - 1)
      BY <3>1
    <3>4. \A n \in 0..k : n # 0 => n - 1 \in 0..k /\ n - 1 # k
      BY <3>1
    <3>5. \A n \in 0..k : g[n] = step(g, n)
      <4> SUFFICES ASSUME NEW n \in 0..k PROVE g[n] = step(g, n)
        OBVIOUS
      <4>1. g[n] = step(f, n)
        BY <3>2, <3>3
      <4>2. n # 0 => g[n - 1] = f[n - 1]
        BY <3>4
      <4> HIDE DEF g
      <4> QED
        BY <4>1, <4>2
    <3>6. g = [n \in 0..k |-> step(g, n)]
      <4>1. DOMAIN g = 0..k /\ g = [n \in 0..k |-> g[n]]
        OBVIOUS
      <4> HIDE DEF g, step
      <4> QED
        BY <3>5, <4>1
    <3> HIDE DEF g, step
    <3> QED
      BY <2>1, <3>6
  <2> QED
    BY <2>2, <2>3
<1>5. listed = [n \in 0..N |-> step(listed, n)]
  <2> HIDE DEF step
  <2> QED
    BY <1>4
<1> HIDE DEF listed
<1>6. \A n \in 0..N : listed[n] = step(listed, n)
  BY <1>5
<1> DEFINE Wrong == {n \in 0..N : listed[n] \notin Seq(Shadows)}
<1>7. Wrong = {}
  <2> SUFFICES ASSUME Wrong # {} PROVE FALSE
    OBVIOUS
  <2>1. PICK k \in Wrong : \A l \in Wrong : k <= l
    <3>1. Wrong \in SUBSET Nat
      BY <1>2
    <3> HIDE DEF Wrong
    <3> QED
      BY <3>1, Smallest
  <2>2. k # 0
    BY <1>6, <2>1, EmptySeq
  <2>3. k \in 1..N /\ k - 1 \in 0..N /\ ~(k <= k - 1)
    BY <1>2, <2>1, <2>2
  <2>4. listed[k - 1] \in Seq(Shadows)
    BY <2>1, <2>3
  <2>5. listed[k] = one(k) \o listed[k - 1]
    BY <1>6, <2>1, <2>2
  <2>6. one(k) \in Seq(Shadows)
    BY <1>3, <2>3
  <2>7. listed[k] \in Seq(Shadows)
    BY <2>4, <2>5, <2>6, ConcatProperties
  <2> QED
    BY <2>1, <2>7
<1>8. listed[N] = <<h[N]>> \o listed[N - 1] /\ listed[N - 1] \in Seq(Shadows)
  <2>1. N \in 0..N /\ N - 1 \in 0..N /\ N # 0
    BY <1>2
  <2>2. one(N) = <<h[N]>>
    BY DEF one, N
  <2> QED
    BY <1>6, <1>7, <2>1, <2>2
<1>9. h[N] \in Shadows
  BY <1>2, ElementOfSeq DEF N
<1>10. Head(<<h[N]>> \o listed[N - 1]) = h[N]
  <2>1. <<h[N]>> \in Seq(Shadows) /\ Len(<<h[N]>>) = 1 /\ <<h[N]>>[1] = h[N]
    BY <1>9
  <2>2. PICK x : x = <<h[N]>> \o listed[N - 1]
    OBVIOUS
  <2>3. x \in Seq(Shadows) /\ Len(x) = 1 + Len(listed[N - 1])
        /\ \A i \in 1..(1 + Len(listed[N - 1])) :
             x[i] = IF i <= 1 THEN <<h[N]>>[i] ELSE (listed[N - 1])[i - 1]
    BY <1>8, <2>1, <2>2, ConcatProperties, Zenon
  <2>4. Len(listed[N - 1]) \in Nat
    BY <1>8, LenProperties
  <2>5. x[1] = h[N] /\ x # << >>
    BY <2>1, <2>3, <2>4
  <2>6. Head(x) = x[1]
    BY <2>3, <2>5
  <2> QED
    BY <2>2, <2>5, <2>6
<1> QED
  BY <1>1, <1>8, <1>10 DEF N

-----------------------------------------------------------------------------
(* The invariant of the histories *)

\* A caller about to write the mapping has the id last in its copy.  On a path
\* that is not spoiled its copy is what the mapping is to be, should nothing
\* have been written since it was read.
CopyInv ==
  \A w \in Setters : pc[w] = "write" =>
    /\ copy[w] # << >> /\ Last(copy[w]) = arg[w].id
    /\ arg[w].path \notin spoiled => MostRecent(copy[w], Append(base[w], arg[w].id))

\* What is stored for a path ends with the id written last and names it, and
\* it has the most recent ones unless the path is spoiled.
Names(stored, t) ==
  IF t = << >> THEN stored = NoMapping
  ELSE stored.id = Last(t) /\ stored.ids # << >> /\ Last(stored.ids) = Last(t)

MappingInv ==
  \A p \in Paths :
    /\ Names(mapping[p], told[p])
    /\ p \notin spoiled => MostRecent(mapping[p].ids, told[p])

HistoryInv ==
  /\ TypeOK
  /\ \A w \in Setters : pc[w] # "idle" => arg[w] \in Args
  /\ CopyInv /\ MappingInv

\* A remembered id is the last of its history.
LEMMA RememberedLast ==
  ASSUME NEW h \in Histories, NEW s \in Shadows
  PROVE  /\ Remember(h, s) \in Histories /\ Remember(h, s) # << >>
         /\ Last(Remember(h, s)) = s
<1> DEFINE R == Remember(h, s)
<1>1. PICK r, kept : r = RemoveFirst(h, s) /\ RestOf(h, s, r, kept)
  BY RemovedFirst
<1>2. /\ Len(r) \in Nat /\ Dropped(r) \in 0..Len(r) /\ R \in Histories
      /\ Len(R) = Len(r) - Dropped(r) + 1 /\ R[Len(r) - Dropped(r) + 1] = s
  BY <1>1, Remembered
<1>3. PICK n : n = Len(r) - Dropped(r) + 1
  OBVIOUS
<1>4. n # 0
  BY <1>2, <1>3
<1>5. Len(R) = n /\ R[n] = s
  BY <1>2, <1>3
<1> HIDE DEF R
<1>6. R # << >>
  BY <1>4, <1>5
<1> QED
  BY <1>2, <1>5, <1>6 DEF Last, R

\* An empty mapping is what there is to remember of nothing.
LEMMA NothingTold == << >> \in Histories /\ MostRecent(<< >>, << >>)
<1>1. PICK e \in Seq(Shadows) : e = << >> /\ Len(e) = 0
  BY EmptySeq
<1>2. 1..Len(e) = {}
  BY <1>1
<1>3. Range(e) = {}
  BY <1>2, RangeIs
<1>4. e \in Histories
  <2>1. Len(e) <= HistoryLimit
    BY <1>1, HistoryLimitAssumption
  <2>2. \A i, j \in 1..Len(e) : e[i] = e[j] => i = j
    BY <1>2
  <2> HIDE <1>1
  <2> QED
    BY <2>1, <2>2, HistoryIsSeq
<1>5. MostRecent(e, e)
  BY <1>2, <1>3 DEF MostRecent
<1> QED
  BY <1>1, <1>4, <1>5

\* A call begins.
LEMMA CheckHistory ==
  ASSUME HistoryInv, NEW w \in Setters, NEW p \in Paths, NEW s \in Shadows, Check(w, p, s)
  PROVE  HistoryInv'
<1>1. /\ pc[w] = "idle" /\ pc' = [pc EXCEPT ![w] = "read"]
      /\ arg' = [arg EXCEPT ![w] = [path |-> p, id |-> s]]
      /\ calls' = calls + 1 /\ calls < MaxSets
      /\ UNCHANGED <<mappingVars, reverse, tangled, available, up, copy, base>>
  BY DEF Check, Goto
<1>2. [path |-> p, id |-> s] \in Args
  BY DEF Args
<1>3. TypeOK'
  <2>1. calls' \in 0..MaxSets
    BY <1>1, MaxSetsAssumption DEF HistoryInv, TypeOK
  <2>2. arg' \in [Setters -> [path : Paths, id : Shadows] \cup {NoArg}]
    BY <1>1, <1>2 DEF HistoryInv, TypeOK, Args
  <2> QED
    BY <1>1, <2>1, <2>2 DEF HistoryInv, TypeOK, mappingVars
<1>4. \A v \in Setters : IF v = w THEN pc'[v] = "read" /\ arg'[v] \in Args
                                  ELSE pc'[v] = pc[v] /\ arg'[v] = arg[v]
  BY <1>1, <1>2 DEF HistoryInv, TypeOK
<1>5. CopyInv'
  BY <1>1, <1>4 DEF HistoryInv, CopyInv, mappingVars
<1>6. MappingInv'
  BY <1>1 DEF HistoryInv, MappingInv, mappingVars
<1> QED
  BY <1>3, <1>4, <1>5, <1>6 DEF HistoryInv

\* The mapping is read and the id remembered in the copy; a read that fails
\* starts from nothing (context_store.py:303-311).
LEMMA ReadHistory ==
  ASSUME HistoryInv, NEW w \in Setters, ReadMapping(w)
  PROVE  HistoryInv'
<1> DEFINE p == arg[w].path
           s == arg[w].id
           stored == IF up THEN mapping[p].ids ELSE << >>
           read == IF up THEN told[p] ELSE << >>
<1>1. /\ pc[w] = "read" /\ pc' = [pc EXCEPT ![w] = "write"]
      /\ copy' = [copy EXCEPT ![w] = Remember(stored, s)]
      /\ base' = [base EXCEPT ![w] = read]
      /\ UNCHANGED <<mappingVars, reverse, tangled, available, up, arg, calls>>
  BY DEF ReadMapping, Goto
<1>2. p \in Paths /\ s \in Shadows /\ arg[w] \in Args
  BY <1>1 DEF HistoryInv, Args
<1>3. stored \in Histories /\ read \in Seq(Shadows)
  BY <1>2, NothingTold, EmptySeq DEF HistoryInv, TypeOK
<1>4. p \notin spoiled => MostRecent(stored, read)
  BY <1>2, NothingTold DEF HistoryInv, MappingInv
<1> HIDE DEF p, s, stored, read
<1>5. /\ Remember(stored, s) \in Histories /\ Remember(stored, s) # << >>
      /\ Last(Remember(stored, s)) = s
  BY <1>2, <1>3, RememberedLast
<1>6. p \notin spoiled => MostRecent(Remember(stored, s), Append(read, s))
  BY <1>2, <1>3, <1>4, RememberedIsMostRecent
<1>7. TypeOK'
  BY <1>1, <1>3, <1>5 DEF HistoryInv, TypeOK, mappingVars
<1>8. \A v \in Setters \ {w} : pc'[v] = pc[v] /\ copy'[v] = copy[v] /\ base'[v] = base[v]
  BY <1>1 DEF HistoryInv, TypeOK
<1>9. copy'[w] = Remember(stored, s) /\ base'[w] = read
  BY <1>1 DEF HistoryInv, TypeOK
<1>10. CopyInv'
  <2> SUFFICES ASSUME NEW v \in Setters, pc'[v] = "write"
               PROVE  /\ copy'[v] # << >> /\ Last(copy'[v]) = arg'[v].id
                      /\ arg'[v].path \notin spoiled' =>
                           MostRecent(copy'[v], Append(base'[v], arg'[v].id))
    BY DEF CopyInv
  <2>1. CASE v = w
    BY <1>1, <1>5, <1>6, <1>9, <2>1 DEF mappingVars, p, s
  <2>2. CASE v # w
    BY <1>1, <1>8, <2>2 DEF HistoryInv, CopyInv, mappingVars
  <2> QED
    BY <2>1, <2>2
<1>11. MappingInv'
  BY <1>1 DEF HistoryInv, MappingInv, mappingVars
<1>12. \A v \in Setters : pc'[v] # "idle" => arg'[v] \in Args
  BY <1>1, <1>2, <1>8 DEF HistoryInv
<1> QED
  BY <1>7, <1>10, <1>11, <1>12 DEF HistoryInv

\* The id and the copy replace the mapping: they name the id, and the copy is
\* the most recent references if nothing was written since it was made, and
\* spoils the path otherwise.  The caller may go on, or forget what it did
\* because the reply is lost (context_store.py:322).
LEMMA WriteHistory ==
  ASSUME HistoryInv, NEW w \in Setters, WriteMapping(w) \/ ReplyLost(w)
  PROVE  HistoryInv'
<1> DEFINE p == arg[w].path
           s == arg[w].id
           new == [id |-> s, ids |-> copy[w]]
<1>1. /\ pc[w] = "write"
      /\ mapping' = [mapping EXCEPT ![p] = new]
      /\ told' = [told EXCEPT ![p] = Append(told[p], s)]
      /\ owner' = [owner EXCEPT ![s] = p]
      /\ spoiled' = IF base[w] = told[p] THEN spoiled ELSE spoiled \cup {p}
      /\ UNCHANGED <<reverse, available, up, calls>>
  BY DEF WriteMapping, ReplyLost, SetMapping, NewMapping, Goto
<1>2. p \in Paths /\ s \in Shadows /\ arg[w] \in Args
  BY <1>1 DEF HistoryInv, Args
<1>3. /\ copy[w] \in Histories /\ told[p] \in Seq(Shadows)
      /\ copy[w] # << >> /\ Last(copy[w]) = s
      /\ p \notin spoiled => MostRecent(copy[w], Append(base[w], s))
  BY <1>1, <1>2 DEF HistoryInv, TypeOK, CopyInv
<1>4. << >> \in Histories /\ << >> \in Seq(Shadows)
  BY NothingTold, EmptySeq
<1>5. /\ pc' \in [Setters -> {"idle", "read", "write", "reverse"}]
      /\ arg' \in [Setters -> Args \cup {NoArg}]
      /\ copy' \in [Setters -> Histories] /\ base' \in [Setters -> Seq(Shadows)]
      /\ tangled' \subseteq Shadows
      /\ \A v \in Setters : pc'[v] # "idle" => arg'[v] \in Args
      /\ pc'[w] # "write"
      /\ \A v \in Setters \ {w} : /\ pc'[v] = pc[v] /\ arg'[v] = arg[v]
                                /\ copy'[v] = copy[v] /\ base'[v] = base[v]
  <2>1. CASE WriteMapping(w)
    BY <1>1, <1>2, <2>1 DEF WriteMapping, Goto, HistoryInv, TypeOK, Args
  <2>2. CASE ReplyLost(w)
    BY <1>1, <1>2, <1>4, <2>2 DEF ReplyLost, Goto, Forget, HistoryInv, TypeOK, Args
  <2> QED
    BY <2>1, <2>2
<1> HIDE DEF p, s
<1>6. /\ Append(told[p], s) \in Seq(Shadows) /\ Append(told[p], s) # << >>
      /\ Last(Append(told[p], s)) = s
  BY <1>2, <1>3, AppendProperties DEF Last
<1>7. TypeOK'
  <2>1. mapping' \in [Paths -> [id : Shadows \cup {None}, ids : Histories]]
    BY <1>1, <1>2, <1>3 DEF HistoryInv, TypeOK
  <2> QED
    BY <1>1, <1>2, <1>5, <1>6, <2>1 DEF HistoryInv, TypeOK, Args
<1>8. /\ mapping'[p] = new /\ told'[p] = Append(told[p], s)
      /\ \A q \in Paths \ {p} : mapping'[q] = mapping[q] /\ told'[q] = told[q]
      /\ \A q \in Paths : q \notin spoiled' => q \notin spoiled
      /\ p \notin spoiled' => base[w] = told[p]
  BY <1>1, <1>2 DEF HistoryInv, TypeOK
<1>9. MappingInv'
  <2> SUFFICES ASSUME NEW q \in Paths
               PROVE  /\ Names(mapping'[q], told'[q])
                      /\ q \notin spoiled' => MostRecent(mapping'[q].ids, told'[q])
    BY DEF MappingInv
  <2>1. CASE q = p
    <3>1. Names(new, Append(told[p], s))
      BY <1>3, <1>6 DEF Names
    <3>2. p \notin spoiled' => MostRecent(new.ids, Append(told[p], s))
      <4>1. new.ids = copy[w]
        OBVIOUS
      <4>2. ASSUME p \notin spoiled'
            PROVE  MostRecent(copy[w], Append(told[p], s))
        <5>1. base[w] = told[p] /\ p \notin spoiled
          BY <1>2, <1>8, <4>2
        <5>2. MostRecent(copy[w], Append(base[w], s))
          BY <1>3, <5>1
        <5> QED
          BY <5>1, <5>2, Zenon
      <4> QED
        BY <4>1, <4>2, Zenon
    <3> HIDE DEF new
    <3> QED
      BY <1>8, <2>1, <3>1, <3>2
  <2>2. CASE q # p
    BY <1>8, <2>2 DEF HistoryInv, MappingInv
  <2> QED
    BY <2>1, <2>2
<1>10. CopyInv'
  <2> SUFFICES ASSUME NEW v \in Setters, pc'[v] = "write"
               PROVE  /\ copy'[v] # << >> /\ Last(copy'[v]) = arg'[v].id
                      /\ arg'[v].path \notin spoiled' =>
                           MostRecent(copy'[v], Append(base'[v], arg'[v].id))
    BY DEF CopyInv
  <2>1. v # w /\ pc[v] = "write" /\ arg[v].path \in Paths
    BY <1>5 DEF HistoryInv, Args
  <2> QED
    BY <1>5, <1>8, <2>1 DEF HistoryInv, CopyInv
<1> QED
  BY <1>5, <1>7, <1>9, <1>10 DEF HistoryInv

\* Callers that return, raise or die forget; the mappings stay.
LEMMA ForgetHistory ==
  ASSUME HistoryInv, NEW W \in SUBSET Setters, Forget(W),
         pc' = [v \in Setters |-> IF v \in W THEN "idle" ELSE pc[v]],
         reverse' \in [Shadows -> Paths \cup {None}], tangled' \subseteq Shadows,
         UNCHANGED <<mappingVars, available, up, calls>>
  PROVE  HistoryInv'
<1>1. << >> \in Histories /\ << >> \in Seq(Shadows)
  BY NothingTold, EmptySeq
<1>2. \A v \in Setters : IF v \in W THEN /\ pc'[v] = "idle" /\ arg'[v] = NoArg
                                         /\ copy'[v] = << >> /\ base'[v] = << >>
                                    ELSE /\ pc'[v] = pc[v] /\ arg'[v] = arg[v]
                                         /\ copy'[v] = copy[v] /\ base'[v] = base[v]
  BY DEF Forget
<1>3. TypeOK'
  <2>1. pc' \in [Setters -> {"idle", "read", "write", "reverse"}]
    BY DEF HistoryInv, TypeOK
  <2>2. arg' \in [Setters -> [path : Paths, id : Shadows] \cup {NoArg}]
    BY DEF HistoryInv, TypeOK, Forget
  <2>3. copy' \in [Setters -> Histories] /\ base' \in [Setters -> Seq(Shadows)]
    BY <1>1 DEF HistoryInv, TypeOK, Forget
  <2> QED
    BY <2>1, <2>2, <2>3 DEF HistoryInv, TypeOK, mappingVars
<1>4. CopyInv'
  BY <1>2 DEF HistoryInv, CopyInv, mappingVars
<1>5. MappingInv'
  BY DEF HistoryInv, MappingInv, mappingVars
<1> QED
  BY <1>2, <1>3, <1>4, <1>5 DEF HistoryInv

\* A mapping whose key expires starts from nothing.
LEMMA ExpireHistory ==
  ASSUME HistoryInv, Expire
  PROVE  HistoryInv'
<1>1. UNCHANGED <<tangled, up, pc, arg, copy, base, calls, owner, spoiled>>
  BY DEF Expire, callerVars, mappingVars
<1>2. /\ available' \subseteq Shadows
      /\ reverse' \in [Shadows -> Paths \cup {None}]
      /\ mapping' \in [Paths -> [id : Shadows \cup {None}, ids : Histories]]
      /\ told' \in [Paths -> Seq(Shadows)]
      /\ \A p \in Paths : \/ mapping'[p] = mapping[p] /\ told'[p] = told[p]
                          \/ mapping'[p] = NoMapping /\ told'[p] = << >>
  <2>1. CASE UNCHANGED mappingVars
    BY <2>1 DEF Expire, HistoryInv, TypeOK, mappingVars
  <2>2. CASE /\ \E p \in Paths : /\ mapping' = [mapping EXCEPT ![p] = NoMapping]
                                 /\ told' = [told EXCEPT ![p] = << >>]
             /\ UNCHANGED <<reverse, available>>
    <3>1. NoMapping \in [id : Shadows \cup {None}, ids : Histories] /\ << >> \in Seq(Shadows)
      BY NothingTold, EmptySeq DEF NoMapping
    <3> QED
      BY <2>2, <3>1 DEF HistoryInv, TypeOK
  <2> QED
    BY <2>1, <2>2 DEF Expire
<1>3. TypeOK'
  BY <1>1, <1>2 DEF HistoryInv, TypeOK
<1>4. MappingInv'
  <2>1. Names(NoMapping, << >>) /\ MostRecent(NoMapping.ids, << >>)
    BY NothingTold DEF Names, NoMapping
  <2> QED
    BY <1>1, <1>2, <2>1 DEF HistoryInv, MappingInv
<1> QED
  BY <1>1, <1>3, <1>4 DEF HistoryInv, CopyInv

\* The inductive invariant of the histories: what a caller is about to write,
\* and what is stored, are the most recent references or marked as spoiled
\* (set_shadow_for_path, context_store.py:303-323).
THEOREM HistoryInvariant == Spec => []HistoryInv
<1>1. Init => HistoryInv
  <2> SUFFICES ASSUME Init PROVE HistoryInv
    OBVIOUS
  <2>1. \A p \in Paths : mapping[p] = NoMapping /\ told[p] = << >>
    BY DEF Init
  <2>2. MappingInv
    BY <2>1, NothingTold DEF MappingInv, Names, NoMapping
  <2>3. TypeOK
    <3>1. << >> \in Histories /\ << >> \in Seq(Shadows)
          /\ NoMapping \in [id : Shadows \cup {None}, ids : Histories]
      BY NothingTold, EmptySeq DEF NoMapping
    <3>2. calls \in 0..MaxSets
      BY MaxSetsAssumption DEF Init
    <3>3. up \in BOOLEAN
      BY DEF Init
    <3> QED
      BY <3>1, <3>2, <3>3 DEF Init, TypeOK
  <2> QED
    BY <2>2, <2>3 DEF Init, HistoryInv, CopyInv
<1>2. HistoryInv /\ [Next]_vars => HistoryInv'
  <2> SUFFICES ASSUME HistoryInv, [Next]_vars PROVE HistoryInv'
    OBVIOUS
  <2>1. ASSUME NEW w \in Setters,
               \/ \E p \in Paths, s \in Shadows : Check(w, p, s)
               \/ ReadMapping(w) \/ WriteMapping(w) \/ ReplyLost(w)
        PROVE  HistoryInv'
    BY <2>1, CheckHistory, ReadHistory, WriteHistory
  <2>2. ASSUME NEW w \in Setters, WriteReverse(w) \/ SetRaises(w)
        PROVE  HistoryInv'
    <3>1. /\ pc' = [v \in Setters |-> IF v \in {w} THEN "idle" ELSE pc[v]]
          /\ pc[w] # "idle" /\ Forget({w})
          /\ UNCHANGED <<mappingVars, available, up, calls>>
      BY <2>2 DEF WriteReverse, SetRaises, Goto, HistoryInv, TypeOK
    <3>2. arg[w].path \in Paths /\ arg[w].id \in Shadows
      BY <3>1 DEF HistoryInv, Args
    <3>3. reverse' \in [Shadows -> Paths \cup {None}] /\ tangled' \subseteq Shadows
      BY <2>2, <3>2 DEF WriteReverse, SetRaises, HistoryInv, TypeOK
    <3> QED
      BY <3>1, <3>3, ForgetHistory
  <2>3. CASE Crash
    <3>1. /\ pc' = [v \in Setters |-> IF v \in Setters THEN "idle" ELSE pc[v]]
          /\ Forget(Setters) /\ tangled' \subseteq Shadows
          /\ reverse' \in [Shadows -> Paths \cup {None}]
          /\ UNCHANGED <<mappingVars, available, up, calls>>
      BY <2>3 DEF Crash, HistoryInv, TypeOK
    <3> QED
      BY <3>1, ForgetHistory
  <2>4. CASE Expire
    BY <2>4, ExpireHistory
  <2>5. CASE (\E s \in Shadows : Store(s)) \/ Outage \/ UNCHANGED vars
    <3>1. /\ UNCHANGED <<mapping, told, owner, spoiled, reverse, tangled, pc, arg, copy, base, calls>>
          /\ available' \subseteq Shadows /\ up' \in BOOLEAN
      <4>1. up' = up \/ up' = ~up
        BY <2>5 DEF Store, Outage, vars
      <4>2. (~up) \in BOOLEAN
        OBVIOUS
      <4> QED
        BY <2>5, <4>1, <4>2
           DEF Store, Outage, vars, mappingVars, callerVars, HistoryInv, TypeOK
    <3> QED
      BY <3>1 DEF HistoryInv, TypeOK, CopyInv, MappingInv
  <2> QED
    BY <2>1, <2>2, <2>3, <2>4, <2>5 DEF Next
<1> QED
  BY <1>1, <1>2, PTL DEF Spec

\* Every variable keeps its type; no history grows beyond the limit or holds
\* an id twice (context_store.py:308-311).
THEOREM TypeCorrect == Spec => []TypeOK
<1>1. HistoryInv => TypeOK
  BY DEF HistoryInv
<1> QED
  BY <1>1, HistoryInvariant, PTL

\* A recent reference is lost only to a write that did not build on the
\* mapping it replaced, for any number of callers and any limit
\* (context_store.py:303-322).
THEOREM RecentRetained == Spec => []LostOnlyToBlindWrites
<1>1. HistoryInv => LostOnlyToBlindWrites
  <2> SUFFICES ASSUME HistoryInv, NEW p \in Paths \ spoiled PROVE IsMostRecent(p)
    BY DEF LostOnlyToBlindWrites
  <2>1. MostRecent(mapping[p].ids, told[p])
    BY DEF HistoryInv, MappingInv
  <2>2. \A s : LastTold(p, s) = LastAt(told[p], s)
    BY DEF LastTold, LastAt
  <2> QED
    BY <2>1, <2>2 DEF MostRecent, IsMostRecent, NewerIn
<1> QED
  BY <1>1, HistoryInvariant, PTL

\* Whatever callers overlap, however many, the stored shadow_id and the last of
\* the stored shadow_ids are the id of the last mapping Redis was told: the
\* readers answer it, and agree, as long as its body is there
\* (context_store.py:303-322, 325-347).
THEOREM ReadersAlike == Spec => []ReadersAgree
<1>1. HistoryInv => ReadersAgree
  <2> SUFFICES ASSUME HistoryInv, NEW p \in Paths
               PROVE  /\ GetShadow(p) = IF up /\ told[p] # << >> /\ Last(told[p]) \in available
                                         THEN Last(told[p]) ELSE None
                      /\ GetShadow(p) # None => Head(GetShadows(p)) = GetShadow(p)
    BY DEF ReadersAgree
  <2>1. Names(mapping[p], told[p]) /\ None \notin available
    BY NoneAssumption DEF HistoryInv, MappingInv, TypeOK
  <2>2. CASE told[p] = << >>
    BY <2>1, <2>2 DEF Names, NoMapping, GetShadow
  <2>3. CASE told[p] # << >>
    <3>1. /\ mapping[p].id = Last(told[p]) /\ mapping[p].ids # << >>
          /\ Last(mapping[p].ids) = Last(told[p])
      BY <2>1, <2>3 DEF Names
    <3>2. mapping[p].ids \in Seq(Shadows)
      BY HistoryIsSeq DEF HistoryInv, TypeOK
    <3>3. Last(told[p]) \in available => Head(Listed(mapping[p].ids)) = Last(told[p])
      BY <3>1, <3>2, NewestListed DEF Last
    <3> QED
      BY <2>3, <3>1, <3>3 DEF GetShadow, GetShadows
  <2> QED
    BY <2>2, <2>3
<1> QED
  BY <1>1, HistoryInvariant, PTL
=============================================================================
