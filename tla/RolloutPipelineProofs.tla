------------------------ MODULE RolloutPipelineProofs ------------------------
(***************************************************************************)
(* Proofs about RolloutPipeline and the rules of RolloutRule, for every    *)
(* manifest of distinct tasks, every threshold and every bound.            *)
(*                                                                         *)
(* First the rules: a policy and its reasons, and what one worse event     *)
(* does to sums, counts, the Wilson interval, the percentile and the mode. *)
(* Then the steps of benchmark and analyst, the inductive invariant IInv,  *)
(* and the theorems.                                                       *)
(***************************************************************************)
EXTENDS RolloutPipeline, FiniteSetTheorems, SequenceTheorems, TLAPS

\* One benchmark run wrote these events, each arm of a task at most once.
OneRun(E) ==
  /\ \A e, f \in E : e.run = f.run
  /\ \A e, f \in E : e.task = f.task /\ e.arm = f.arm => e = f

\* Events that a policy may be made of: of one run, of all of it if it was
\* live, and not of a live run in progress.
Sound(E) ==
  /\ E \in SUBSET Events /\ IsFiniteSet(E)
  /\ OneRun(E)
  /\ \A e \in E : /\ e.run <= runs
                  /\ e.run \in whole => Cardinality(E) = 2 * Len(Manifest)
                  /\ bench # None /\ bench.kind = "live" => e.run # runs

\* The arms that the benchmark in progress has run.
Done(e) ==
  \/ \E i \in 1..(Len(Manifest) - Len(bench.todo)) : e.task = Manifest[i]
  \/ bench.todo # << >> /\ e.task = Head(bench.todo) /\ e.arm \notin bench.arms

\* The file the benchmark in progress writes holds one event for each of them.
BenchInv ==
  bench # None =>
    LET E == LinesOf(IF bench.kind = "offline" THEN events ELSE partial)
        n == Len(bench.todo)
    IN  /\ runs \in Nat \ {0} /\ runs \notin whole
        /\ n <= Len(Manifest)
        /\ \A i \in 1..n : bench.todo[i] = Manifest[Len(Manifest) - n + i]
        /\ IsFiniteSet(E) /\ OneRun(E)
        /\ \A e \in E : e.run = runs /\ Done(e)
        /\ Cardinality(E) = 2 * (Len(Manifest) - n) + (2 - Cardinality(bench.arms))
        /\ n = 0 => bench.arms = Arms

\* A policy was made from sound events.
Made(p) == p = Policy(p.basis, p.label) /\ Sound(p.basis)

\* What a lineage manifest promises of the files it names.
Truthful(l) ==
  ~l.moved => \A f \in DOMAIN l.outputs : l.outputs[f] = Policy(l.events, l.label)

\* The lineage matches the other files.
Matches(l) ==
  /\ l \in Lineages
  /\ \A f \in DOMAIN l.outputs : l.outputs[f] = outputs[f]

PolicyInv ==
  /\ label \in Labels
  /\ outputs["policy"] \notin {None, Torn} => Made(outputs["policy"])
  /\ analyst # None => Made(analyst.policy) /\ analyst.policy.label = label

\* What run_phase2 has written so far.
AnalystInv ==
  analyst # None =>
    /\ analyst.todo \in {Phase2, <<"dashboard", "hash", "lineage">>,
                         <<"hash", "lineage">>, <<"lineage">>}
    /\ analyst.todo # Phase2 => outputs["policy"] = analyst.policy
    /\ analyst.todo \in {<<"hash", "lineage">>, <<"lineage">>} =>
         outputs["dashboard"] = analyst.policy
    /\ analyst.todo = <<"lineage">> =>
         Matches(analyst.lineage) /\ Truthful(analyst.lineage)

LineageInv ==
  /\ outputs["lineage"] \notin {None, Torn} => Truthful(outputs["lineage"])
  /\ described => Matches(outputs["lineage"])

IInv ==
  /\ TypeOK /\ BenchInv /\ Sound(EventsRead) /\ PolicyInv /\ AnalystInv /\ LineageInv

-----------------------------------------------------------------------------
(* The rules *)

\* A policy names its events and its label, and a mode for some types.
LEMMA PolicyType ==
  ASSUME NEW E \in SUBSET Events, NEW l \in Labels
  PROVE  /\ Policy(E, l) \in Policies
         /\ Policy(E, l).basis = E /\ Policy(E, l).label = l
<1> DEFINE modes == [type \in Segments(E) |-> SelectMode(Segment(E, type))]
           ready == l = "production" /\ \E type \in Segments(E) : modes[type] # "off"
<1>1. \A segment : SelectMode(segment) \in Modes
  BY DEF SelectMode, Modes
<1>2. Segments(E) \in SUBSET Types
  BY DEF Segments
<1>3. modes \in [Segments(E) -> Modes]
  BY <1>1
<1>4. modes \in UNION {[S -> Modes] : S \in SUBSET Types}
  BY <1>2, <1>3
<1>5. ready \in BOOLEAN
  OBVIOUS
<1>6. Policy(E, l) = [label |-> l, ready |-> ready, modes |-> modes, basis |-> E]
  BY DEF Policy
<1> HIDE DEF modes, ready
<1> QED
  BY <1>4, <1>5, <1>6 DEF Policies

\* The audit and the segments count the same pairs.
LEMMA AuditPairsTheSame ==
  ASSUME NEW E \in SUBSET Events, NEW type
  PROVE  AuditPairs(E, type) = Cardinality(Paired(E, type))
<1> DEFINE rows == {e \in E : TaskType[e.task] = type}
           arms(t) == {e.arm : e \in {f \in rows : f.task = t}}
           pairs == {t \in TasksOf(rows) : Arms \subseteq arms(t)}
<1>1. \A e \in E : e.task \in Tasks
  BY DEF Events
<1>2. pairs \subseteq Paired(E, type)
  <2> SUFFICES ASSUME NEW t \in TasksOf(rows), Arms \subseteq arms(t)
               PROVE  t \in Paired(E, type)
    OBVIOUS
  <2>1. t \in Tasks /\ TaskType[t] = type
    BY <1>1 DEF TasksOf
  <2>2. \A arm \in Arms : \E e \in E : e.task = t /\ e.arm = arm
    OBVIOUS
  <2> QED
    BY <2>1, <2>2 DEF Paired
<1>3. Paired(E, type) \subseteq pairs
  <2> SUFFICES ASSUME NEW t \in Paired(E, type) PROVE t \in pairs
    OBVIOUS
  <2>1. /\ TaskType[t] = type
        /\ \A arm \in Arms : \E e \in E : e.task = t /\ e.arm = arm
    BY DEF Paired
  <2>2. \A arm \in Arms : \E e \in rows : e.task = t /\ e.arm = arm
    BY <2>1
  <2>3. Arms \subseteq arms(t)
    BY <2>2
  <2>4. t \in TasksOf(rows)
    BY <2>2 DEF TasksOf, Arms
  <2> QED
    BY <2>3, <2>4
<1>4. AuditPairs(E, type) = Cardinality(pairs)
  BY DEF AuditPairs
<1> QED
  BY <1>2, <1>3, <1>4, Zenon

\* A file the doctor passes has no event that the segments leave out.
LEMMA DoctorSeesTheRows ==
  ASSUME NEW E \in SUBSET Events, DoctorPasses(E), NEW e \in E
  PROVE  e \in Rows(E, TaskType[e.task], e.arm)
<1>1. e.task \in Tasks
  BY DEF Events
<1>2. \A arm \in Arms : \E f \in E : f.task = e.task /\ f.arm = arm
  BY DEF DoctorPasses, TasksOf
<1> QED
  BY <1>1, <1>2 DEF Rows, Paired

\* Where an arm of a task has at most one event, nothing is a duplicate.
LEMMA NoDuplicates ==
  ASSUME NEW E, IsFiniteSet(E), OneRun(E)
  PROVE  Duplicates(E) = 0
<1> DEFINE identities == {<<e.task, e.arm>> : e \in E}
           identity == [e \in E |-> <<e.task, e.arm>>]
<1>1. identity \in Bijection(E, identities)
  <2>1. identity \in [E -> identities] /\ \A i \in identities : \E e \in E : identity[e] = i
    OBVIOUS
  <2>2. \A e, f \in E : identity[e] = identity[f] => e = f
    BY DEF OneRun
  <2> HIDE DEF identity, identities
  <2> QED
    BY <2>1, <2>2 DEF Bijection, Injection, Surjection, IsInjective
<1>2. IsFiniteSet(identities) /\ Cardinality(E) = Cardinality(identities)
  BY <1>1, FS_Bijection DEF ExistsBijection
<1>3. Cardinality(E) \in Nat
  BY FS_CardinalityType
<1> QED
  BY <1>2, <1>3 DEF Duplicates

\* A set of natural numbers has a smallest one.
LEMMA Smallest ==
  ASSUME NEW T \in SUBSET Nat, T # {}
  PROVE  \E m \in T : \A k \in T : m <= k
<1>1. PICK m \in T : \A k \in T : <<k, m>> \notin OpToRel(<, Nat)
  BY NatLessThanWellFounded, WFMin
<1>2. \A k \in T : ~(k < m)
  BY <1>1 DEF OpToRel
<1> QED
  BY <1>2

\* The next event of a sum over a set of them.
NextOf(s) == CHOOSE x \in s : TRUE

\* g sums the costs of every set in D.
SumsOn(g, D) ==
  \A s \in D : g[s] = IF s = {} THEN 0 ELSE NextOf(s).cost + g[s \ {NextOf(s)}]

SmallSets(S, n) == {s \in SUBSET S : Cardinality(s) <= n}

\* A set of n + 1 events without its next one has n of them.
LEMMA WithoutNext ==
  ASSUME NEW S, IsFiniteSet(S), NEW s \in SUBSET S, s # {}
  PROVE  /\ NextOf(s) \in s /\ s \ {NextOf(s)} \in SUBSET S
         /\ Cardinality(s) \in Nat /\ Cardinality(s \ {NextOf(s)}) = Cardinality(s) - 1
         /\ Cardinality(s) > 0
<1>1. NextOf(s) \in s
  BY DEF NextOf
<1>2. IsFiniteSet(s)
  BY FS_Subset
<1>3. /\ Cardinality(s) \in Nat /\ Cardinality(s \ {NextOf(s)}) \in Nat
      /\ Cardinality(s \ {NextOf(s)}) = Cardinality(s) - 1
  BY <1>1, <1>2, FS_CardinalityType, FS_RemoveElement
<1> QED
  BY <1>1, <1>3

\* Costs can be summed over every small enough set: the sums over larger sets
\* are built from those over the smaller ones.
LEMMA SumsExist ==
  ASSUME NEW S, IsFiniteSet(S), \A e \in S : e.cost \in Nat, NEW n \in Nat
  PROVE  \E g \in [SmallSets(S, n) -> Nat] : SumsOn(g, SmallSets(S, n))
<1> DEFINE Summed(k) == \E g \in [SmallSets(S, k) -> Nat] : SumsOn(g, SmallSets(S, k))
           Bad == {k \in Nat : ~Summed(k)}
<1>1. SUFFICES ASSUME Bad # {} PROVE FALSE
  OBVIOUS
<1>2. PICK m \in Bad : \A k \in Bad : m <= k
  <2>1. Bad \in SUBSET Nat
    OBVIOUS
  <2>2. PICK k : k \in Bad
    BY <1>1
  <2> HIDE DEF Bad
  <2> QED
    BY <2>1, <2>2, Smallest
<1>3. CASE m = 0
  <2> DEFINE g == [s \in SmallSets(S, 0) |-> 0]
  <2>1. \A s \in SmallSets(S, 0) : s = {}
    <3> SUFFICES ASSUME NEW s \in SmallSets(S, 0), s # {} PROVE FALSE
      OBVIOUS
    <3>1. s \in SUBSET S /\ Cardinality(s) <= 0
      BY DEF SmallSets
    <3>2. Cardinality(s) \in Nat /\ Cardinality(s) > 0
      BY <3>1, WithoutNext, Zenon
    <3> QED
      BY <3>1, <3>2
  <2>2. SumsOn(g, SmallSets(S, 0)) /\ g \in [SmallSets(S, 0) -> Nat]
    BY <2>1 DEF SumsOn
  <2> QED
    BY <1>3, <2>2
<1>4. CASE m # 0
  <2>1. m - 1 \in Nat /\ m \in Nat /\ ~(m <= m - 1)
    BY <1>4
  <2>2. Summed(m - 1)
    BY <1>2, <2>1
  <2>3. PICK g \in [SmallSets(S, m - 1) -> Nat] : SumsOn(g, SmallSets(S, m - 1))
    BY <2>2
  <2> DEFINE h == [s \in SmallSets(S, m) |->
                     IF s = {} THEN 0 ELSE NextOf(s).cost + g[s \ {NextOf(s)}]]
  <2>4. ASSUME NEW s \in SmallSets(S, m), s # {}
        PROVE  /\ s \ {NextOf(s)} \in SmallSets(S, m - 1) /\ s \ {NextOf(s)} \in SmallSets(S, m)
               /\ NextOf(s).cost \in Nat
    <3>1. s \in SUBSET S /\ Cardinality(s) <= m
      BY DEF SmallSets
    <3>2. /\ NextOf(s) \in s /\ s \ {NextOf(s)} \in SUBSET S
          /\ Cardinality(s) \in Nat /\ Cardinality(s \ {NextOf(s)}) = Cardinality(s) - 1
      BY <2>4, <3>1, WithoutNext
    <3>3. Cardinality(s \ {NextOf(s)}) <= m - 1 /\ Cardinality(s \ {NextOf(s)}) <= m
      BY <2>1, <3>1, <3>2
    <3> QED
      BY <3>1, <3>2, <3>3 DEF SmallSets
  <2>5. h \in [SmallSets(S, m) -> Nat]
    <3>1. ASSUME NEW s \in SmallSets(S, m), s # {}
          PROVE  NextOf(s).cost + g[s \ {NextOf(s)}] \in Nat
      <4>1. NextOf(s).cost \in Nat /\ g[s \ {NextOf(s)}] \in Nat
        BY <2>4, <3>1
      <4> QED
        BY <4>1
    <3> QED
      BY <3>1
  <2>6. \A s \in SmallSets(S, m - 1) : s \in SmallSets(S, m) /\ g[s] = h[s]
    <3> SUFFICES ASSUME NEW s \in SmallSets(S, m - 1)
                 PROVE  s \in SmallSets(S, m) /\ g[s] = h[s]
      OBVIOUS
    <3>1. s \in SUBSET S /\ Cardinality(s) <= m - 1
      BY DEF SmallSets
    <3>2. Cardinality(s) \in Nat
      BY <3>1, FS_Subset, FS_CardinalityType
    <3>3. s \in SmallSets(S, m)
      BY <2>1, <3>1, <3>2 DEF SmallSets
    <3> QED
      BY <2>3, <3>3 DEF SumsOn
  <2>7. SumsOn(h, SmallSets(S, m))
    <3> SUFFICES ASSUME NEW s \in SmallSets(S, m)
                 PROVE  h[s] = IF s = {} THEN 0 ELSE NextOf(s).cost + h[s \ {NextOf(s)}]
      BY DEF SumsOn
    <3>1. s # {} => g[s \ {NextOf(s)}] = h[s \ {NextOf(s)}]
      BY <2>4, <2>6
    <3> QED
      BY <3>1
  <2> HIDE DEF h
  <2> QED
    BY <1>2, <2>5, <2>7
<1> QED
  BY <1>3, <1>4

\* There is only one sum.
LEMMA SumsAgree ==
  ASSUME NEW S, IsFiniteSet(S), NEW f, NEW g, SumsOn(f, SUBSET S), SumsOn(g, SUBSET S)
  PROVE  \A s \in SUBSET S : f[s] = g[s]
<1> DEFINE Apart == {t \in SUBSET S : f[t] # g[t]}
           Sizes == {Cardinality(t) : t \in Apart}
<1>1. SUFFICES ASSUME Apart # {} PROVE FALSE
  OBVIOUS
<1>2. PICK m \in Sizes : \A k \in Sizes : m <= k
  <2>1. Sizes \in SUBSET Nat
    <3>1. \A s \in SUBSET S : Cardinality(s) \in Nat
      BY FS_Subset, FS_CardinalityType
    <3> QED
      BY <3>1
  <2>2. PICK k : k \in Sizes
    BY <1>1
  <2> HIDE DEF Sizes
  <2> QED
    BY <2>1, <2>2, Smallest
<1>3. PICK s \in SUBSET S : m = Cardinality(s) /\ f[s] # g[s]
  BY <1>2
<1>4. s # {}
  BY <1>3 DEF SumsOn
<1>5. /\ s \ {NextOf(s)} \in SUBSET S
      /\ Cardinality(s) \in Nat /\ Cardinality(s \ {NextOf(s)}) = Cardinality(s) - 1
  BY <1>4, WithoutNext
<1>6. f[s \ {NextOf(s)}] = g[s \ {NextOf(s)}]
  <2>1. SUFFICES ASSUME f[s \ {NextOf(s)}] # g[s \ {NextOf(s)}] PROVE FALSE
    OBVIOUS
  <2>2. Cardinality(s \ {NextOf(s)}) \in Sizes
    BY <1>5, <2>1
  <2>3. m <= m - 1 /\ m \in Nat
    BY <1>2, <1>3, <1>5, <2>2
  <2> QED
    BY <2>3
<1>7. f[s] = NextOf(s).cost + f[s \ {NextOf(s)}] /\ g[s] = NextOf(s).cost + g[s \ {NextOf(s)}]
  BY <1>4 DEF SumsOn
<1> QED
  BY <1>3, <1>6, <1>7

\* There is a sum over the subsets of a finite set of events.
LEMMA SumExists ==
  ASSUME NEW U, IsFiniteSet(U), \A e \in U : e.cost \in Nat
  PROVE  \E g \in [SUBSET U -> Nat] : SumsOn(g, SUBSET U)
<1>1. Cardinality(U) \in Nat /\ SmallSets(U, Cardinality(U)) = SUBSET U
  <2>1. \A s \in SUBSET U : Cardinality(s) <= Cardinality(U)
    BY FS_Subset
  <2> QED
    BY <2>1, FS_CardinalityType DEF SmallSets
<1>2. \E g \in [SmallSets(U, Cardinality(U)) -> Nat] :
        SumsOn(g, SmallSets(U, Cardinality(U)))
  BY <1>1, SumsExist, Zenon
<1> QED
  BY <1>1, <1>2, Zenon

\* The total cost of the events of a set is what any sum over its subsets says.
LEMMA TotalCostIs ==
  ASSUME NEW U, IsFiniteSet(U), \A e \in U : e.cost \in Nat,
         NEW g, SumsOn(g, SUBSET U), NEW S \in SUBSET U
  PROVE  TotalCost(S) = g[S]
<1> DEFINE next(h, s) == IF s = {} THEN 0 ELSE NextOf(s).cost + h[s \ {NextOf(s)}]
           sum == CHOOSE h : h = [s \in SUBSET S |-> next(h, s)]
<1>1. TotalCost(S) = sum[S]
  BY DEF TotalCost, MapThenSumSet, MapThenFoldSet, NextOf
<1>2. IsFiniteSet(S)
  BY FS_Subset
<1>3. PICK h \in [SUBSET S -> Nat] : SumsOn(h, SUBSET S)
  <2>1. \A e \in S : e.cost \in Nat
    OBVIOUS
  <2> QED
    BY <1>2, <2>1, SumExists
<1>4. h = [s \in SUBSET S |-> next(h, s)]
  BY <1>3 DEF SumsOn
<1>5. sum = [s \in SUBSET S |-> next(sum, s)]
  BY <1>4
<1> HIDE DEF sum
<1>6. SumsOn(sum, SUBSET S)
  BY <1>5 DEF SumsOn
<1>7. SumsOn(g, SUBSET S)
  BY DEF SumsOn
<1>8. sum[S] = g[S]
  BY <1>2, <1>6, <1>7, SumsAgree
<1> QED
  BY <1>1, <1>8

\* Any event may be taken out of a sum first.
LEMMA SumTakes ==
  ASSUME NEW U, IsFiniteSet(U), \A e \in U : e.cost \in Nat,
         NEW g \in [SUBSET U -> Nat], SumsOn(g, SUBSET U)
  PROVE  \A s \in SUBSET U : \A x \in s : g[s] = x.cost + g[s \ {x}]
<1> DEFINE Takes(s) == \A x \in s : g[s] = x.cost + g[s \ {x}]
           Bad == {s \in SUBSET U : ~Takes(s)}
           Sizes == {Cardinality(s) : s \in Bad}
<1>1. SUFFICES ASSUME Bad # {} PROVE FALSE
  OBVIOUS
<1>2. \A s \in SUBSET U : IsFiniteSet(s) /\ Cardinality(s) \in Nat
  BY FS_Subset, FS_CardinalityType
<1>3. PICK m \in Sizes : \A k \in Sizes : m <= k
  <2>1. Sizes \in SUBSET Nat
    BY <1>2
  <2>2. PICK k : k \in Sizes
    BY <1>1
  <2> HIDE DEF Sizes
  <2> QED
    BY <2>1, <2>2, Smallest
<1>4. PICK s \in Bad : m = Cardinality(s)
  BY <1>3
<1>5. \A t \in SUBSET U : Cardinality(t) < Cardinality(s) => Takes(t)
  <2> SUFFICES ASSUME NEW t \in SUBSET U, Cardinality(t) < Cardinality(s), ~Takes(t)
               PROVE  FALSE
    OBVIOUS
  <2>1. Cardinality(t) \in Sizes
    OBVIOUS
  <2>2. m <= Cardinality(t) /\ Cardinality(t) \in Nat /\ Cardinality(s) \in Nat
    BY <1>2, <1>3, <1>4, <2>1
  <2> QED
    BY <1>4, <2>2
<1>6. s \in SUBSET U /\ ~Takes(s)
  BY <1>4
<1> HIDE DEF Bad, Sizes
<1>7. PICK x \in s : g[s] # x.cost + g[s \ {x}]
  BY <1>6
<1> DEFINE c == NextOf(s)
<1>8. c \in s /\ g[s] = c.cost + g[s \ {c}]
  BY <1>6, <1>7 DEF SumsOn, NextOf
<1> HIDE DEF c
<1>9. x # c
  BY <1>7, <1>8
<1>10. \A y \in s : s \ {y} \in SUBSET U /\ Cardinality(s \ {y}) < Cardinality(s)
  <2> SUFFICES ASSUME NEW y \in s PROVE Cardinality(s \ {y}) < Cardinality(s)
    BY <1>6
  <2>1. Cardinality(s \ {y}) = Cardinality(s) - 1
    BY <1>2, <1>6, FS_RemoveElement
  <2>2. Cardinality(s) \in Nat
    BY <1>2, <1>6
  <2> QED
    BY <2>1, <2>2
<1>11. g[s \ {c}] = x.cost + g[(s \ {c}) \ {x}]
  BY <1>5, <1>8, <1>9, <1>10
<1>12. g[s \ {x}] = c.cost + g[(s \ {x}) \ {c}]
  BY <1>5, <1>8, <1>9, <1>10
<1>13. (s \ {c}) \ {x} = (s \ {x}) \ {c}
  OBVIOUS
<1> DEFINE r == g[(s \ {x}) \ {c}]
<1>14. r \in Nat /\ x.cost \in Nat /\ c.cost \in Nat
  <2>1. (s \ {x}) \ {c} \in SUBSET U
    BY <1>6
  <2> QED
    BY <1>6, <1>8, <2>1
<1>15. g[s] = c.cost + (x.cost + r) /\ g[s \ {x}] = c.cost + r
  BY <1>8, <1>11, <1>12, <1>13
<1> HIDE DEF r
<1>16. c.cost + (x.cost + r) = x.cost + (c.cost + r)
  BY <1>14
<1> QED
  BY <1>7, <1>15, <1>16

\* A total cost with an event is the cost without it and its own.
LEMMA TotalCostTakes ==
  ASSUME NEW S, IsFiniteSet(S), \A e \in S : e.cost \in Nat, NEW x \in S
  PROVE  TotalCost(S \ {x}) \in Nat /\ TotalCost(S) = x.cost + TotalCost(S \ {x})
<1>1. PICK g \in [SUBSET S -> Nat] : SumsOn(g, SUBSET S)
  BY SumExists
<1>2. g[S] = x.cost + g[S \ {x}]
  BY <1>1, SumTakes
<1>3. TotalCost(S) = g[S] /\ TotalCost(S \ {x}) = g[S \ {x}]
  BY <1>1, TotalCostIs
<1> QED
  BY <1>1, <1>2, <1>3

\* The total cost of finitely many events is a number.
LEMMA TotalCostType ==
  ASSUME NEW S, IsFiniteSet(S), \A e \in S : e.cost \in Nat
  PROVE  TotalCost(S) \in Nat
<1>1. PICK g \in [SUBSET S -> Nat] : SumsOn(g, SUBSET S)
  BY SumExists
<1> QED
  BY <1>1, TotalCostIs

\* Positive numbers have positive products.
LEMMA Product == \A x, y \in Nat \ {0} : x * y \in Nat \ {0}
OBVIOUS

\* Every task of a pair has a row in each arm.
LEMMA RowsOfPairs ==
  ASSUME NEW B \in SUBSET Events, IsFiniteSet(B), NEW type, NEW arm \in Arms
  PROVE  /\ IsFiniteSet(Rows(B, type, arm))
         /\ Cardinality(Rows(B, type, arm)) \in Nat /\ Cardinality(Paired(B, type)) \in Nat
         /\ Cardinality(Rows(B, type, arm)) >= Cardinality(Paired(B, type))
<1> DEFINE rows == Rows(B, type, arm)
           pairs == Paired(B, type)
           task == [e \in rows |-> e.task]
<1>1. rows \in SUBSET B
  BY DEF Rows
<1>2. IsFiniteSet(rows) /\ Cardinality(rows) \in Nat
  BY <1>1, FS_Subset, FS_CardinalityType
<1>3. task \in [rows -> pairs]
  BY DEF Rows
<1>4. \A t \in pairs : \E e \in rows : task[e] = t
  <2> SUFFICES ASSUME NEW t \in pairs PROVE \E e \in rows : e.task = t
    OBVIOUS
  <2>1. PICK e \in B : e.task = t /\ e.arm = arm
    BY DEF Paired
  <2> QED
    BY <2>1 DEF Rows
<1> HIDE DEF rows, pairs, task
<1>5. task \in Surjection(rows, pairs)
  BY <1>3, <1>4 DEF Surjection
<1>6. IsFiniteSet(pairs) /\ Cardinality(pairs) <= Cardinality(rows)
  BY <1>2, <1>5, FS_Surjection
<1>7. Cardinality(pairs) \in Nat
  BY <1>6, FS_CardinalityType
<1> QED
  BY <1>2, <1>6, <1>7 DEF rows, pairs

\* A policy that lets a runtime compress a type was made from production
\* evidence, with enough pairs of that type and a cheaper compressed arm.
LEMMA CompressesForAReason ==
  ASSUME NEW B \in SUBSET Events, IsFiniteSet(B), NEW l \in Labels, NEW type,
         ModeFor(Policy(B, l), type) # "off", MinimumImprovement # 0
  PROVE  LET baseline == Rows(B, type, "baseline")
             compressed == Rows(B, type, "compressed")
         IN  /\ l = "production"
             /\ Cardinality(baseline) >= MinimumPairedTasks
             /\ Cardinality(compressed) >= MinimumPairedTasks
             /\ Successes(compressed) > 0
             /\ TotalCost(compressed) * Successes(baseline)
                  < TotalCost(baseline) * Successes(compressed)
<1> DEFINE segment == Segment(B, type)
           baseline == Rows(B, type, "baseline")
           compressed == Rows(B, type, "compressed")
<1>1. l = "production" /\ type \in Segments(B) /\ SelectMode(segment) # "off"
  BY DEF ModeFor, Policy
<1>2. ~Blocked(segment)
  <2>1. Blocked(segment) => SelectMode(segment) = "off"
    BY DEF SelectMode
  <2> QED
    BY <1>1, <2>1
<1>3. /\ ~(Cardinality(Paired(B, type)) < MinimumPairedTasks)
      /\ Successes(compressed) > 0
      /\ CostImproves(baseline, compressed)
  BY <1>2 DEF Blocked, Segment
<1>4. /\ MinimumPairedTasks \in Nat /\ MinimumImprovement \in Nat \ {0}
  BY RolloutRuleAssumption
<1>5. \A arm \in Arms :
        /\ IsFiniteSet(Rows(B, type, arm))
        /\ Cardinality(Rows(B, type, arm)) >= MinimumPairedTasks
  <2>1. ASSUME NEW arm \in Arms
        PROVE  /\ IsFiniteSet(Rows(B, type, arm))
               /\ Cardinality(Rows(B, type, arm)) \in Nat /\ Cardinality(Paired(B, type)) \in Nat
               /\ Cardinality(Rows(B, type, arm)) >= Cardinality(Paired(B, type))
    BY RowsOfPairs
  <2> QED
    BY <2>1, <1>3, <1>4
<1>6. \A arm \in Arms : \A e \in Rows(B, type, arm) : e.cost \in Nat
  BY DEF Rows, Events
<1> DEFINE b == TotalCost(baseline)
           c == TotalCost(compressed)
           sb == Successes(baseline)
           sc == Successes(compressed)
<1>7. "baseline" \in Arms /\ "compressed" \in Arms
  BY DEF Arms
<1>8. b \in Nat /\ c \in Nat
  BY <1>5, <1>6, <1>7, TotalCostType
<1>9. sb \in Nat /\ sc \in Nat
  <2>1. ASSUME NEW rows, IsFiniteSet(rows) PROVE Successes(rows) \in Nat
    <3>1. {e \in rows : e.success} \in SUBSET rows
      OBVIOUS
    <3> HIDE DEF b, c, sb, sc
    <3> QED
      BY <2>1, <3>1, FS_Subset, FS_CardinalityType DEF Successes
  <2> QED
    BY <1>5, <1>7, <2>1
<1>10. sc > 0 /\ b > 0
       /\ 1000 * (b * sc - c * sb) >= MinimumImprovement * b * sc
  BY <1>3 DEF CostImproves
<1> HIDE DEF baseline, compressed, b, c, sb, sc
<1>11. c * sb < b * sc
  <2> DEFINE x == b * sc
             y == c * sb
             z == MinimumImprovement * b * sc
  <2>1. x \in Nat /\ y \in Nat
    BY <1>8, <1>9
  <2>2. b \in Nat \ {0} /\ sc \in Nat \ {0}
    BY <1>8, <1>9, <1>10
  <2>3. MinimumImprovement * b \in Nat \ {0}
    BY <1>4, <2>2, Product
  <2>4. z \in Nat \ {0}
    BY <2>2, <2>3, Product
  <2>5. 1000 * (x - y) >= z
    BY <1>10
  <2> HIDE DEF x, y, z
  <2>6. y < x
    BY <2>1, <2>4, <2>5
  <2> QED
    BY <2>6 DEF x, y
<1> QED
  BY <1>1, <1>3, <1>5, <1>7, <1>11 DEF baseline, compressed, b, c, sb, sc

-----------------------------------------------------------------------------
(* The Wilson interval *)

\* A larger number has no smaller quotient.
LEMMA QuotientRises ==
  ASSUME NEW a \in Int, NEW b \in Int, a <= b, NEW d \in Nat \ {0}
  PROVE  a \div d \in Int /\ b \div d \in Int /\ a \div d <= b \div d
<1> DEFINE p == a \div d
           q == b \div d
<1>1. /\ p \in Int /\ d * p <= a /\ a < d * p + d
      /\ q \in Int /\ d * q <= b /\ b < d * q + d
  OBVIOUS
<1> HIDE DEF p, q
<1>2. SUFFICES ASSUME q < p PROVE FALSE
  BY <1>1 DEF p, q
<1>3. d * (q + 1) <= d * p
  <2>1. q + 1 <= p /\ d \in Nat
    BY <1>1, <1>2
  <2>2. PICK k \in Nat : p = q + 1 + k
    <3>1. p - (q + 1) \in Nat /\ p = q + 1 + (p - (q + 1))
      BY <2>1, <1>1
    <3> QED
      BY <3>1
  <2>3. d * p = d * (q + 1) + d * k /\ d * k \in Nat /\ d * (q + 1) \in Int
    BY <1>1, <2>1, <2>2
  <2> QED
    BY <2>3
<1>4. d * (q + 1) = d * q + d /\ d * q \in Int /\ d * p \in Int
  BY <1>1
<1> QED
  BY <1>1, <1>3, <1>4

\* Root is the square root rounded down.
LEMMA RootIs ==
  ASSUME NEW x \in Nat
  PROVE  Root(x) \in Nat /\ Root(x) * Root(x) <= x /\ x < (Root(x) + 1) * (Root(x) + 1)
<1> DEFINE T == {k \in Nat : x < (k + 1) * (k + 1)}
<1>1. PICK r \in T : \A k \in T : r <= k
  <2>1. x < (x + 1) * (x + 1)
    OBVIOUS
  <2>2. T \in SUBSET Nat /\ x \in T
    BY <2>1
  <2> HIDE DEF T
  <2> QED
    BY <2>2, Smallest
<1>2. r \in Nat /\ x < (r + 1) * (r + 1)
  BY <1>1
<1>3. r * r <= x
  <2>1. CASE r = 0
    BY <2>1
  <2>2. CASE r # 0
    <3>1. r - 1 \in Nat /\ ~(r <= r - 1) /\ (r - 1) + 1 = r
      BY <1>2, <2>2
    <3>2. r - 1 \notin T
      BY <1>1, <3>1
    <3>3. ~(x < ((r - 1) + 1) * ((r - 1) + 1))
      BY <3>1, <3>2
    <3>4. r * r \in Nat /\ ~(x < r * r)
      BY <1>2, <3>1, <3>3
    <3> QED
      BY <3>4
  <2> QED
    BY <2>1, <2>2
<1>4. r \in 0..x
  <2>1. r <= r * r
    <3>1. CASE r = 0
      BY <3>1
    <3>2. CASE r # 0
      <4>1. r - 1 \in Nat /\ (r - 1) * r \in Nat /\ r * r = r + (r - 1) * r
        BY <1>2, <3>2
      <4> QED
        BY <1>2, <4>1
    <3> QED
      BY <3>1, <3>2
  <2>2. r * r \in Nat
    BY <1>2
  <2> QED
    BY <1>2, <1>3, <2>1, <2>2
<1> HIDE DEF T
<1>5. \E k \in 0..x : k * k <= x /\ x < (k + 1) * (k + 1)
  BY <1>2, <1>3, <1>4
<1>6. Root(x) \in 0..x /\ Root(x) * Root(x) <= x /\ x < (Root(x) + 1) * (Root(x) + 1)
  BY <1>5, Zenon DEF Root
<1>7. \A k \in 0..x : k \in Nat
  OBVIOUS
<1> QED
  BY <1>6, <1>7

\* The root of 980^2 and more grows more slowly than half its argument's
\* thousandth.
LEMMA RootGrowsSlowly ==
  ASSUME NEW x \in Nat, NEW y \in Nat, y >= 960400, x <= y + 1000001
  PROVE  Root(x) <= Root(y) + 500
<1> DEFINE p == Root(x)
           q == Root(y)
<1>1. /\ p \in Nat /\ p * p <= x
      /\ q \in Nat /\ y < (q + 1) * (q + 1)
  BY RootIs
<1> HIDE DEF p, q
<1>2. SUFFICES ASSUME p >= q + 501 PROVE FALSE
  BY <1>1 DEF p, q
<1>3. q >= 980
  <2>1. SUFFICES ASSUME q <= 979 PROVE FALSE
    BY <1>1
  <2>2. (q + 1) * (q + 1) <= 980 * 980
    <3>1. PICK k \in Nat : 980 = q + 1 + k
      <4>1. 979 - q \in Nat /\ 980 = q + 1 + (979 - q)
        BY <1>1, <2>1
      <4> QED
        BY <4>1
    <3>2. 980 * 980 = (q + 1) * (q + 1) + (2 * (q + 1) * k + k * k)
      BY <1>1, <3>1
    <3>3. 2 * (q + 1) * k + k * k \in Nat /\ (q + 1) * (q + 1) \in Nat
      BY <1>1, <3>1
    <3> QED
      BY <3>2, <3>3
  <2>3. (q + 1) * (q + 1) \in Nat
    BY <1>1
  <2> QED
    BY <1>1, <2>2, <2>3
<1>4. PICK k \in Nat : p = q + 501 + k
  <2>1. p - (q + 501) \in Nat /\ p = q + 501 + (p - (q + 501))
    BY <1>1, <1>2
  <2> QED
    BY <2>1
<1>5. p * p = (q + 1) * (q + 1) + 1000 * q + 251000 + (2 * (q + 501) * k + k * k)
  BY <1>1, <1>4
<1>6. 2 * (q + 501) * k + k * k \in Nat /\ (q + 1) * (q + 1) \in Nat /\ p * p \in Nat
  BY <1>1, <1>4
<1> QED
  BY <1>1, <1>3, <1>5, <1>6

\* One success more moves the radicand by at most a million and one.
LEMMA RadicandGrows ==
  ASSUME NEW n \in Nat \ {0}, NEW s \in 1..n
  PROVE  /\ Radicand(s, n) \in Nat /\ Radicand(s - 1, n) \in Nat
         /\ Radicand(s - 1, n) >= 960400
         /\ Radicand(s, n) <= Radicand(s - 1, n) + 1000001
<1> DEFINE a == 1000000 * s * (n - s)
           b == 1000000 * (s - 1) * (n - (s - 1))
           p == a \div n
           q == b \div n
<1>1. s \in Nat /\ n - s \in Nat /\ s - 1 \in Nat /\ n - (s - 1) \in Nat
  OBVIOUS
<1>2. a \in Nat /\ b \in Nat
  <2>1. \A u, v \in Nat : 1000000 * u * v \in Nat
    OBVIOUS
  <2> HIDE DEF a, b
  <2> QED
    BY <1>1, <2>1 DEF a, b
<1>3. a <= b + 1000000 * n
  <2>1. a = b + 1000000 * (n - s) - 1000000 * (s - 1)
    BY <1>1
  <2> HIDE DEF a, b
  <2> QED
    BY <1>1, <1>2, <2>1
<1> HIDE DEF a, b
<1>4. /\ p \in Int /\ n * p <= a /\ a < n * p + n
      /\ q \in Int /\ n * q <= b /\ b < n * q + n
  BY <1>2
<1> HIDE DEF p, q
<1>5. p \in Nat /\ q \in Nat
  <2>1. \A k \in Int, c \in Nat : c < n * k + n => k \in Nat
    <3> SUFFICES ASSUME NEW k \in Int, NEW c \in Nat, c < n * k + n, k < 0 PROVE FALSE
      OBVIOUS
    <3>1. PICK j \in Nat : k + 1 + j = 0
      <4>1. 0 - (k + 1) \in Nat /\ k + 1 + (0 - (k + 1)) = 0
        OBVIOUS
      <4> QED
        BY <4>1
    <3>2. n * k + n + n * j = n * (k + 1 + j) /\ n * j \in Nat
      BY <3>1
    <3>3. n * k + n + n * j = 0
      BY <3>1, <3>2
    <3> QED
      BY <3>2, <3>3
  <2> QED
    BY <1>2, <1>4, <2>1
<1>6. p <= q + 1000001
  <2>1. SUFFICES ASSUME p >= q + 1000002 PROVE FALSE
    BY <1>5
  <2>2. PICK k \in Nat : p = q + 1000002 + k
    <3>1. p - (q + 1000002) \in Nat /\ p = q + 1000002 + (p - (q + 1000002))
      BY <1>5, <2>1
    <3> QED
      BY <3>1
  <2>3. n * p = n * q + n + 1000000 * n + n + n * k
    BY <1>5, <2>2
  <2>4. n * p \in Nat /\ n * q \in Nat /\ n * k \in Nat
    BY <1>5, <2>2
  <2> QED
    BY <1>2, <1>3, <1>4, <2>3, <2>4
<1>7. Radicand(s, n) = p + 960400 /\ Radicand(s - 1, n) = q + 960400
  BY DEF Radicand, a, b, p, q
<1> QED
  BY <1>5, <1>6, <1>7

\* The larger of 0 and a number, the smaller of 1000 and a number.
LEMMA CutOff ==
  /\ \A x \in Int : Max({0, x}) = IF x > 0 THEN x ELSE 0
  /\ \A x \in Int : Min({1000, x}) = IF x < 1000 THEN x ELSE 1000
<1>1. ASSUME NEW x \in Int PROVE Max({0, x}) = IF x > 0 THEN x ELSE 0
  <2> DEFINE m == IF x > 0 THEN x ELSE 0
  <2>1. m \in {0, x} /\ \A y \in {0, x} : m >= y
    OBVIOUS
  <2>2. \A k \in {0, x} : (\A y \in {0, x} : k >= y) => k = m
    OBVIOUS
  <2> HIDE DEF m
  <2>3. Max({0, x}) = m
    BY <2>1, <2>2 DEF Max
  <2> QED
    BY <2>3 DEF m
<1>2. ASSUME NEW x \in Int PROVE Min({1000, x}) = IF x < 1000 THEN x ELSE 1000
  <2> DEFINE m == IF x < 1000 THEN x ELSE 1000
  <2>1. m \in {1000, x} /\ \A y \in {1000, x} : m =< y
    OBVIOUS
  <2>2. \A k \in {1000, x} : (\A y \in {1000, x} : k =< y) => k = m
    OBVIOUS
  <2> HIDE DEF m
  <2>3. Min({1000, x}) = m
    BY <2>1, <2>2 DEF Min
  <2> QED
    BY <2>3 DEF m
<1> QED
  BY <1>1, <1>2

\* A margin is a number and rises by less than a success counts.
LEMMA MarginRises ==
  ASSUME NEW n \in Nat \ {0}, NEW s \in 1..n
  PROVE  /\ Margin(s, n) \in Nat /\ Margin(s - 1, n) \in Nat
         /\ Margin(s, n) <= Margin(s - 1, n) + 1000
<1> DEFINE p == Root(Radicand(s, n))
           q == Root(Radicand(s - 1, n))
<1>1. p \in Nat /\ q \in Nat /\ p <= q + 500
  BY RadicandGrows, RootIs, RootGrowsSlowly
<1> HIDE DEF p, q
<1>2. /\ (1960 * p) \div 1000 \in Nat /\ (1960 * q) \div 1000 \in Nat
      /\ (1960 * p) \div 1000 <= (1960 * q) \div 1000 + 1000
  BY <1>1
<1> QED
  BY <1>2 DEF Margin, p, q

\* A number over the denominator is a number, and the order is kept.
LEMMA OverRises ==
  ASSUME NEW n \in Nat \ {0}, NEW x \in Int, NEW y \in Int, x <= y
  PROVE  Over(x, n) \in Int /\ Over(y, n) \in Int /\ Over(x, n) <= Over(y, n)
<1> DEFINE d == 1000 * n + 3842
           a == 1000 * x
           b == 1000 * y
<1>1. a \in Int /\ b \in Int /\ a <= b /\ d \in Nat \ {0}
  OBVIOUS
<1> HIDE DEF d, a, b
<1>2. a \div d \in Int /\ b \div d \in Int /\ a \div d <= b \div d
  BY <1>1, QuotientRises
<1> QED
  BY <1>2 DEF Over, a, b, d

\* The lower end of the interval does not fall when there is a success more.
LEMMA WilsonLowRises ==
  ASSUME NEW n \in Nat \ {0}, NEW s \in 1..n
  PROVE  /\ WilsonOf(s - 1, n).low \in Int /\ WilsonOf(s, n).low \in Int
         /\ WilsonOf(s - 1, n).low <= WilsonOf(s, n).low
<1> DEFINE x == Center(s - 1) - Margin(s - 1, n)
           y == Center(s) - Margin(s, n)
<1>1. x \in Int /\ y \in Int /\ x <= y
  <2>1. /\ Margin(s, n) \in Nat /\ Margin(s - 1, n) \in Nat
        /\ Margin(s, n) <= Margin(s - 1, n) + 1000
    BY MarginRises
  <2>2. Center(s) \in Nat /\ Center(s - 1) \in Nat /\ Center(s) = Center(s - 1) + 1000
    BY DEF Center
  <2> QED
    BY <2>1, <2>2
<1>2. WilsonOf(s - 1, n).low = Max({0, Over(x, n)}) /\ WilsonOf(s, n).low = Max({0, Over(y, n)})
  BY DEF WilsonOf
<1> HIDE DEF x, y
<1>3. Over(x, n) \in Int /\ Over(y, n) \in Int /\ Over(x, n) <= Over(y, n)
  BY <1>1, OverRises
<1> QED
  BY <1>2, <1>3, CutOff

\* Both ends are numbers.
LEMMA WilsonType ==
  ASSUME NEW n \in Nat \ {0}, NEW s \in 0..n
  PROVE  WilsonOf(s, n).low \in Int /\ WilsonOf(s, n).high \in Int
<1> DEFINE x == Center(s) - Margin(s, n)
           y == Center(s) + Margin(s, n)
<1>1. Margin(s, n) \in Nat
  <2>1. CASE s = 0
    <3>1. 1 \in 1..n /\ 1 - 1 = 0
      OBVIOUS
    <3> QED
      BY <2>1, <3>1, MarginRises
  <2>2. CASE s # 0
    <3>1. s \in 1..n
      BY <2>2
    <3> QED
      BY <3>1, MarginRises
  <2> QED
    BY <2>1, <2>2
<1>2. x \in Int /\ y \in Int
  BY <1>1 DEF Center
<1>3. /\ WilsonOf(s, n).low = Max({0, Over(x, n)})
      /\ WilsonOf(s, n).high = Min({1000, Over(y, n)})
  BY DEF WilsonOf
<1> HIDE DEF x, y
<1>4. Over(x, n) \in Int /\ Over(y, n) \in Int
  BY <1>2, OverRises
<1> QED
  BY <1>3, <1>4, CutOff

-----------------------------------------------------------------------------
(* The percentile *)

\* Finitely many events have a slowest one: the one that most are no slower than.
LEMMA Slowest ==
  ASSUME NEW S, IsFiniteSet(S), S # {}, \A e \in S : e.latency \in Nat
  PROVE  \E f \in S : \A g \in S : g.latency <= f.latency
<1> DEFINE below(f) == {g \in S : g.latency <= f.latency}
           above(f) == Cardinality(S) - Cardinality(below(f))
           T == {above(f) : f \in S}
<1>1. \A f \in S : /\ IsFiniteSet(below(f)) /\ Cardinality(below(f)) \in Nat
                   /\ Cardinality(S) \in Nat /\ Cardinality(below(f)) <= Cardinality(S)
  <2> SUFFICES ASSUME NEW f \in S
               PROVE  /\ IsFiniteSet(below(f)) /\ Cardinality(below(f)) \in Nat
                      /\ Cardinality(S) \in Nat /\ Cardinality(below(f)) <= Cardinality(S)
    OBVIOUS
  <2>1. below(f) \in SUBSET S
    OBVIOUS
  <2> HIDE DEF below
  <2> QED
    BY <2>1, FS_Subset, FS_CardinalityType
<1>2. \A f \in S : above(f) \in Nat
  <2> HIDE DEF below
  <2> QED
    BY <1>1
<1>3. PICK m \in T : \A k \in T : m <= k
  <2>1. T \in SUBSET Nat
    BY <1>2
  <2>2. PICK k : k \in T
    OBVIOUS
  <2> HIDE DEF T
  <2> QED
    BY <2>1, <2>2, Smallest
<1>4. PICK f \in S : m = above(f)
  BY <1>3
<1>5. SUFFICES ASSUME NEW g \in S, ~(g.latency <= f.latency) PROVE FALSE
  OBVIOUS
<1>6. g.latency \in Nat /\ f.latency \in Nat /\ f.latency < g.latency
  BY <1>5
<1>7. below(f) \in SUBSET below(g) /\ below(f) # below(g)
  <2>1. g \in below(g) /\ g \notin below(f)
    BY <1>5, <1>6
  <2>2. \A h \in below(f) : h \in below(g)
    BY <1>6
  <2> HIDE DEF below
  <2> QED
    BY <2>1, <2>2
<1>8. above(g) \in T
  OBVIOUS
<1> HIDE DEF T
<1>9. above(f) <= above(g)
  BY <1>3, <1>4, <1>8
<1> HIDE DEF below
<1>10. Cardinality(below(f)) < Cardinality(below(g))
  BY <1>1, <1>7, FS_Subset
<1> QED
  BY <1>1, <1>9, <1>10

\* The events no slower than a latency, and the index of the percentile.
Below(S, l) == {g \in S : g.latency <= l}
IndexOf(S) == ((Cardinality(S) - 1) * 95) \div 100

\* Of finitely many, finitely many are no slower.
LEMMA BelowType ==
  ASSUME NEW S, IsFiniteSet(S), NEW l
  PROVE  /\ IsFiniteSet(Below(S, l)) /\ Cardinality(Below(S, l)) \in Nat
         /\ Cardinality(Below(S, l)) <= Cardinality(S)
<1>1. Below(S, l) \in SUBSET S
  BY DEF Below
<1> QED
  BY <1>1, FS_Subset, FS_CardinalityType

\* More events than the index are no slower than the percentile, and it is the
\* smallest such latency.
LEMMA PercentileIs ==
  ASSUME NEW S, IsFiniteSet(S), S # {}, \A e \in S : e.latency \in Nat
  PROVE  /\ P95(S) \in Nat
         /\ Cardinality(Below(S, P95(S))) > IndexOf(S)
         /\ \A l \in Nat : Cardinality(Below(S, l)) > IndexOf(S) => P95(S) <= l
<1> DEFINE counted == {f \in S : Cardinality(Below(S, f.latency)) > IndexOf(S)}
           T == {e.latency : e \in counted}
<1>1. IndexOf(S) \in Nat /\ IndexOf(S) < Cardinality(S)
  <2>1. Cardinality(S) \in Nat /\ Cardinality(S) # 0
    BY FS_CardinalityType, FS_EmptySet
  <2> QED
    BY <2>1 DEF IndexOf
<1>2. ASSUME NEW l \in Nat, Cardinality(Below(S, l)) > IndexOf(S)
      PROVE  \E k \in T : k <= l
  <2>1. IsFiniteSet(Below(S, l)) /\ Cardinality(Below(S, l)) \in Nat
    BY BelowType
  <2>2. Below(S, l) # {}
    BY <1>1, <1>2, <2>1, FS_EmptySet
  <2>3. \A g \in Below(S, l) : g \in S /\ g.latency \in Nat /\ g.latency <= l
    BY DEF Below
  <2>4. PICK f \in Below(S, l) : \A g \in Below(S, l) : g.latency <= f.latency
    BY <2>1, <2>2, <2>3, Slowest
  <2>5. Below(S, f.latency) = Below(S, l)
    <3>1. \A g \in S : g.latency <= f.latency => g.latency <= l
      BY <2>3
    <3> QED
      BY <2>4, <3>1 DEF Below
  <2>6. f \in counted
    BY <1>2, <2>3, <2>5
  <2> QED
    BY <2>3, <2>6
<1>3. T # {}
  <2>1. PICK f \in S : \A g \in S : g.latency <= f.latency
    BY Slowest
  <2>2. Below(S, f.latency) = S
    BY <2>1 DEF Below
  <2>3. f \in counted
    BY <1>1, <2>1, <2>2
  <2> QED
    BY <2>3
<1>4. T \in SUBSET Nat
  OBVIOUS
<1>5. P95(S) = Min(T)
  BY DEF P95, Below, IndexOf
<1> HIDE DEF T
<1>6. Min(T) \in T /\ \A k \in T : Min(T) <= k
  <2>1. \E m \in T : \A k \in T : m <= k
    BY <1>3, <1>4, Smallest
  <2> QED
    BY <2>1 DEF Min
<1>7. P95(S) \in T /\ \A k \in T : P95(S) <= k
  BY <1>5, <1>6
<1>8. P95(S) \in Nat
  BY <1>4, <1>7
<1>9. PICK f \in counted : P95(S) = f.latency
  BY <1>7 DEF T
<1>10. Cardinality(Below(S, P95(S))) > IndexOf(S)
  BY <1>9
<1>11. ASSUME NEW l \in Nat, Cardinality(Below(S, l)) > IndexOf(S) PROVE P95(S) <= l
  <2>1. PICK k \in T : k <= l
    BY <1>2, <1>11
  <2> QED
    BY <1>4, <1>7, <1>8, <2>1
<1> QED
  BY <1>8, <1>10, <1>11

-----------------------------------------------------------------------------
(* A worse event *)

\* An event of the same arm of the same task that is in no way better.
NoBetter(e, w) ==
  /\ w.run = e.run /\ w.task = e.task /\ w.arm = e.arm
  /\ w.success => e.success
  /\ e.cost <= w.cost /\ e.latency <= w.latency
  /\ e.fallback => w.fallback

\* Worse events are events, and no better.
LEMMA WorseIsNoBetter ==
  ASSUME NEW e \in Events, NEW w \in Worse(e)
  PROVE  w \in Events /\ NoBetter(e, w)
<1>1. /\ e.run \in 1..Budget /\ e.task \in Tasks /\ e.arm \in Arms /\ e.success \in BOOLEAN
      /\ e.cost \in Nat /\ e.latency \in Nat /\ e.fallback \in BOOLEAN
  BY DEF Events
<1>2. CASE w = [e EXCEPT !.success = FALSE]
  <2>1. /\ w \in Events /\ w.success = FALSE
        /\ w.run = e.run /\ w.task = e.task /\ w.arm = e.arm
        /\ w.cost = e.cost /\ w.latency = e.latency /\ w.fallback = e.fallback
    BY <1>2 DEF Events
  <2> QED
    BY <1>1, <2>1 DEF NoBetter
<1>3. CASE w = [e EXCEPT !.latency = @ + 600]
  <2>1. /\ w \in Events /\ w.success = e.success
        /\ w.run = e.run /\ w.task = e.task /\ w.arm = e.arm
        /\ w.cost = e.cost /\ w.latency = e.latency + 600 /\ w.fallback = e.fallback
    BY <1>3 DEF Events
  <2> QED
    BY <1>1, <2>1 DEF NoBetter
<1>4. CASE w = [e EXCEPT !.fallback = TRUE]
  <2>1. /\ w \in Events /\ w.success = e.success
        /\ w.run = e.run /\ w.task = e.task /\ w.arm = e.arm
        /\ w.cost = e.cost /\ w.latency = e.latency /\ w.fallback = TRUE
    BY <1>4 DEF Events
  <2> QED
    BY <1>1, <2>1 DEF NoBetter
<1>5. CASE w = [e EXCEPT !.cost = @ + 60]
  <2>1. /\ w \in Events /\ w.success = e.success
        /\ w.run = e.run /\ w.task = e.task /\ w.arm = e.arm
        /\ w.cost = e.cost + 60 /\ w.latency = e.latency /\ w.fallback = e.fallback
    BY <1>5 DEF Events
  <2> QED
    BY <1>1, <2>1 DEF NoBetter
<1> QED
  BY <1>2, <1>3, <1>4, <1>5 DEF Worse

\* One event in the place of another.
Replaced(S, e, w) == (S \ {e}) \cup {w}

\* It leaves as many.
LEMMA ReplacedSize ==
  ASSUME NEW S, IsFiniteSet(S), NEW e \in S, NEW w, w \notin S \ {e}
  PROVE  /\ IsFiniteSet(S \ {e}) /\ IsFiniteSet(Replaced(S, e, w))
         /\ Cardinality(S) \in Nat /\ Cardinality(Replaced(S, e, w)) = Cardinality(S)
<1>1. /\ IsFiniteSet(S \ {e}) /\ Cardinality(S \ {e}) = Cardinality(S) - 1
      /\ Cardinality(S) \in Nat
  BY FS_RemoveElement, FS_CardinalityType
<1>2. /\ IsFiniteSet((S \ {e}) \cup {w})
      /\ Cardinality((S \ {e}) \cup {w}) = Cardinality(S \ {e}) + 1
  BY <1>1, FS_AddElement
<1> QED
  BY <1>1, <1>2 DEF Replaced

\* An event more is one more to count.
LEMMA OneMore ==
  ASSUME NEW A, IsFiniteSet(A), NEW e, e \notin A, NEW w, w \notin A
  PROVE  /\ Cardinality(A) \in Nat
         /\ Cardinality(A \cup {e}) = Cardinality(A) + 1
         /\ Cardinality(A \cup {w}) = Cardinality(A) + 1
BY FS_AddElement, FS_CardinalityType

\* With a worse event, successes do not rise and fall by at most one, nor do
\* fallbacks, costs and the percentile of the latencies fall.
LEMMA RowsWorsen ==
  ASSUME NEW S, IsFiniteSet(S), NEW e \in S, NEW w, w \notin S \ {e}, NoBetter(e, w),
         \A x \in S \cup {w} : x.cost \in Nat /\ x.latency \in Nat
  PROVE  LET R == Replaced(S, e, w)
             fallbacks(rows) == Cardinality({x \in rows : x.fallback})
         IN  /\ Successes(S) \in Nat /\ Successes(R) \in Nat
             /\ Successes(R) <= Successes(S) /\ Successes(S) <= Successes(R) + 1
             /\ fallbacks(S) \in Nat /\ fallbacks(R) \in Nat
             /\ fallbacks(S) <= fallbacks(R)
             /\ TotalCost(S) \in Nat /\ TotalCost(R) \in Nat
             /\ TotalCost(S) <= TotalCost(R)
             /\ P95(S) \in Nat /\ P95(R) \in Nat
             /\ P95(S) <= P95(R)
<1> DEFINE R == Replaced(S, e, w)
           rest == S \ {e}
<1>1. /\ IsFiniteSet(rest) /\ IsFiniteSet(R)
      /\ Cardinality(S) \in Nat /\ Cardinality(R) = Cardinality(S)
  BY ReplacedSize
<1>2. /\ e \notin rest /\ w \notin rest
      /\ S = rest \cup {e} /\ R = rest \cup {w}
      /\ rest = R \ {w}
  BY DEF Replaced
<1> HIDE DEF R, rest
<1>3. /\ Successes(S) \in Nat /\ Successes(R) \in Nat
      /\ Successes(R) <= Successes(S) /\ Successes(S) <= Successes(R) + 1
  <2> DEFINE A == {x \in rest : x.success}
             B == {x \in S : x.success}
             C == {x \in R : x.success}
  <2>1. IsFiniteSet(A)
    BY <1>1, FS_Subset
  <2>2. e \notin A /\ w \notin A
    BY <1>2
  <2>3. (B = A /\ ~e.success) \/ (B = A \cup {e} /\ e.success)
    BY <1>2, Zenon
  <2>4. (C = A /\ ~w.success) \/ (C = A \cup {w} /\ w.success)
    BY <1>2, Zenon
  <2>5. B = A => C = A
    BY <2>2, <2>3, <2>4, Zenon DEF NoBetter
  <2>6. Successes(S) = Cardinality(B) /\ Successes(R) = Cardinality(C)
    BY DEF Successes
  <2> HIDE DEF A, B, C
  <2>7. /\ Cardinality(A) \in Nat
       /\ Cardinality(A \cup {e}) = Cardinality(A) + 1
       /\ Cardinality(A \cup {w}) = Cardinality(A) + 1
    BY <2>1, <2>2, OneMore
  <2>8. \/ Cardinality(B) = Cardinality(A) /\ Cardinality(C) = Cardinality(A)
        \/ Cardinality(B) = Cardinality(A \cup {e}) /\ Cardinality(C) = Cardinality(A)
        \/ Cardinality(B) = Cardinality(A \cup {e}) /\ Cardinality(C) = Cardinality(A \cup {w})
    BY <2>3, <2>4, <2>5, Zenon
  <2> QED
    BY <2>6, <2>7, <2>8
<1>4. LET B == {x \in S : x.fallback}
          C == {x \in R : x.fallback}
      IN  /\ Cardinality(B) \in Nat /\ Cardinality(C) \in Nat
          /\ Cardinality(B) <= Cardinality(C)
  <2> DEFINE A == {x \in rest : x.fallback}
             B == {x \in S : x.fallback}
             C == {x \in R : x.fallback}
  <2>1. IsFiniteSet(A)
    BY <1>1, FS_Subset
  <2>2. e \notin A /\ w \notin A
    BY <1>2
  <2>3. (B = A /\ ~e.fallback) \/ (B = A \cup {e} /\ e.fallback)
    BY <1>2, Zenon
  <2>4. (C = A /\ ~w.fallback) \/ (C = A \cup {w} /\ w.fallback)
    BY <1>2, Zenon
  <2>5. C = A => B = A
    BY <2>2, <2>3, <2>4, Zenon DEF NoBetter
  <2> HIDE DEF A, B, C
  <2>6. /\ Cardinality(A) \in Nat
       /\ Cardinality(A \cup {e}) = Cardinality(A) + 1
       /\ Cardinality(A \cup {w}) = Cardinality(A) + 1
    BY <2>1, <2>2, OneMore
  <2>7. \/ Cardinality(B) = Cardinality(A) /\ Cardinality(C) = Cardinality(A)
        \/ Cardinality(B) = Cardinality(A) /\ Cardinality(C) = Cardinality(A \cup {w})
        \/ Cardinality(B) = Cardinality(A \cup {e}) /\ Cardinality(C) = Cardinality(A \cup {w})
    BY <2>3, <2>4, <2>5, Zenon
  <2>8. /\ Cardinality(B) \in Nat /\ Cardinality(C) \in Nat
        /\ Cardinality(B) <= Cardinality(C)
    BY <2>6, <2>7
  <2> QED
    BY <2>8 DEF B, C
<1>5. /\ TotalCost(S) \in Nat /\ TotalCost(R) \in Nat
      /\ TotalCost(S) <= TotalCost(R)
  <2>1. e \in S /\ w \in R /\ \A x \in R : x.cost \in Nat
    BY <1>2
  <2>2. TotalCost(S \ {e}) \in Nat /\ TotalCost(S) = e.cost + TotalCost(S \ {e})
    BY TotalCostTakes
  <2>3. TotalCost(R) = w.cost + TotalCost(R \ {w})
    BY <1>1, <2>1, TotalCostTakes
  <2>4. S \ {e} = R \ {w}
    BY <1>2
  <2>5. e.cost \in Nat /\ w.cost \in Nat /\ e.cost <= w.cost
    BY DEF NoBetter
  <2> QED
    BY <2>2, <2>3, <2>4, <2>5
<1>6. /\ P95(S) \in Nat /\ P95(R) \in Nat
      /\ P95(S) <= P95(R)
  <2>1. /\ S # {} /\ R # {}
        /\ \A x \in S : x.latency \in Nat
        /\ \A x \in R : x.latency \in Nat
    BY <1>2
  <2>2. /\ P95(S) \in Nat
        /\ \A l \in Nat : Cardinality(Below(S, l)) > IndexOf(S) => P95(S) <= l
    BY <2>1, PercentileIs
  <2>3. P95(R) \in Nat /\ Cardinality(Below(R, P95(R))) > IndexOf(R)
    BY <1>1, <2>1, PercentileIs
  <2>4. IndexOf(R) = IndexOf(S) /\ IndexOf(S) \in Int
    BY <1>1 DEF IndexOf
  <2>5. ASSUME NEW l \in Nat PROVE Cardinality(Below(R, l)) <= Cardinality(Below(S, l))
    <3> DEFINE A == Below(rest, l)
               B == Below(S, l)
               C == Below(R, l)
    <3>1. IsFiniteSet(A)
      BY <1>1, BelowType
    <3>2. e \notin A /\ w \notin A
      BY <1>2 DEF Below
    <3>3. (B = A /\ ~(e.latency <= l)) \/ (B = A \cup {e} /\ e.latency <= l)
      BY <1>2, Zenon DEF Below
    <3>4. (C = A /\ ~(w.latency <= l)) \/ (C = A \cup {w} /\ w.latency <= l)
      BY <1>2, Zenon DEF Below
    <3>5. w.latency <= l => e.latency <= l
      <4>1. e.latency \in Nat /\ w.latency \in Nat /\ e.latency <= w.latency
        BY DEF NoBetter
      <4> QED
        BY <4>1
    <3>6. B = A => C = A
      BY <3>2, <3>3, <3>4, <3>5, Zenon
    <3> HIDE DEF A, B, C
    <3>7. /\ Cardinality(A) \in Nat
         /\ Cardinality(A \cup {e}) = Cardinality(A) + 1
         /\ Cardinality(A \cup {w}) = Cardinality(A) + 1
      BY <3>1, <3>2, OneMore
    <3>8. \/ Cardinality(B) = Cardinality(A) /\ Cardinality(C) = Cardinality(A)
          \/ Cardinality(B) = Cardinality(A \cup {e}) /\ Cardinality(C) = Cardinality(A)
          \/ Cardinality(B) = Cardinality(A \cup {e}) /\ Cardinality(C) = Cardinality(A \cup {w})
      BY <3>3, <3>4, <3>6, Zenon
    <3>9. Cardinality(C) <= Cardinality(B)
      BY <3>7, <3>8
    <3> QED
      BY <3>9 DEF B, C
  <2>6. Cardinality(Below(S, P95(R))) > IndexOf(S)
    <3>1. Cardinality(Below(R, P95(R))) \in Nat /\ Cardinality(Below(S, P95(R))) \in Nat
      BY <1>1, BelowType
    <3> QED
      BY <2>3, <2>4, <2>5, <3>1
  <2> QED
    BY <2>2, <2>3, <2>6
<1> QED
  BY <1>3, <1>4, <1>5, <1>6 DEF R

\* What blocks a segment of a type.
LEMMA BlockedIs ==
  ASSUME NEW E, NEW type
  PROVE  LET baseline == Rows(E, type, "baseline")
             compressed == Rows(E, type, "compressed")
         IN  Blocked(Segment(E, type)) <=>
               \/ Cardinality(Paired(E, type)) < MinimumPairedTasks
               \/ SuccessDeltaLow(baseline, compressed) < -MaximumDegradation
               \/ ~(Successes(compressed) > 0)
               \/ ~CostImproves(baseline, compressed)
BY DEF Blocked, Segment

\* What makes it cautious.
LEMMA CautiousIs ==
  ASSUME NEW E, NEW type
  PROVE  LET baseline == Rows(E, type, "baseline")
             compressed == Rows(E, type, "compressed")
         IN  Cautious(Segment(E, type)) <=>
               \/ P95(compressed) - P95(baseline) > MaximumLatencyIncrease
               \/ FallbackHigh(compressed)
BY DEF Cautious, Segment

\* Its value is the type.
LEMMA ValueIs ==
  ASSUME NEW E, NEW type
  PROVE  Segment(E, type).value = type
BY DEF Segment

\* Of one run, an arm of a segment has at most one event of a task.
LEMMA RowsBounded ==
  ASSUME NEW E \in SUBSET Events, IsFiniteSet(E), OneRun(E), NEW type, NEW arm
  PROVE  /\ IsFiniteSet(Rows(E, type, arm)) /\ Cardinality(Tasks) \in Nat
         /\ Cardinality(Rows(E, type, arm)) \in Nat
         /\ Cardinality(Rows(E, type, arm)) <= Cardinality(Tasks)
         /\ Successes(Rows(E, type, arm)) \in 0..Cardinality(Rows(E, type, arm))
<1> DEFINE rows == Rows(E, type, arm)
           task == [e \in rows |-> e.task]
           won == {e \in rows : e.success}
<1>1. rows \in SUBSET E /\ won \in SUBSET rows
  BY DEF Rows
<1>2. IsFiniteSet(rows) /\ IsFiniteSet(Tasks)
  BY <1>1, FS_Subset, RolloutRuleAssumption
<1>3. task \in Injection(rows, Tasks)
  <2>1. \A e \in rows : e.task \in Tasks
    BY DEF Rows, Events
  <2>2. \A e, f \in rows : e.task = f.task => e = f
    BY DEF Rows, OneRun
  <2> HIDE DEF rows
  <2>3. task \in [rows -> Tasks] /\ \A e, f \in rows : task[e] = task[f] => e = f
    BY <2>1, <2>2
  <2> HIDE DEF task
  <2> QED
    BY <2>3 DEF Injection, IsInjective
<1>4. Successes(rows) = Cardinality(won)
  BY DEF Successes
<1> HIDE DEF rows, task, won
<1>5. Cardinality(rows) <= Cardinality(Tasks)
  BY <1>2, <1>3, FS_Injection
<1>6. Cardinality(rows) \in Nat /\ Cardinality(Tasks) \in Nat
  BY <1>2, FS_CardinalityType
<1>7. Cardinality(won) \in Nat /\ Cardinality(won) <= Cardinality(rows)
  BY <1>1, <1>2, FS_Subset, FS_CardinalityType
<1> QED
  BY <1>2, <1>4, <1>5, <1>6, <1>7 DEF rows

\* An event in the place of another of the same arm of the same task leaves
\* the pairs as they are.
LEMMA PairsStay ==
  ASSUME NEW E, NEW e \in E, NEW w, w.task = e.task, w.arm = e.arm, NEW type
  PROVE  Paired(Replaced(E, e, w), type) = Paired(E, type)
<1> DEFINE has(S, t, arm) == \E f \in S : f.task = t /\ f.arm = arm
           R == Replaced(E, e, w)
<1>1. ASSUME NEW t, NEW arm PROVE has(R, t, arm) <=> has(E, t, arm)
  BY Zenon DEF Replaced
<1>2. ASSUME NEW S
      PROVE  Paired(S, type)
               = {t \in Tasks : TaskType[t] = type /\ \A arm \in Arms : has(S, t, arm)}
  BY Zenon DEF Paired
<1> HIDE DEF has, R
<1>3. {t \in Tasks : TaskType[t] = type /\ \A arm \in Arms : has(R, t, arm)}
        = {t \in Tasks : TaskType[t] = type /\ \A arm \in Arms : has(E, t, arm)}
  BY <1>1
<1> QED
  BY <1>2, <1>3, Zenon DEF R

\* It takes the place among the rows of its arm, if its task is paired, and
\* leaves those of another arm alone.
LEMMA RowsStay ==
  ASSUME NEW E, NEW e \in E, NEW w, w.task = e.task, w.arm = e.arm, NEW type, NEW arm
  PROVE  /\ arm # e.arm \/ e.task \notin Paired(E, type) =>
              Rows(Replaced(E, e, w), type, arm) = Rows(E, type, arm)
         /\ e.task \in Paired(E, type) =>
              /\ e \in Rows(E, type, e.arm)
              /\ Rows(Replaced(E, e, w), type, e.arm) = Replaced(Rows(E, type, e.arm), e, w)
<1>1. Paired(Replaced(E, e, w), type) = Paired(E, type)
  BY PairsStay
<1>2. ASSUME arm # e.arm \/ e.task \notin Paired(E, type)
      PROVE  Rows(Replaced(E, e, w), type, arm) = Rows(E, type, arm)
  BY <1>1, <1>2, Zenon DEF Rows, Replaced
<1>3. ASSUME e.task \in Paired(E, type)
      PROVE  /\ e \in Rows(E, type, e.arm)
             /\ Rows(Replaced(E, e, w), type, e.arm) = Replaced(Rows(E, type, e.arm), e, w)
  BY <1>1, <1>3, Zenon DEF Rows, Replaced
<1> QED
  BY <1>2, <1>3

\* If the cost improves enough although fewer tasks succeed and more is spent,
\* it does so without that.
LEMMA ImprovementKept ==
  ASSUME NEW b \in Nat \ {0}, NEW won \in Nat \ {0}, NEW m \in Nat,
         NEW s \in Nat, NEW c \in Nat, NEW r \in Nat \ {0}, NEW d \in Nat, r <= s, c <= d,
         1000 * (b * r - d * won) >= m * b * r
  PROVE  1000 * (b * s - c * won) >= m * b * s
<1>1. PICK i \in Nat : s = r + i
  <2>1. s - r \in Nat /\ s = r + (s - r)
    OBVIOUS
  <2> QED
    BY <2>1
<1>2. PICK j \in Nat : d = c + j
  <2>1. d - c \in Nat /\ d = c + (d - c)
    OBVIOUS
  <2> QED
    BY <2>1
<1> DEFINE x == b * r
           k == b * i
           y == c * won
           z == j * won
<1>3. x \in Nat \ {0} /\ k \in Nat /\ y \in Nat /\ z \in Nat
  <2>1. b * r \in Nat \ {0}
    BY Product
  <2>2. \A u, v \in Nat : u * v \in Nat
    OBVIOUS
  <2>3. b \in Nat /\ won \in Nat
    OBVIOUS
  <2> QED
    BY <2>1, <2>2, <2>3
<1>4. b * s = x + k /\ d * won = y + z /\ m * b * r = m * x
  BY <1>1, <1>2
<1>5. m * b * s = m * (x + k)
  BY <1>4
<1> HIDE DEF x, k, y, z
<1>6. 1000 * (x - (y + z)) >= m * x
  BY <1>4 DEF x
<1>7. m <= 1000
  <2>1. SUFFICES ASSUME m >= 1001 PROVE FALSE
    OBVIOUS
  <2>2. PICK n \in Nat : m = 1001 + n
    <3>1. m - 1001 \in Nat /\ m = 1001 + (m - 1001)
      BY <2>1
    <3> QED
      BY <3>1
  <2>3. m * x = 1001 * x + n * x /\ n * x \in Nat
    BY <1>3, <2>2
  <2> QED
    BY <1>3, <1>6, <2>3
<1>8. m * k <= 1000 * k
  <2>1. PICK n \in Nat : 1000 = m + n
    <3>1. 1000 - m \in Nat /\ 1000 = m + (1000 - m)
      BY <1>7
    <3> QED
      BY <3>1
  <2>2. 1000 * k = m * k + n * k /\ m * k \in Nat /\ n * k \in Nat
    BY <1>3, <2>1
  <2> QED
    BY <2>2
<1>9. m * (x + k) = m * x + m * k /\ m * x \in Nat /\ m * k \in Nat
  BY <1>3
<1>10. 1000 * ((x + k) - y) >= m * (x + k)
  BY <1>3, <1>6, <1>8, <1>9
<1>11. b * s - c * won = (x + k) - y
  BY <1>4 DEF y
<1> QED
  BY <1>5, <1>10, <1>11

\* The lower end of the difference does not rise with a success less.
LEMMA DeltaLowFalls ==
  ASSUME NEW B, NEW S, NEW R, Cardinality(Tasks) \in Nat,
         Cardinality(B) \in 1..Cardinality(Tasks), Cardinality(S) \in 1..Cardinality(Tasks),
         Cardinality(R) = Cardinality(S),
         Successes(B) \in 0..Cardinality(B), Successes(S) \in 0..Cardinality(S),
         Successes(R) \in Nat, Successes(R) <= Successes(S), Successes(S) <= Successes(R) + 1
  PROVE  /\ SuccessDeltaLow(B, S) \in Int /\ SuccessDeltaLow(B, R) \in Int
         /\ SuccessDeltaLow(B, R) <= SuccessDeltaLow(B, S)
<1> DEFINE n == Cardinality(S)
           s == Successes(S)
           r == Successes(R)
           high == WilsonOf(Successes(B), Cardinality(B)).high
<1>1. n \in Nat \ {0} /\ s \in 0..n /\ r \in 0..n /\ (r = s \/ (r = s - 1 /\ s \in 1..n))
  OBVIOUS
<1>2. high \in Int
  BY WilsonType
<1>3. \A k \in 1..Cardinality(Tasks) : \A i \in 0..k : Wilson[k][i] = WilsonOf(i, k)
  BY DEF Wilson
<1>4. /\ SuccessDeltaLow(B, S) = WilsonOf(s, n).low - high
      /\ SuccessDeltaLow(B, R) = WilsonOf(r, n).low - high
  <2>1. /\ Wilson[Cardinality(S)][Successes(S)] = WilsonOf(s, n)
        /\ Wilson[Cardinality(R)][Successes(R)] = WilsonOf(r, n)
        /\ Wilson[Cardinality(B)][Successes(B)] = WilsonOf(Successes(B), Cardinality(B))
    BY <1>1, <1>3
  <2> QED
    BY <2>1 DEF SuccessDeltaLow
<1> HIDE DEF n, s, r, high
<1>5. /\ WilsonOf(s, n).low \in Int /\ WilsonOf(r, n).low \in Int
      /\ WilsonOf(r, n).low <= WilsonOf(s, n).low
  <2>1. WilsonOf(s, n).low \in Int /\ WilsonOf(r, n).low \in Int
    BY <1>1, WilsonType
  <2>2. CASE r = s
    BY <2>1, <2>2
  <2>3. CASE r = s - 1 /\ s \in 1..n
    BY <1>1, <2>1, <2>3, WilsonLowRises
  <2> QED
    BY <1>1, <2>2, <2>3
<1> QED
  BY <1>2, <1>4, <1>5

\* Of one run, with one compressed event made worse, a segment that is not
\* blocked or not cautious was not before either.
LEMMA SegmentWorsens ==
  ASSUME NEW E \in SUBSET Events, IsFiniteSet(E), OneRun(E),
         NEW e \in E, e.arm = "compressed", NEW w \in Events, NoBetter(e, w),
         NEW type, Paired(E, type) # {}
  PROVE  LET R == Replaced(E, e, w)
         IN  /\ Blocked(Segment(E, type)) => Blocked(Segment(R, type))
             /\ Cautious(Segment(E, type)) => Cautious(Segment(R, type))
<1> DEFINE R == Replaced(E, e, w)
           B == Rows(E, type, "baseline")
           C == Rows(E, type, "compressed")
           D == Rows(R, type, "compressed")
<1>1. w.task = e.task /\ w.arm = e.arm /\ w \notin E \ {e}
  BY DEF NoBetter, OneRun
<1>2. Paired(R, type) = Paired(E, type)
  BY <1>1, PairsStay
<1>3. Rows(R, type, "baseline") = B
  <2>1. "baseline" # e.arm
    OBVIOUS
  <2> QED
    BY <1>1, <2>1, RowsStay
<1>4. CASE e.task \notin Paired(E, type)
  <2>1. D = C
    BY <1>1, <1>4, RowsStay
  <2>2. /\ Blocked(Segment(R, type)) <=> Blocked(Segment(E, type))
        /\ Cautious(Segment(R, type)) <=> Cautious(Segment(E, type))
    BY <1>2, <1>3, <2>1, BlockedIs, CautiousIs, Zenon
  <2> QED
    BY <2>2
<1>5. CASE e.task \in Paired(E, type)
  <2>1. e \in C /\ D = Replaced(C, e, w) /\ w \notin C \ {e}
    <3>1. e \in C /\ D = Replaced(C, e, w)
      BY <1>1, <1>5, RowsStay
    <3>2. C \in SUBSET E
      BY DEF Rows
    <3> QED
      BY <1>1, <3>1, <3>2
  <2>2. /\ IsFiniteSet(C) /\ Cardinality(Tasks) \in Nat
        /\ Cardinality(C) \in Nat /\ Cardinality(C) <= Cardinality(Tasks)
        /\ Successes(C) \in 0..Cardinality(C)
        /\ Cardinality(B) \in Nat /\ Cardinality(B) <= Cardinality(Tasks)
        /\ Successes(B) \in 0..Cardinality(B)
        /\ IsFiniteSet(B)
    BY RowsBounded
  <2>3. /\ Cardinality(C) \in 1..Cardinality(Tasks)
        /\ Cardinality(B) \in 1..Cardinality(Tasks)
    <3>1. "baseline" \in Arms /\ "compressed" \in Arms
      BY DEF Arms
    <3>2. /\ Cardinality(C) >= Cardinality(Paired(E, type))
          /\ Cardinality(B) >= Cardinality(Paired(E, type))
          /\ Cardinality(Paired(E, type)) \in Nat
      BY <3>1, RowsOfPairs
    <3>3. Cardinality(Paired(E, type)) # 0
      <4>1. IsFiniteSet(Paired(E, type))
        <5>1. Paired(E, type) \in SUBSET Tasks
          BY DEF Paired
        <5> QED
          BY <5>1, FS_Subset, RolloutRuleAssumption
      <4> QED
        BY <4>1, FS_EmptySet
    <3> QED
      BY <2>2, <3>2, <3>3
  <2>4. Cardinality(D) = Cardinality(C)
    BY <2>1, <2>2, ReplacedSize
  <2> DEFINE fallbacks(rows) == Cardinality({x \in rows : x.fallback})
  <2>5. /\ Successes(C) \in Nat /\ Successes(D) \in Nat
        /\ Successes(D) <= Successes(C) /\ Successes(C) <= Successes(D) + 1
        /\ fallbacks(C) \in Nat /\ fallbacks(D) \in Nat
        /\ fallbacks(C) <= fallbacks(D)
        /\ TotalCost(C) \in Nat /\ TotalCost(D) \in Nat
        /\ TotalCost(C) <= TotalCost(D)
        /\ P95(C) \in Nat /\ P95(D) \in Nat
        /\ P95(C) <= P95(D)
    <3>1. \A x \in C \cup {w} : x.cost \in Nat /\ x.latency \in Nat
      BY DEF Rows, Events
    <3> HIDE DEF C, D
    <3> QED
      BY <2>1, <2>2, <3>1, RowsWorsen, Zenon
  <2>6. TotalCost(B) \in Nat /\ P95(B) \in Int
    <3>1. B # {} /\ \A x \in B : x.cost \in Nat /\ x.latency \in Nat
      <4>1. B # {}
        BY <2>2, <2>3, FS_EmptySet
      <4>2. \A x \in B : x.cost \in Nat /\ x.latency \in Nat
        BY DEF Rows, Events
      <4> QED
        BY <4>1, <4>2
    <3> HIDE DEF B
    <3> QED
      BY <2>2, <3>1, TotalCostType, PercentileIs
  <2>7. /\ MinimumPairedTasks \in Nat /\ MaximumDegradation \in Nat
        /\ MinimumImprovement \in Nat /\ MaximumFallbackRate \in Nat
        /\ MaximumLatencyIncrease \in Nat
    BY RolloutRuleAssumption
  <2> HIDE DEF B, C, D, R
  <2>8. /\ SuccessDeltaLow(B, C) \in Int /\ SuccessDeltaLow(B, D) \in Int
        /\ SuccessDeltaLow(B, D) <= SuccessDeltaLow(B, C)
    BY <2>2, <2>3, <2>4, <2>5, DeltaLowFalls
  <2>9. Successes(D) > 0 /\ CostImproves(B, D) => CostImproves(B, C)
    <3> SUFFICES ASSUME Successes(D) > 0, CostImproves(B, D) PROVE CostImproves(B, C)
      OBVIOUS
    <3> DEFINE b == TotalCost(B)
               won == Successes(B)
               c == TotalCost(C)
               d == TotalCost(D)
               s == Successes(C)
               r == Successes(D)
               m == MinimumImprovement
    <3>1. /\ b \in Nat \ {0} /\ won \in Nat \ {0} /\ r \in Nat \ {0}
          /\ s \in Nat /\ c \in Nat /\ d \in Nat /\ m \in Nat /\ r <= s /\ c <= d
          /\ 1000 * (b * r - d * won) >= m * b * r
      <4>1. won \in Nat
        BY <2>2
      <4>2. won > 0 /\ b > 0 /\ 1000 * (b * r - d * won) >= m * b * r
        BY DEF CostImproves
      <4> HIDE DEF b, won, c, d, s, r, m
      <4>3. /\ b \in Nat /\ r \in Nat /\ r > 0
            /\ s \in Nat /\ c \in Nat /\ d \in Nat /\ m \in Nat /\ r <= s /\ c <= d
        BY <2>5, <2>6, <2>7 DEF b, won, c, d, s, r, m
      <4> QED
        BY <4>1, <4>2, <4>3
    <3> HIDE DEF b, won, c, d, s, r, m
    <3>2. 1000 * (b * s - c * won) >= m * b * s
      BY <3>1, ImprovementKept
    <3>3. won > 0 /\ b > 0
      BY <3>1
    <3> QED
      BY <3>2, <3>3 DEF CostImproves, b, won, c, s, m
  <2>10. FallbackHigh(C) => FallbackHigh(D)
    <3>1. \A m, n, x, y \in Nat : x <= y /\ 1000 * x > m * n => 1000 * y > m * n
      <4> SUFFICES ASSUME NEW m \in Nat, NEW n \in Nat, NEW x \in Nat, NEW y \in Nat,
                          x <= y, 1000 * x > m * n
                   PROVE  1000 * y > m * n
        OBVIOUS
      <4>1. m * n \in Nat
        OBVIOUS
      <4> QED
        BY <4>1
    <3>2. Cardinality(C) \in Nat
      BY <2>2
    <3> QED
      BY <2>4, <2>5, <2>7, <3>1, <3>2 DEF FallbackHigh
  <2>11. Cautious(Segment(E, type)) => Cautious(Segment(R, type))
    <3>1. P95(C) - P95(B) > MaximumLatencyIncrease
            => P95(D) - P95(B) > MaximumLatencyIncrease
      BY <2>5, <2>6, <2>7
    <3>2. Cautious(Segment(E, type)) =>
            P95(C) - P95(B) > MaximumLatencyIncrease \/ FallbackHigh(C)
      BY CautiousIs, Zenon DEF B, C
    <3>3. P95(D) - P95(B) > MaximumLatencyIncrease \/ FallbackHigh(D) =>
            Cautious(Segment(R, type))
      BY <1>3, CautiousIs, Zenon DEF D
    <3> QED
      BY <2>10, <3>1, <3>2, <3>3, Zenon
  <2>12. Blocked(Segment(E, type)) => Blocked(Segment(R, type))
    <3>1. SuccessDeltaLow(B, C) < -MaximumDegradation
            => SuccessDeltaLow(B, D) < -MaximumDegradation
      BY <2>7, <2>8
    <3>2. ~(Successes(C) > 0) => ~(Successes(D) > 0)
      BY <2>5
    <3>3. Blocked(Segment(E, type)) =>
            \/ Cardinality(Paired(E, type)) < MinimumPairedTasks
            \/ SuccessDeltaLow(B, C) < -MaximumDegradation
            \/ ~(Successes(C) > 0)
            \/ ~CostImproves(B, C)
      BY BlockedIs, Zenon DEF B, C
    <3>4. (\/ Cardinality(Paired(E, type)) < MinimumPairedTasks
           \/ SuccessDeltaLow(B, D) < -MaximumDegradation
           \/ ~(Successes(D) > 0)
           \/ ~CostImproves(B, D))
             => Blocked(Segment(R, type))
      BY <1>2, <1>3, BlockedIs, Zenon DEF D
    <3> QED
      BY <2>9, <3>1, <3>2, <3>3, <3>4, Zenon
  <2> QED
    BY <2>11, <2>12 DEF R
<1> QED
  BY <1>4, <1>5

\* The mode a runtime gets from production evidence is that of the segment.
LEMMA ModeIs ==
  ASSUME NEW E, NEW type
  PROVE  ModeFor(Policy(E, "production"), type)
           = IF type \in Segments(E) THEN SelectMode(Segment(E, type)) ELSE "off"
<1> DEFINE p == Policy(E, "production")
<1>1. /\ DOMAIN p.modes = Segments(E)
      /\ \A t \in Segments(E) : p.modes[t] = SelectMode(Segment(E, t))
  BY DEF Policy
<1>2. p.ready <=> \E t \in Segments(E) : p.modes[t] # "off"
  BY DEF Policy
<1> HIDE DEF p
<1>3. CASE type \notin Segments(E)
  BY <1>1, <1>3 DEF ModeFor, p
<1>4. CASE type \in Segments(E) /\ SelectMode(Segment(E, type)) = "off"
  BY <1>1, <1>4 DEF ModeFor, p
<1>5. CASE type \in Segments(E) /\ SelectMode(Segment(E, type)) # "off"
  BY <1>1, <1>2, <1>5 DEF ModeFor, p
<1> QED
  BY <1>3, <1>4, <1>5

\* Fewer blockers and cautions select no lower mode.
LEMMA ModesRanked ==
  ASSUME NEW s, NEW r, s.value = r.value, Blocked(s) => Blocked(r), Cautious(s) => Cautious(r)
  PROVE  /\ Rank[SelectMode(s)] \in 0..2 /\ Rank[SelectMode(r)] \in 0..2
         /\ Rank[SelectMode(r)] <= Rank[SelectMode(s)]
<1>1. Rank["off"] = 0 /\ Rank["conservative"] = 1 /\ Rank["balanced"] = 2
  BY DEF Rank
<1>2. \/ Blocked(s) /\ SelectMode(s) = "off"
      \/ ~Blocked(s) /\ (Cautious(s) \/ s.value \in RiskSensitive)
           /\ SelectMode(s) = "conservative"
      \/ ~Blocked(s) /\ ~Cautious(s) /\ s.value \notin RiskSensitive
           /\ SelectMode(s) = "balanced"
  BY Zenon DEF SelectMode
<1>3. \/ Blocked(r) /\ SelectMode(r) = "off"
      \/ ~Blocked(r) /\ (Cautious(r) \/ r.value \in RiskSensitive)
           /\ SelectMode(r) = "conservative"
      \/ ~Blocked(r) /\ ~Cautious(r) /\ r.value \notin RiskSensitive
           /\ SelectMode(r) = "balanced"
  BY Zenon DEF SelectMode
<1>4. \/ SelectMode(r) = "off" /\ SelectMode(s) \in {"off", "conservative", "balanced"}
      \/ SelectMode(r) = "conservative" /\ SelectMode(s) \in {"conservative", "balanced"}
      \/ SelectMode(r) = "balanced" /\ SelectMode(s) = "balanced"
  BY <1>2, <1>3, Zenon
<1> QED
  BY <1>1, <1>4

\* One compressed event made worse gives a runtime no higher mode.
LEMMA WorseGivesNoMore ==
  ASSUME NEW E \in SUBSET Events, IsFiniteSet(E), OneRun(E),
         NEW e \in E, e.arm = "compressed", NEW w \in Worse(e), NEW type
  PROVE  Rank[ModeFor(Policy(Replaced(E, e, w), "production"), type)]
           <= Rank[ModeFor(Policy(E, "production"), type)]
<1> DEFINE R == Replaced(E, e, w)
           s == Segment(E, type)
           r == Segment(R, type)
<1>1. w \in Events /\ NoBetter(e, w)
  BY WorseIsNoBetter
<1>2. w.task = e.task /\ w.arm = e.arm
  BY <1>1 DEF NoBetter
<1>3. Segments(R) = Segments(E)
  <2>1. \A t : Paired(R, t) = Paired(E, t)
    BY <1>2, PairsStay
  <2> QED
    BY <2>1 DEF Segments
<1>4. CASE type \notin Segments(E)
  <2>1. /\ ModeFor(Policy(R, "production"), type) = "off"
        /\ ModeFor(Policy(E, "production"), type) = "off"
    BY <1>3, <1>4, ModeIs
  <2> QED
    BY <2>1 DEF Rank
<1>5. CASE type \in Segments(E)
  <2>1. Paired(E, type) # {}
    BY <1>5 DEF Segments
  <2>2. (Blocked(s) => Blocked(r)) /\ (Cautious(s) => Cautious(r))
    BY <1>1, <2>1, SegmentWorsens
  <2>3. s.value = r.value
    BY ValueIs
  <2>4. /\ ModeFor(Policy(R, "production"), type) = SelectMode(r)
        /\ ModeFor(Policy(E, "production"), type) = SelectMode(s)
    BY <1>3, <1>5, ModeIs
  <2> HIDE DEF s, r, R
  <2>5. Rank[SelectMode(r)] <= Rank[SelectMode(s)]
    BY <2>2, <2>3, ModesRanked
  <2> QED
    BY <2>4, <2>5 DEF R
<1> QED
  BY <1>4, <1>5

-----------------------------------------------------------------------------
(* The benchmark *)

\* An arm that is run answers with an event of its own.
LEMMA AnswerEvent ==
  ASSUME TypeOK, bench # None, runs # 0, NEW task \in Tasks, NEW arm \in Arms,
         NEW a \in Answers(task, arm)
  PROVE  /\ a.event \in Events /\ a.odd \in Nat
         /\ a.event.run = runs /\ a.event.task = task /\ a.event.arm = arm
<1> DEFINE Sizes == {"original", "small", "near", "grown"}
           Sendings == [size : Sizes, extra : {0, 1}, fallback : BOOLEAN, odd : {0, 1}]
<1>1. ASSUME NEW mode PROVE Sent(mode, task, arm) \subseteq Sendings
  <2>1. \A c \in Compressions : c.size \in Sizes /\ (~Accepted(mode, c)) \in BOOLEAN
    BY DEF Compressions
  <2>2. \A c \in Compressions :
          [size     |-> IF Accepted(mode, c) THEN c.size ELSE "original",
           extra    |-> 1,
           fallback |-> ~Accepted(mode, c),
           odd      |-> IF c = Hoped THEN 0 ELSE 1] \in Sendings
    BY <2>1
  <2>3. /\ [size |-> "original", extra |-> 0, fallback |-> FALSE, odd |-> 0] \in Sendings
        /\ [size |-> "original", extra |-> 0, fallback |-> TRUE, odd |-> 1] \in Sendings
    OBVIOUS
  <2> HIDE DEF Sendings
  <2> QED
    BY <2>2, <2>3, Zenon DEF Sent
<1>2. SentLive(arm) \subseteq Sendings
  <2>1. \A odd \in {0, 1} :
          /\ [size |-> "original", extra |-> 0, fallback |-> FALSE, odd |-> odd] \in Sendings
          /\ [size |-> "small", extra |-> 0, fallback |-> FALSE, odd |-> odd] \in Sendings
    OBVIOUS
  <2>2. (IF arm = "baseline" THEN 0 ELSE 1) \in {0, 1}
    OBVIOUS
  <2> HIDE DEF Sendings
  <2> QED
    BY <2>1, <2>2 DEF SentLive
<1>3. PICK s \in Sendings, success \in BOOLEAN, slow \in BOOLEAN :
        a = Answered(task, arm, s, success, slow)
  <2> DEFINE sendings == IF bench.kind = "live" THEN SentLive(arm)
                                               ELSE Sent(bench.mode, task, arm)
             slowness == IF arm = "baseline" THEN {FALSE} ELSE BOOLEAN
  <2>1. PICK o \in sendings \X BOOLEAN \X slowness : a = Answered(task, arm, o[1], o[2], o[3])
    BY DEF Answers
  <2>2. sendings \subseteq Sendings
    BY <1>1, <1>2
  <2>3. slowness \subseteq BOOLEAN
    OBVIOUS
  <2> HIDE DEF Sendings, sendings, slowness
  <2>4. o[1] \in Sendings /\ o[2] \in BOOLEAN /\ o[3] \in BOOLEAN
    BY <2>2, <2>3
  <2> QED
    BY <2>1, <2>4
<1>4. /\ Tokens[s.size] + s.extra \in Nat
      /\ s.odd + (IF success THEN 0 ELSE 1) + (IF slow THEN 1 ELSE 0) \in Nat
  <2>1. Tokens[s.size] \in {100, 40, 97, 110} /\ s.extra \in {0, 1} /\ s.odd \in {0, 1}
    BY DEF Tokens
  <2>2. (IF success THEN 0 ELSE 1) \in {0, 1} /\ (IF slow THEN 1 ELSE 0) \in {0, 1}
    OBVIOUS
  <2> QED
    BY <2>1, <2>2
<1>5. (IF slow THEN 700 ELSE 100) \in Nat /\ s.fallback \in BOOLEAN
  OBVIOUS
<1>6. runs \in 1..Budget
  BY RolloutPipelineAssumption DEF TypeOK, Benches
<1> DEFINE cost == Tokens[s.size] + s.extra
           latency == IF slow THEN 700 ELSE 100
           odd == s.odd + (IF success THEN 0 ELSE 1) + (IF slow THEN 1 ELSE 0)
           event == [run |-> runs, task |-> task, arm |-> arm, success |-> success,
                     cost |-> cost, latency |-> latency, fallback |-> s.fallback]
<1>7. a = [event |-> event, odd |-> odd]
  BY <1>3 DEF Answered
<1>8. event \in Events
  <2>1. cost \in Nat /\ latency \in Nat
    BY <1>4, <1>5
  <2> HIDE DEF cost, latency
  <2> QED
    BY <1>5, <1>6, <2>1 DEF Events
<1>9. odd \in Nat
  BY <1>4
<1> HIDE DEF cost, latency, odd
<1> QED
  BY <1>7, <1>8, <1>9

\* A file that is written has the lines written to it.
LEMMA WrittenLines ==
  ASSUME NEW E \in SUBSET Events
  PROVE  [lines |-> E] \in Files /\ LinesOf([lines |-> E]) = E
<1>1. [lines |-> E] \in Files
  BY DEF Files
<1> QED
  BY <1>1, NoneAssumption DEF LinesOf

\* The lines of a file are events.
LEMMA LinesType ==
  ASSUME NEW file \in Files \cup {None}
  PROVE  LinesOf(file) \in SUBSET Events
BY DEF LinesOf, Files

\* A task begins with arms to run.
LEMMA ArmsToRun == Arms \in (SUBSET Arms) \ {{}}
<1>1. "baseline" \in Arms
  BY DEF Arms
<1>2. Arms # {}
  BY <1>1
<1>3. Arms \in SUBSET Arms
  OBVIOUS
<1>4. Arms \notin {{}}
  BY <1>2
<1> QED
  BY <1>3, <1>4

\* Two arms, of which some are still to be run.
LEMMA ArmsCounted ==
  ASSUME NEW A \in SUBSET Arms
  PROVE  /\ IsFiniteSet(A) /\ Cardinality(A) \in Nat
         /\ Cardinality(Arms) = 2
         /\ \A arm \in A : Cardinality(A \ {arm}) = Cardinality(A) - 1
         /\ \A arm \in A : A = {arm} => Cardinality(A) = 1
<1>1. IsFiniteSet(Arms) /\ Cardinality(Arms) = 2
  <2>1. IsFiniteSet({"baseline"}) /\ Cardinality({"baseline"}) = 1
    BY FS_Singleton
  <2>2. Arms = {"baseline"} \cup {"compressed"} /\ "compressed" \notin {"baseline"}
    BY DEF Arms
  <2>3. 1 + 1 = 2
    OBVIOUS
  <2> QED
    BY <2>1, <2>2, <2>3, FS_AddElement
<1>2. IsFiniteSet(A)
  BY <1>1, FS_Subset
<1>3. \A arm \in A : Cardinality(A \ {arm}) = Cardinality(A) - 1
  BY <1>2, FS_RemoveElement
<1> QED
  BY <1>1, <1>2, <1>3, FS_CardinalityType, FS_Singleton

\* The arm about to be run is not among those in the file: the tasks of a
\* manifest are distinct.
LEMMA FreshArm ==
  ASSUME TypeOK, bench # None, bench.todo # << >>, NEW f, Done(f),
         Len(bench.todo) <= Len(Manifest),
         bench.todo[1] = Manifest[Len(Manifest) - Len(bench.todo) + 1]
  PROVE  f.task = Head(bench.todo) => f.arm \notin bench.arms
<1> DEFINE n == Len(bench.todo)
           m == Len(Manifest)
<1>1. /\ m \in Nat /\ n \in Nat \ {0} /\ DOMAIN Manifest = 1..m
  BY RolloutPipelineAssumption, LenProperties, EmptySeq DEF TypeOK, Benches
<1>2. Head(bench.todo) = Manifest[m - n + 1]
  <2>1. bench.todo \in Seq(Tasks)
    BY DEF TypeOK, Benches
  <2>2. \A s \in Seq(Tasks) : s # << >> => Head(s) = s[1]
    OBVIOUS
  <2> QED
    BY <2>1, <2>2, Zenon
<1> HIDE DEF n, m
<1>3. n <= m
  BY DEF n, m
<1>4. \A i \in 1..(m - n) : i \in DOMAIN Manifest /\ m - n + 1 \in DOMAIN Manifest /\ i # m - n + 1
  BY <1>1, <1>3
<1>5. \A i \in 1..(m - n) : Manifest[i] # Head(bench.todo)
  BY <1>2, <1>4, RolloutPipelineAssumption
<1> QED
  BY <1>5 DEF Done, n, m

\* The file of the benchmark in progress, with one event more, is again that
\* of what has been run.
LEMMA ExecuteStep ==
  ASSUME TypeOK, BenchInv, NEW arm \in Arms, Execute(arm)
  PROVE  /\ BenchInv' /\ bench' \in Benches /\ bench'.kind = bench.kind
         /\ surprises' \in 0..Budget
         /\ events' \in Files \cup {None} /\ partial' \in Files \cup {None}
         /\ bench.kind # "offline" => events' = events
<1> DEFINE written == IF bench.kind = "offline" THEN events ELSE partial
           E == LinesOf(written)
           n == Len(bench.todo)
           m == Len(Manifest)
           task == Head(bench.todo)
<1>1. /\ bench # None /\ bench.todo # << >> /\ arm \in bench.arms
  BY DEF Execute
<1>2. PICK a \in Answers(task, arm) :
        /\ runs + reports + surprises + a.odd <= Budget
        /\ surprises' = surprises + a.odd
        /\ IF bench.kind = "offline"
             THEN events' = Appended(events, a.event) /\ UNCHANGED partial
             ELSE partial' = Appended(partial, a.event) /\ UNCHANGED events
  BY DEF Execute
<1>3. /\ bench' = IF bench.arms = {arm}
                    THEN [bench EXCEPT !.todo = Tail(@), !.arms = Arms]
                    ELSE [bench EXCEPT !.arms = @ \ {arm}]
      /\ UNCHANGED <<runs, whole>>
  BY DEF Execute, analysing
<1>4. /\ m \in Nat /\ n \in Nat \ {0}
      /\ bench.todo \in Seq(Tasks) /\ task \in Tasks /\ task = bench.todo[1]
  <2>1. bench.todo \in Seq(Tasks)
    BY <1>1 DEF TypeOK, Benches
  <2> QED
    BY <1>1, <2>1, RolloutPipelineAssumption, LenProperties, EmptySeq
<1>5. /\ runs \in Nat \ {0} /\ runs \notin whole
      /\ n <= m
      /\ \A i \in 1..n : bench.todo[i] = Manifest[m - n + i]
      /\ IsFiniteSet(E) /\ OneRun(E)
      /\ \A e \in E : e.run = runs /\ Done(e)
      /\ Cardinality(E) = 2 * (m - n) + (2 - Cardinality(bench.arms))
  BY <1>1 DEF BenchInv
<1> DEFINE e == a.event
           F == E \cup {e}
<1>6. /\ e \in Events /\ a.odd \in Nat
      /\ e.run = runs /\ e.task = task /\ e.arm = arm
  BY <1>1, <1>4, <1>5, AnswerEvent
<1>7. E \in SUBSET Events /\ F \in SUBSET Events
  BY <1>6, LinesType DEF TypeOK, Benches
<1>8. /\ events' \in Files \cup {None} /\ partial' \in Files \cup {None}
      /\ LinesOf(IF bench.kind = "offline" THEN events' ELSE partial') = F
      /\ bench.kind # "offline" => events' = events
  <2>1. [lines |-> F] \in Files /\ LinesOf([lines |-> F]) = F
    BY <1>7, WrittenLines
  <2>2. IF bench.kind = "offline" THEN events' = [lines |-> F] /\ partial' = partial
                                  ELSE partial' = [lines |-> F] /\ events' = events
    BY <1>2 DEF Appended
  <2> HIDE DEF F
  <2> QED
    BY <2>1, <2>2 DEF TypeOK, Benches
<1>9. surprises' \in 0..Budget
  BY <1>2, <1>6, RolloutPipelineAssumption DEF TypeOK, Benches
<1> HIDE DEF written, E, e, F
<1>10. \A f \in E : f.task = task => f.arm # arm
  <2>1. 1 \in 1..n
    BY <1>4
  <2>2. ASSUME NEW f \in E PROVE f.task = task => f.arm \notin bench.arms
    BY <1>1, <1>5, <2>1, FreshArm
  <2> QED
    BY <1>1, <2>2
<1>11. /\ IsFiniteSet(F) /\ OneRun(F) /\ Cardinality(F) = Cardinality(E) + 1
       /\ \A f \in F : f.run = runs
  <2>1. e \notin E
    BY <1>6, <1>10
  <2>2. IsFiniteSet(F) /\ Cardinality(F) = Cardinality(E) + 1
    BY <1>5, <2>1, FS_AddElement DEF F
  <2>3. \A f \in F : f.run = runs
    BY <1>5, <1>6 DEF F
  <2>4. \A f, g \in F : f.task = g.task /\ f.arm = g.arm => f = g
    BY <1>5, <1>6, <1>10 DEF F, OneRun
  <2> QED
    BY <2>2, <2>3, <2>4 DEF OneRun
<1>12. bench.arms \in SUBSET Arms
  BY <1>1 DEF TypeOK, Benches
<1>13. /\ bench' \in Benches /\ bench'.kind = bench.kind
       /\ bench' # None =>
            /\ Len(bench'.todo) <= m
            /\ \A i \in 1..Len(bench'.todo) : bench'.todo[i] = Manifest[m - Len(bench'.todo) + i]
            /\ \A f \in F : Done(f)'
            /\ Cardinality(F) = 2 * (m - Len(bench'.todo)) + (2 - Cardinality(bench'.arms))
            /\ Len(bench'.todo) = 0 => bench'.arms = Arms
  <2>1. CASE bench.arms = {arm}
    <3>1. /\ bench' \in Benches /\ bench'.kind = bench.kind
          /\ bench'.todo = Tail(bench.todo) /\ bench'.arms = Arms
      <4> DEFINE tailed == [bench EXCEPT !.todo = Tail(bench.todo)]
      <4>1. bench' = [tailed EXCEPT !.arms = Arms]
        BY <1>3, <2>1, Zenon
      <4>2. Tail(bench.todo) \in Seq(Tasks)
        BY <1>1, <1>4, HeadTailProperties
      <4>3. tailed \in Benches /\ tailed.todo = Tail(bench.todo) /\ tailed.kind = bench.kind
        BY <1>1, <4>2 DEF TypeOK, Benches
      <4>4. Arms \in (SUBSET Arms) \ {{}}
        BY ArmsToRun
      <4> HIDE DEF tailed
      <4> QED
        BY <4>1, <4>3, <4>4 DEF Benches
    <3>2. /\ Tail(bench.todo) \in Seq(Tasks) /\ Len(bench'.todo) = n - 1
          /\ \A i \in 1..(n - 1) : bench'.todo[i] = bench.todo[i + 1]
      BY <1>1, <1>4, <3>1, HeadTailProperties
    <3>3. \A i \in 1..(n - 1) : bench'.todo[i] = Manifest[m - (n - 1) + i]
      <4>1. \A i \in 1..(n - 1) : i + 1 \in 1..n /\ m - n + (i + 1) = m - (n - 1) + i
        BY <1>4
      <4> QED
        BY <1>5, <3>2, <4>1
    <3>4. Cardinality(F) = 2 * (m - (n - 1)) + (2 - 2)
      <4>1. Cardinality(bench.arms) = 1
        BY <1>1, <1>12, <2>1, ArmsCounted
      <4>2. Cardinality(F) = 2 * (m - n) + (2 - 1) + 1
        BY <1>5, <1>11, <4>1
      <4>3. \A x, y \in Nat : 2 * (x - y) + (2 - 1) + 1 = 2 * (x - (y - 1)) + (2 - 2)
        OBVIOUS
      <4>4. m \in Nat /\ n \in Nat
        BY <1>4
      <4> QED
        BY <4>2, <4>3, <4>4, Zenon
    <3>5. \A f \in F : \E i \in 1..(m - (n - 1)) : f.task = Manifest[i]
      <4>1. task = Manifest[m - n + 1]
        <5>1. 1 \in 1..n
          BY <1>4
        <5> QED
          BY <1>4, <1>5, <5>1
      <4>2. /\ m - n + 1 \in 1..(m - (n - 1))
            /\ \A i \in 1..(m - n) : i \in 1..(m - (n - 1))
        BY <1>4, <1>5
      <4>3. \A f \in E : f.task = task \/ \E i \in 1..(m - n) : f.task = Manifest[i]
        BY <1>5 DEF Done
      <4> QED
        BY <1>6, <4>1, <4>2, <4>3 DEF F
    <3>6. \A f \in F : Done(f)'
      BY <3>2, <3>5 DEF Done
    <3>7. Cardinality(Arms) = 2
      BY ArmsCounted
    <3>8. n - 1 <= m
      BY <1>4, <1>5
    <3> QED
      BY <3>1, <3>2, <3>3, <3>4, <3>6, <3>7, <3>8
  <2>2. CASE bench.arms # {arm}
    <3>1. /\ bench' \in Benches /\ bench'.kind = bench.kind
          /\ bench'.todo = bench.todo /\ bench'.arms = bench.arms \ {arm}
      BY <1>1, <1>3, <2>2 DEF TypeOK, Benches
    <3>2. Cardinality(F) = 2 * (m - n) + (2 - Cardinality(bench.arms \ {arm}))
      <4>1. /\ Cardinality(bench.arms \ {arm}) = Cardinality(bench.arms) - 1
            /\ Cardinality(bench.arms) \in Nat
        BY <1>1, <1>12, ArmsCounted
      <4>2. m \in Nat /\ n \in Nat
        BY <1>4
      <4>3. Cardinality(F) = 2 * (m - n) + (2 - Cardinality(bench.arms)) + 1
        BY <1>5, <1>11, Zenon
      <4> QED
        BY <4>1, <4>2, <4>3
    <3>3. \A f \in F : Done(f)'
      <4>1. \A f \in E : Done(f)'
        BY <1>5, <3>1 DEF Done
      <4>2. Done(e)'
        BY <1>1, <1>6, <3>1 DEF Done
      <4> QED
        BY <4>1, <4>2 DEF F
    <3> QED
      BY <1>4, <1>5, <3>1, <3>2, <3>3
  <2> QED
    BY <2>1, <2>2
<1>14. BenchInv'
  BY <1>3, <1>5, <1>8, <1>11, <1>13 DEF BenchInv
<1> QED
  BY <1>8, <1>9, <1>13, <1>14

\* A benchmark that begins has all its tasks before it.
LEMMA BenchBegins ==
  ASSUME NEW kind \in Kinds, NEW mode \in Modes \cup {None}
  PROVE  /\ Bench(kind, mode) \in Benches /\ Bench(kind, mode).kind = kind
         /\ Bench(kind, mode).todo = Manifest /\ Bench(kind, mode).arms = Arms
<1>1. Arms \in (SUBSET Arms) \ {{}} /\ Manifest \in Seq(Tasks)
  BY RolloutPipelineAssumption, ArmsToRun
<1> QED
  BY <1>1 DEF Bench, Benches

\* What a step does to the benchmark.
LEMMA BenchSteps ==
  ASSUME TypeOK, BenchInv, [Next]_vars
  PROVE  \/ UNCHANGED benching
         \/ /\ bench = None /\ runs' = runs + 1 /\ runs < Budget
            /\ UNCHANGED <<whole, surprises>>
            /\ bench' \in Benches /\ bench'.todo = Manifest /\ bench'.arms = Arms
            /\ \/ bench'.kind = "offline" /\ events' = None /\ partial' = partial
               \/ bench'.kind = "live" /\ partial' = None /\ events' = events
         \/ /\ bench # None /\ UNCHANGED <<runs, whole>>
            /\ BenchInv' /\ bench' \in Benches /\ bench'.kind = bench.kind
            /\ surprises' \in 0..Budget
            /\ events' \in Files \cup {None} /\ partial' \in Files \cup {None}
            /\ bench.kind # "offline" => events' = events
         \/ /\ bench # None /\ bench.kind = "live" /\ Len(bench.todo) = 0
            /\ bench' = None /\ events' = partial /\ partial' = None
            /\ whole' = whole \cup {runs} /\ UNCHANGED <<runs, surprises>>
         \/ /\ bench' = None /\ UNCHANGED <<events, partial, runs, whole, surprises>>
<1> USE DEF benching, analysing
<1>1. CASE Start
  <2>1. /\ bench = None /\ runs + reports + surprises < Budget /\ runs' = runs + 1
        /\ UNCHANGED <<whole, surprises>>
    BY <1>1 DEF Start
  <2>2. runs < Budget
    BY <2>1, RolloutPipelineAssumption DEF TypeOK
  <2>3. \/ /\ \E mode \in ExecutorModes : bench' = Bench("offline", mode)
           /\ events' = None /\ partial' = partial
        \/ bench' = Bench("live", None) /\ partial' = None /\ events' = events
    BY <1>1 DEF Start
  <2>4. /\ "offline" \in Kinds /\ "live" \in Kinds
        /\ \A mode \in ExecutorModes : mode \in Modes \cup {None}
    BY RolloutPipelineAssumption DEF Kinds
  <2> QED
    BY <2>1, <2>2, <2>3, <2>4, BenchBegins
<1>2. ASSUME NEW arm \in Arms, Execute(arm)
      PROVE  /\ bench # None /\ UNCHANGED <<runs, whole>>
             /\ BenchInv' /\ bench' \in Benches /\ bench'.kind = bench.kind
             /\ surprises' \in 0..Budget
             /\ events' \in Files \cup {None} /\ partial' \in Files \cup {None}
             /\ bench.kind # "offline" => events' = events
  <2>1. bench # None /\ UNCHANGED <<runs, whole>>
    BY <1>2 DEF Execute
  <2> QED
    BY <1>2, <2>1, ExecuteStep
<1>3. CASE Complete
  <2>1. bench # None /\ bench.todo = << >> /\ bench' = None /\ UNCHANGED <<runs, surprises>>
    BY <1>3 DEF Complete
  <2>2. Len(bench.todo) = 0
    BY <2>1
  <2>3. CASE bench.kind = "offline"
    BY <1>3, <2>1, <2>3 DEF Complete
  <2>4. CASE bench.kind # "offline"
    <3>1. bench.kind = "live"
      BY <2>1, <2>4 DEF TypeOK, Benches, Kinds
    <3> QED
      BY <1>3, <2>1, <2>2, <3>1 DEF Complete
  <2> QED
    BY <2>3, <2>4
<1>4. CASE BenchDies
  BY <1>4 DEF BenchDies
<1>5. CASE Invoke \/ Hash \/ AnalystDies \/ (\E f \in Outputs : Write(f))
  BY <1>5 DEF Invoke, Hash, AnalystDies, Write
<1>6. CASE UNCHANGED vars
  BY <1>6 DEF vars
<1> QED
  BY <1>1, <1>2, <1>3, <1>4, <1>5, <1>6 DEF Next

\* Sound events stay sound, whatever the benchmark does: no live run of which
\* they are a part is published later.
LEMMA SoundKept ==
  ASSUME TypeOK, BenchInv, [Next]_vars
  PROVE  \A E : Sound(E) => Sound(E)'
<1> SUFFICES ASSUME NEW E, Sound(E) PROVE Sound(E)'
  OBVIOUS
<1>1. \A e \in E : e.run \in Nat /\ e.run <= runs /\ runs \in Nat
  BY RolloutPipelineAssumption DEF Sound, Events, TypeOK
<1>2. ASSUME NEW e \in E
      PROVE  /\ e.run <= runs'
             /\ e.run \in whole' => e.run \in whole
             /\ bench' # None /\ bench'.kind = "live" => e.run # runs'
  BY <1>1, BenchSteps DEF Sound, benching
<1> QED
  BY <1>2 DEF Sound

\* The benchmark's file holds what it has run, to the end.
LEMMA BenchStep ==
  ASSUME TypeOK, BenchInv, [Next]_vars
  PROVE  BenchInv'
<1>1. CASE UNCHANGED benching
  BY <1>1 DEF benching, BenchInv, Done
<1>2. CASE /\ bench = None /\ runs' = runs + 1 /\ runs < Budget
           /\ UNCHANGED <<whole, surprises>>
           /\ bench' \in Benches /\ bench'.todo = Manifest /\ bench'.arms = Arms
           /\ \/ bench'.kind = "offline" /\ events' = None /\ partial' = partial
              \/ bench'.kind = "live" /\ partial' = None /\ events' = events
  <2>1. LinesOf(IF bench'.kind = "offline" THEN events' ELSE partial') = {}
    BY <1>2 DEF LinesOf
  <2>2. runs' \in Nat \ {0} /\ runs' \notin whole'
    BY <1>2 DEF TypeOK
  <2>3. IsFiniteSet({}) /\ Cardinality({}) = 0 /\ OneRun({}) /\ Cardinality(Arms) = 2
    BY FS_EmptySet, ArmsCounted DEF OneRun
  <2>4. /\ Len(Manifest) \in Nat /\ Len(bench'.todo) = Len(Manifest)
        /\ \A i \in 1..Len(Manifest) : bench'.todo[i] = Manifest[Len(Manifest) - Len(Manifest) + i]
        /\ Len(Manifest) <= Len(Manifest)
        /\ 0 = 2 * (Len(Manifest) - Len(Manifest)) + (2 - 2)
    <3>1. Len(Manifest) \in Nat
      BY RolloutPipelineAssumption, LenProperties
    <3>2. \A n, i \in Nat : n - n + i = i /\ 0 = 2 * (n - n) + (2 - 2)
      OBVIOUS
    <3> QED
      BY <1>2, <3>1, <3>2
  <2>5. PICK E : E = LinesOf(IF bench'.kind = "offline" THEN events' ELSE partial') /\ E = {}
    BY <2>1
  <2>6. IsFiniteSet(E) /\ OneRun(E) /\ Cardinality(E) = 0
        /\ \A e \in E : e.run = runs' /\ Done(e)'
    BY <2>3, <2>5
  <2>7. Cardinality(E) = 2 * (Len(Manifest) - Len(Manifest)) + (2 - Cardinality(Arms))
    BY <2>3, <2>4, <2>6
  <2> QED
    BY <1>2, <2>2, <2>4, <2>5, <2>6, <2>7 DEF BenchInv
<1>3. CASE bench' = None
  BY <1>3 DEF BenchInv
<1> QED
  BY <1>1, <1>2, <1>3, BenchSteps

\* The events file is sound at any time: a run replaces it or begins it anew.
LEMMA EventsStep ==
  ASSUME TypeOK, BenchInv, Sound(EventsRead), [Next]_vars
  PROVE  Sound(EventsRead)'
<1>1. BenchInv'
  BY BenchStep
<1>2. CASE events' = events
  <2>1. PICK E : E = EventsRead
    OBVIOUS
  <2>2. Sound(E)'
    BY <2>1, SoundKept
  <2>3. EventsRead' = E
    BY <1>2, <2>1 DEF EventsRead
  <2> QED
    BY <2>2, <2>3 DEF Sound
<1>3. CASE events' = None
  <2>1. EventsRead' = {}
    BY <1>3 DEF EventsRead, LinesOf
  <2> QED
    BY <2>1, FS_EmptySet DEF Sound, OneRun
<1>4. CASE /\ bench # None /\ UNCHANGED <<runs, whole>>
           /\ bench' \in Benches /\ bench'.kind = bench.kind
           /\ events' \in Files \cup {None}
           /\ bench.kind = "offline"
  <2>1. bench' # None
    BY <1>4, NoneAssumption
  <2>2. /\ runs' \in Nat \ {0} /\ runs' \notin whole'
        /\ IsFiniteSet(EventsRead') /\ OneRun(EventsRead')
        /\ \A e \in EventsRead' : e.run = runs'
    BY <1>1, <1>4, <2>1 DEF BenchInv, EventsRead
  <2>3. EventsRead' \in SUBSET Events
    BY <1>4, LinesType DEF EventsRead
  <2> QED
    BY <1>4, <2>2, <2>3 DEF Sound
<1>5. CASE /\ bench # None /\ bench.kind = "live" /\ Len(bench.todo) = 0
           /\ bench' = None /\ events' = partial /\ partial' = None
           /\ whole' = whole \cup {runs} /\ UNCHANGED <<runs, surprises>>
  <2> DEFINE E == LinesOf(partial)
  <2>1. EventsRead' = E /\ E \in SUBSET Events
    BY <1>5, LinesType DEF EventsRead, TypeOK
  <2>2. /\ runs \in Nat
        /\ IsFiniteSet(E) /\ OneRun(E)
        /\ \A e \in E : e.run = runs
        /\ Cardinality(E) = 2 * (Len(Manifest) - 0) + (2 - Cardinality(Arms))
    BY <1>5 DEF BenchInv
  <2>3. Cardinality(E) = 2 * Len(Manifest)
    <3>1. Len(Manifest) \in Nat
      BY RolloutPipelineAssumption, LenProperties
    <3>2. Cardinality(Arms) = 2
      BY ArmsCounted
    <3> QED
      BY <2>2, <3>1, <3>2
  <2> HIDE DEF E
  <2> QED
    BY <1>5, <2>1, <2>2, <2>3 DEF Sound
<1> QED
  BY <1>2, <1>3, <1>4, <1>5, BenchSteps DEF benching

-----------------------------------------------------------------------------
(* The analyst *)

\* What a step does to the analyst's files and command.
AnalystMoves ==
  Invoke \/ Hash \/ AnalystDies \/ \E f \in Outputs : Write(f)

LEMMA AnalystSteps ==
  ASSUME [Next]_vars
  PROVE  label' = label /\ (UNCHANGED analysing \/ (AnalystMoves /\ UNCHANGED benching))
<1> USE DEF benching, analysing
<1>1. CASE Start \/ Complete \/ BenchDies
  BY <1>1 DEF Start, Complete, BenchDies
<1>2. CASE \E arm \in Arms : Execute(arm)
  BY <1>2 DEF Execute
<1>3. CASE AnalystMoves
  BY <1>3 DEF AnalystMoves, Invoke, Hash, AnalystDies, Write
<1>4. CASE UNCHANGED vars
  BY <1>4 DEF vars
<1> QED
  BY <1>1, <1>2, <1>3, <1>4 DEF Next, AnalystMoves

\* A run of run_phase2 takes these steps.
LEMMA Phase2Steps ==
  /\ Len(Phase2) = 4 /\ Head(Phase2) = "policy"
  /\ Tail(Phase2) = <<"dashboard", "hash", "lineage">>
  /\ LET s == <<"dashboard", "hash", "lineage">>
     IN  Len(s) = 3 /\ Head(s) = "dashboard" /\ Tail(s) = <<"hash", "lineage">>
  /\ LET s == <<"hash", "lineage">>
     IN  Len(s) = 2 /\ Head(s) = "hash" /\ Tail(s) = <<"lineage">>
  /\ Len(<<"lineage">>) = 1 /\ Head(<<"lineage">>) = "lineage"
  /\ \A s, t \in {Phase2, <<"dashboard", "hash", "lineage">>, <<"hash", "lineage">>,
                  <<"lineage">>} : Head(s) = Head(t) => s = t
  /\ {Phase2, <<"dashboard", "hash", "lineage">>, <<"hash", "lineage">>, <<"lineage">>}
       \subseteq Seq(Outputs \cup {"hash"})
<1>1. Phase2 = <<"policy", "dashboard", "hash", "lineage">>
  BY DEF Phase2
<1>2. /\ Head(Phase2) = "policy" /\ Len(Phase2) = 4
      /\ Tail(Phase2) = <<"dashboard", "hash", "lineage">>
  BY <1>1
<1>3. /\ Len(<<"dashboard", "hash", "lineage">>) = 3
      /\ Head(<<"dashboard", "hash", "lineage">>) = "dashboard"
      /\ Tail(<<"dashboard", "hash", "lineage">>) = <<"hash", "lineage">>
  OBVIOUS
<1>4. /\ Len(<<"hash", "lineage">>) = 2 /\ Head(<<"hash", "lineage">>) = "hash"
      /\ Tail(<<"hash", "lineage">>) = <<"lineage">>
  OBVIOUS
<1>5. Len(<<"lineage">>) = 1 /\ Head(<<"lineage">>) = "lineage"
  OBVIOUS
<1>6. \A s, t \in {Phase2, <<"dashboard", "hash", "lineage">>, <<"hash", "lineage">>,
                   <<"lineage">>} : Head(s) = Head(t) => s = t
  BY <1>2, <1>3, <1>4, <1>5
<1>7. /\ Phase2 \in Seq(Outputs \cup {"hash"})
      /\ <<"dashboard", "hash", "lineage">> \in Seq(Outputs \cup {"hash"})
      /\ <<"hash", "lineage">> \in Seq(Outputs \cup {"hash"})
      /\ <<"lineage">> \in Seq(Outputs \cup {"hash"})
  BY <1>1 DEF Outputs
<1> QED
  BY <1>2, <1>3, <1>4, <1>5, <1>6, <1>7

\* The command in progress.
Commands == [todo : Seq(Outputs \cup {"hash"}), policy : Policies, lineage : Lineages \cup {None}]

\* What an output file may hold.
OutputsType ==
  /\ DOMAIN outputs = Outputs
  /\ \A f \in Outputs :
       outputs[f] \in {None, Torn} \cup (IF f = "lineage" THEN Lineages ELSE Policies)

AnalystOK ==
  OutputsType /\ analyst \in {None} \cup Commands /\ PolicyInv /\ AnalystInv /\ LineageInv

\* run_phase2 reads the events and makes the policy.
LEMMA InvokeStep ==
  ASSUME TypeOK, Sound(EventsRead), AnalystOK, Invoke, \A p : Made(p) => Made(p)'
  PROVE  AnalystOK'
<1> DEFINE p == Policy(EventsRead, label)
<1>1. /\ analyst' = [todo |-> Phase2, policy |-> p, lineage |-> None]
      /\ UNCHANGED <<outputs, label, described>>
  BY DEF Invoke
<1>2. p \in Policies /\ p.basis = EventsRead /\ p.label = label
  BY PolicyType DEF AnalystOK, PolicyInv, Sound
<1>3. Made(p)
  BY <1>2 DEF Made
<1>4. Phase2 \in Seq(Outputs \cup {"hash"})
  BY Phase2Steps
<1>5. /\ Phase2 # <<"hash", "lineage">> /\ Phase2 # <<"lineage">>
  BY Phase2Steps
<1> HIDE DEF p
<1>6. analyst' \in Commands
  BY <1>1, <1>2, <1>4 DEF Commands
<1>7. PolicyInv'
  BY <1>1, <1>2, <1>3 DEF AnalystOK, PolicyInv
<1>8. AnalystInv'
  BY <1>1, <1>5 DEF AnalystInv
<1>9. LineageInv'
  BY <1>1 DEF AnalystOK, LineageInv, Truthful, Matches
<1> QED
  BY <1>1, <1>6, <1>7, <1>8, <1>9 DEF AnalystOK, OutputsType

\* The policy or the dashboard is written: the lineage does not describe it.
LEMMA WriteStep ==
  ASSUME AnalystOK, NEW f \in {"policy", "dashboard"}, Write(f),
         \A p : Made(p) => Made(p)'
  PROVE  AnalystOK'
<1> DEFINE rest == Tail(analyst.todo)
<1>1. /\ analyst # None /\ Head(analyst.todo) = f
      /\ outputs' = [outputs EXCEPT ![f] = analyst.policy]
      /\ described' = FALSE /\ label' = label
  BY DEF Write, Writing, Content
<1>2. /\ analyst.todo = (IF f = "policy" THEN Phase2 ELSE <<"dashboard", "hash", "lineage">>)
      /\ Len(analyst.todo) # 1
      /\ rest = (IF f = "policy" THEN <<"dashboard", "hash", "lineage">>
                                 ELSE <<"hash", "lineage">>)
      /\ rest \in Seq(Outputs \cup {"hash"})
  <2> DEFINE Todos == {Phase2, <<"dashboard", "hash", "lineage">>, <<"hash", "lineage">>,
                       <<"lineage">>}
  <2>1. analyst.todo \in Todos
    BY <1>1 DEF AnalystOK, AnalystInv
  <2>2. \A s, t \in Todos : Head(s) = Head(t) => s = t
    BY Phase2Steps, Zenon
  <2>3. Phase2 \in Todos /\ <<"dashboard", "hash", "lineage">> \in Todos
    OBVIOUS
  <2>4. <<"dashboard", "hash", "lineage">> \in Seq(Outputs \cup {"hash"})
        /\ <<"hash", "lineage">> \in Seq(Outputs \cup {"hash"})
    BY Phase2Steps
  <2> HIDE DEF Todos
  <2>5. CASE f = "policy"
    <3>1. Head(Phase2) = "policy" /\ Len(Phase2) = 4
          /\ Tail(Phase2) = <<"dashboard", "hash", "lineage">>
      BY Phase2Steps
    <3>2. analyst.todo = Phase2
      BY <1>1, <2>1, <2>2, <2>3, <2>5, <3>1
    <3>3. Len(analyst.todo) # 1 /\ rest = <<"dashboard", "hash", "lineage">>
      BY <3>1, <3>2
    <3> QED
      BY <2>4, <2>5, <3>2, <3>3
  <2>6. CASE f = "dashboard"
    <3>1. PICK s : s = <<"dashboard", "hash", "lineage">>
      OBVIOUS
    <3>2. Head(s) = "dashboard" /\ Len(s) = 3 /\ Tail(s) = <<"hash", "lineage">>
      BY <3>1
    <3>3. analyst.todo = s
      BY <1>1, <2>1, <2>2, <2>3, <2>6, <3>1, <3>2
    <3> QED
      BY <2>4, <2>6, <3>1, <3>2, <3>3
  <2> QED
    BY <2>5, <2>6
<1> HIDE DEF rest
<1>3. analyst' = [analyst EXCEPT !.todo = rest]
  BY <1>1, <1>2 DEF Write, Advance, rest
<1>4. analyst \in Commands
  BY <1>1 DEF AnalystOK
<1>5. /\ analyst' \in Commands /\ analyst'.todo = rest
      /\ analyst'.policy = analyst.policy /\ analyst'.lineage = analyst.lineage
  BY <1>2, <1>3, <1>4 DEF Commands
<1>6. /\ outputs'[f] = analyst.policy
      /\ \A g \in Outputs \ {f} : outputs'[g] = outputs[g]
      /\ f \in Outputs /\ f # "lineage" /\ "lineage" \in Outputs
  BY <1>1 DEF AnalystOK, OutputsType, Outputs
<1>7. OutputsType'
  BY <1>1, <1>4, <1>6 DEF AnalystOK, OutputsType, Commands
<1>8. PolicyInv'
  <2>1. Made(analyst.policy) /\ analyst.policy.label = label
    BY <1>1 DEF AnalystOK, PolicyInv
  <2>2. outputs'["policy"] = analyst.policy \/ outputs'["policy"] = outputs["policy"]
    BY <1>6 DEF Outputs
  <2> QED
    BY <1>1, <1>5, <2>1, <2>2 DEF AnalystOK, PolicyInv
<1>9. AnalystInv'
  <2>1. f = "dashboard" => outputs["policy"] = analyst.policy
    BY <1>1, <1>2, Phase2Steps DEF AnalystOK, AnalystInv
  <2>2. outputs'["policy"] = analyst.policy
    BY <1>6, <2>1 DEF Outputs
  <2>3. f = "dashboard" => outputs'["dashboard"] = analyst.policy
    BY <1>6
  <2>4. /\ rest # <<"lineage">>
        /\ f = "policy" => rest # <<"hash", "lineage">>
    BY <1>2, Phase2Steps
  <2> QED
    BY <1>2, <1>5, <2>2, <2>3, <2>4 DEF AnalystInv
<1>10. LineageInv'
  BY <1>1, <1>6 DEF AnalystOK, LineageInv, Truthful
<1> QED
  BY <1>5, <1>7, <1>8, <1>9, <1>10 DEF AnalystOK

\* The hashes are those of the files just written, and of the events.
LEMMA HashStep ==
  ASSUME Sound(EventsRead), AnalystOK, Hash, \A p : Made(p) => Made(p)'
  PROVE  AnalystOK'
<1> DEFINE hashed == [f \in Outputs \ {"lineage"} |-> outputs[f]]
           l == [label   |-> label,
                 events  |-> EventsRead,
                 outputs |-> hashed,
                 moved   |-> EventsRead # analyst.policy.basis]
           command == [analyst EXCEPT !.lineage = l]
<1>1. /\ analyst # None /\ Head(analyst.todo) = "hash"
      /\ UNCHANGED <<outputs, described, label>>
  BY DEF Hash, Writing
<1>2. /\ analyst.todo = <<"hash", "lineage">> /\ Len(analyst.todo) # 1
      /\ Tail(analyst.todo) = <<"lineage">>
      /\ <<"lineage">> \in Seq(Outputs \cup {"hash"})
  <2> DEFINE Todos == {Phase2, <<"dashboard", "hash", "lineage">>, <<"hash", "lineage">>,
                       <<"lineage">>}
  <2>1. analyst.todo \in Todos
    BY <1>1 DEF AnalystOK, AnalystInv
  <2>2. \A s, t \in Todos : Head(s) = Head(t) => s = t
    BY Phase2Steps, Zenon
  <2>3. <<"hash", "lineage">> \in Todos
    OBVIOUS
  <2> HIDE DEF Todos
  <2>4. PICK s : s = <<"hash", "lineage">>
    OBVIOUS
  <2>5. Head(s) = "hash" /\ Len(s) = 2 /\ Tail(s) = <<"lineage">>
    BY <2>4
  <2>6. analyst.todo = s
    BY <1>1, <2>1, <2>2, <2>3, <2>4, <2>5
  <2> QED
    BY <2>4, <2>5, <2>6, Phase2Steps
<1>3. analyst' = [command EXCEPT !.todo = Tail(@)]
  BY <1>2 DEF Hash, Advance
<1>4. analyst \in Commands /\ analyst.policy \in Policies
  BY <1>1 DEF AnalystOK, Commands
<1>5. /\ outputs["policy"] = analyst.policy /\ outputs["dashboard"] = analyst.policy
      /\ Made(analyst.policy) /\ analyst.policy.label = label /\ label \in Labels
  BY <1>1, <1>2, Phase2Steps DEF AnalystOK, AnalystInv, PolicyInv
<1>6. hashed \in [Outputs \ {"lineage"} -> Policies]
      /\ \A f \in Outputs \ {"lineage"} : hashed[f] = analyst.policy /\ hashed[f] = outputs[f]
  BY <1>4, <1>5 DEF Outputs
<1>7. (EventsRead # analyst.policy.basis) \in BOOLEAN /\ EventsRead \in SUBSET Events
  BY DEF Sound
<1> HIDE DEF hashed
<1>8. l \in Lineages
  BY <1>5, <1>6, <1>7 DEF Lineages
<1>9. Matches(l)
  BY <1>6, <1>8 DEF Matches
<1>10. Truthful(l)
  BY <1>5, <1>6 DEF Truthful, Made
<1> HIDE DEF l
<1>11. /\ command \in Commands /\ command.lineage = l
       /\ command.policy = analyst.policy /\ command.todo = analyst.todo
  BY <1>4, <1>8 DEF Commands
<1> HIDE DEF command
<1>12. /\ analyst' \in Commands /\ analyst'.lineage = l
       /\ analyst'.policy = analyst.policy /\ analyst'.todo = <<"lineage">>
  BY <1>2, <1>3, <1>11 DEF Commands
<1>13. AnalystInv'
  BY <1>1, <1>5, <1>9, <1>10, <1>12, Phase2Steps DEF AnalystInv, Matches, Truthful
<1>14. PolicyInv'
  BY <1>1, <1>12 DEF AnalystOK, PolicyInv
<1>15. LineageInv'
  BY <1>1 DEF AnalystOK, LineageInv, Truthful, Matches
<1> QED
  BY <1>1, <1>12, <1>13, <1>14, <1>15 DEF AnalystOK, OutputsType

\* The lineage is written last and describes the files as they are.
LEMMA LineageStep ==
  ASSUME AnalystOK, Write("lineage"), \A p : Made(p) => Made(p)'
  PROVE  AnalystOK'
<1>1. /\ analyst # None /\ Head(analyst.todo) = "lineage"
      /\ outputs' = [outputs EXCEPT !["lineage"] = analyst.lineage]
      /\ label' = label
  BY DEF Write, Writing, Content
<1>2. analyst.todo = <<"lineage">> /\ Len(analyst.todo) = 1
  BY <1>1, Phase2Steps DEF AnalystOK, AnalystInv
<1>3. analyst' = None
  BY <1>2 DEF Write, Advance
<1>4. Matches(analyst.lineage) /\ Truthful(analyst.lineage)
  BY <1>1, <1>2 DEF AnalystOK, AnalystInv
<1>5. /\ outputs'["lineage"] = analyst.lineage
      /\ \A g \in Outputs \ {"lineage"} : outputs'[g] = outputs[g]
      /\ "policy" \in Outputs \ {"lineage"}
  BY <1>1 DEF AnalystOK, OutputsType, Outputs
<1>6. OutputsType'
  BY <1>1, <1>4, <1>5 DEF AnalystOK, OutputsType, Matches
<1>7. PICK l : l = analyst.lineage
  OBVIOUS
<1>8. LineageInv'
  <2>1. l \in Lineages /\ DOMAIN l.outputs = Outputs \ {"lineage"}
        /\ \A f \in DOMAIN l.outputs : l.outputs[f] = outputs[f]
    BY <1>4, <1>7 DEF Matches, Lineages
  <2>2. outputs'["lineage"] = l /\ \A f \in DOMAIN l.outputs : l.outputs[f] = outputs'[f]
    BY <1>5, <1>7, <2>1
  <2>3. Truthful(l)
    BY <1>4, <1>7
  <2> QED
    BY <2>1, <2>2, <2>3 DEF LineageInv, Matches, Truthful
<1>9. PolicyInv' /\ AnalystInv'
  BY <1>1, <1>3, <1>5 DEF AnalystOK, PolicyInv, AnalystInv
<1> QED
  BY <1>3, <1>6, <1>8, <1>9 DEF AnalystOK

\* A command that dies leaves its file as it was, or torn.
LEMMA DiesStep ==
  ASSUME AnalystOK, AnalystDies, \A p : Made(p) => Made(p)'
  PROVE  AnalystOK'
<1>1. analyst # None /\ analyst' = None /\ label' = label
  BY DEF AnalystDies
<1>2. CASE UNCHANGED <<outputs, described>>
  BY <1>1, <1>2 DEF AnalystOK, OutputsType, PolicyInv, AnalystInv, LineageInv, Truthful, Matches
<1>3. CASE /\ Head(analyst.todo) # "hash"
           /\ outputs' = [outputs EXCEPT ![Head(analyst.todo)] = Torn]
           /\ described' = FALSE
  <2>1. Head(analyst.todo) \in Outputs
    BY <1>1, <1>3, Phase2Steps DEF AnalystOK, AnalystInv, Outputs
  <2>2. \A f \in Outputs : outputs'[f] = Torn \/ outputs'[f] = outputs[f]
    BY <1>3, <2>1 DEF AnalystOK, OutputsType
  <2>3. OutputsType'
    BY <1>3, <2>2 DEF AnalystOK, OutputsType
  <2>4. "policy" \in Outputs /\ "lineage" \in Outputs
    BY DEF Outputs
  <2> QED
    BY <1>1, <1>3, <2>2, <2>3, <2>4
       DEF AnalystOK, PolicyInv, AnalystInv, LineageInv, Truthful
<1> QED
  BY <1>2, <1>3 DEF AnalystDies

\* The analyst's command and files stay in step with each other.
LEMMA AnalystStep ==
  ASSUME TypeOK, BenchInv, Sound(EventsRead), AnalystOK, [Next]_vars
  PROVE  AnalystOK'
<1>1. \A p : Made(p) => Made(p)'
  <2> SUFFICES ASSUME NEW p, Made(p) PROVE Made(p)'
    OBVIOUS
  <2>1. PICK E : E = p.basis
    OBVIOUS
  <2>2. Sound(E)'
    BY <2>1, SoundKept DEF Made
  <2> QED
    BY <2>1, <2>2 DEF Made
<1>2. CASE UNCHANGED analysing
  BY <1>1, <1>2
     DEF analysing, AnalystOK, OutputsType, PolicyInv, AnalystInv, LineageInv, Truthful, Matches
<1>3. CASE AnalystMoves
  <2>1. CASE Invoke
    BY <1>1, <2>1, InvokeStep
  <2>2. ASSUME NEW f \in Outputs, Write(f) PROVE AnalystOK'
    <3>1. CASE f = "lineage"
      BY <1>1, <2>2, <3>1, LineageStep
    <3>2. CASE f # "lineage"
      <4>1. f \in {"policy", "dashboard"}
        BY <3>2 DEF Outputs
      <4> QED
        BY <1>1, <2>2, <4>1, WriteStep
    <3> QED
      BY <3>1, <3>2
  <2>3. CASE Hash
    BY <1>1, <2>3, HashStep
  <2>4. CASE AnalystDies
    BY <1>1, <2>4, DiesStep
  <2> QED
    BY <1>3, <2>1, <2>2, <2>3, <2>4 DEF AnalystMoves
<1> QED
  BY <1>2, <1>3, AnalystSteps

-----------------------------------------------------------------------------
(* The inductive invariant *)

\* The history variables and the files keep their types.
LEMMA TypeStep ==
  ASSUME TypeOK, BenchInv, AnalystOK', [Next]_vars
  PROVE  TypeOK'
<1>1. Budget \in Nat
  BY RolloutPipelineAssumption
<1>2. /\ events' \in Files \cup {None} /\ partial' \in Files \cup {None}
      /\ bench' \in Benches \cup {None}
      /\ runs' \in 0..Budget /\ whole' \subseteq 1..runs' /\ surprises' \in 0..Budget
  <2>1. CASE UNCHANGED benching
    BY <2>1 DEF benching, TypeOK
  <2>2. CASE /\ runs' = runs + 1 /\ runs < Budget
             /\ UNCHANGED <<whole, surprises>>
             /\ bench' \in Benches
             /\ \/ events' = None /\ partial' = partial
                \/ partial' = None /\ events' = events
    <3>1. runs' \in 0..Budget /\ whole' \subseteq 1..runs'
      BY <1>1, <2>2 DEF TypeOK
    <3> QED
      BY <2>2, <3>1 DEF TypeOK
  <2>3. CASE /\ UNCHANGED <<runs, whole>> /\ bench' \in Benches
             /\ surprises' \in 0..Budget
             /\ events' \in Files \cup {None} /\ partial' \in Files \cup {None}
    BY <2>3 DEF TypeOK
  <2>4. CASE /\ bench # None /\ bench' = None /\ events' = partial /\ partial' = None
             /\ whole' = whole \cup {runs} /\ UNCHANGED <<runs, surprises>>
    <3>1. runs \in Nat \ {0}
      BY <2>4 DEF BenchInv
    <3> QED
      BY <2>4, <3>1 DEF TypeOK
  <2>5. CASE bench' = None /\ UNCHANGED <<events, partial, runs, whole, surprises>>
    BY <2>5 DEF TypeOK
  <2> QED
    BY <2>1, <2>2, <2>3, <2>4, <2>5, BenchSteps
<1>3. reports' \in 0..Budget /\ described' \in BOOLEAN
  <2>1. CASE UNCHANGED analysing
    BY <2>1 DEF analysing, TypeOK
  <2>2. CASE Invoke
    BY <1>1, <2>2 DEF Invoke, TypeOK
  <2>3. CASE \E f \in Outputs : Write(f)
    <3>1. PICK f \in Outputs : Write(f)
      BY <2>3
    <3>2. described' = (f = "lineage") /\ reports' = reports
      BY <3>1 DEF Write
    <3>3. (f = "lineage") \in BOOLEAN
      OBVIOUS
    <3> QED
      BY <3>2, <3>3 DEF TypeOK
  <2>4. CASE Hash \/ AnalystDies
    BY <2>4 DEF Hash, AnalystDies, TypeOK
  <2> QED
    BY <2>1, <2>2, <2>3, <2>4, AnalystSteps DEF AnalystMoves
<1> QED
  BY <1>2, <1>3 DEF TypeOK, AnalystOK, OutputsType, Commands

\* The analyst's part of the invariant.
LEMMA AnalystPart ==
  IInv <=> TypeOK /\ BenchInv /\ Sound(EventsRead) /\ AnalystOK
BY DEF IInv, TypeOK, AnalystOK, OutputsType, Commands

\* Nothing has run: every file is absent.
LEMMA InitInv == Init => IInv
<1> SUFFICES ASSUME Init PROVE IInv
  OBVIOUS
<1> USE DEF Init
<1>1. EventsRead = {}
  BY DEF EventsRead, LinesOf
<1>2. Sound(EventsRead)
  BY <1>1, FS_EmptySet DEF Sound, OneRun
<1>3. DOMAIN outputs = Outputs /\ \A f \in Outputs : outputs[f] = None
  OBVIOUS
<1>4. TypeOK
  <2>1. /\ runs \in 0..Budget /\ whole \subseteq 1..runs /\ reports \in 0..Budget
        /\ surprises \in 0..Budget
    BY RolloutPipelineAssumption
  <2>2. described \in BOOLEAN
    OBVIOUS
  <2>3. \A f \in Outputs :
          outputs[f] \in {None, Torn} \cup (IF f = "lineage" THEN Lineages ELSE Policies)
    BY <1>3
  <2> QED
    BY <1>3, <2>1, <2>2, <2>3 DEF TypeOK
<1>5. "policy" \in Outputs /\ "lineage" \in Outputs
  BY DEF Outputs
<1>6. BenchInv /\ PolicyInv /\ AnalystInv /\ LineageInv
  BY <1>3, <1>5 DEF BenchInv, PolicyInv, AnalystInv, LineageInv
<1> QED
  BY <1>2, <1>4, <1>6 DEF IInv

\* Every step keeps it.
LEMMA Inductive == IInv /\ [Next]_vars => IInv'
<1> SUFFICES ASSUME IInv, [Next]_vars PROVE IInv'
  OBVIOUS
<1>1. TypeOK /\ BenchInv /\ Sound(EventsRead) /\ AnalystOK
  BY AnalystPart
<1>2. BenchInv'
  BY <1>1, BenchStep
<1>3. Sound(EventsRead)'
  BY <1>1, EventsStep
<1>4. AnalystOK'
  BY <1>1, AnalystStep
<1>5. TypeOK'
  BY <1>1, <1>4, TypeStep
<1> QED
  BY <1>2, <1>3, <1>4, <1>5 DEF IInv, AnalystOK

\* It always holds.
LEMMA InvariantHolds == Spec => []IInv
BY InitInv, Inductive, PTL DEF Spec

-----------------------------------------------------------------------------
(* The properties *)

\* Every variable keeps its type, for every manifest and every bound.
THEOREM TypeCorrect == Spec => []TypeOK
<1>1. IInv => TypeOK
  BY DEF IInv
<1> QED
  BY <1>1, InvariantHolds, PTL

\* The audit, the segments and the doctor pair the arms of a task alike, on
\* every events file that a benchmark can leave (analytics.py:118-127,
\* evidence.py:72-82, doctor.py:68-89).
THEOREM ReadersPairAlike == Spec => []PairingsAgree
<1>1. IInv => PairingsAgree
  <2> SUFFICES ASSUME IInv PROVE PairingsAgree
    OBVIOUS
  <2>1. PICK E : E = EventsRead
    OBVIOUS
  <2>2. E \in SUBSET Events /\ IsFiniteSet(E) /\ OneRun(E)
    BY <2>1 DEF IInv, Sound
  <2>3. \A type \in Types : AuditPairs(E, type) = Cardinality(Paired(E, type))
    BY <2>2, AuditPairsTheSame
  <2>4. DoctorPasses(E) => \A e \in E : e \in Rows(E, TaskType[e.task], e.arm)
    BY <2>2, DoctorSeesTheRows
  <2>5. Duplicates(E) = 0
    BY <2>2, NoDuplicates
  <2> QED
    BY <2>1, <2>3, <2>4, <2>5 DEF PairingsAgree
<1> QED
  BY <1>1, InvariantHolds, PTL

\* A lineage manifest matches the files of the run_phase2 that wrote it until
\* another command writes one, and while it matches them both can be made
\* again from the events it names, unless these moved meanwhile
\* (cli.py:269-324).
THEOREM LineageTruthful == Spec => []LineageDescribes
<1>1. IInv => LineageDescribes
  <2> SUFFICES ASSUME IInv PROVE LineageDescribes
    OBVIOUS
  <2>1. PICK l : l = outputs["lineage"]
    OBVIOUS
  <2>2. /\ l \notin {None, Torn} => Truthful(l)
        /\ described => Matches(l)
    BY <2>1 DEF IInv, LineageInv
  <2>3. Matches(l) => l \notin {None, Torn}
    BY NoneAssumption DEF Matches
  <2> QED
    BY <2>1, <2>2, <2>3 DEF LineageDescribes, Matches, Truthful
<1> QED
  BY <1>1, InvariantHolds, PTL

\* A policy file lets a runtime compress a type only on production evidence
\* of one whole run, with enough pairs of that very type and a cheaper
\* compressed arm, as long as the cost threshold is not set to nothing, which
\* the code never does (policy.py:40-118, analytics.py:116-177).
THEOREM EnabledJustified ==
  ASSUME MinimumImprovement # 0
  PROVE  Spec => []EnabledIsJustified
<1>1. IInv => EnabledIsJustified
  <2> SUFFICES ASSUME IInv,
                      outputs["policy"] \notin {None, Torn},
                      NEW type \in Types, ModeFor(outputs["policy"], type) # "off"
               PROVE  LET B == outputs["policy"].basis
                          used(arm) == {e \in B : /\ TaskType[e.task] = type /\ e.arm = arm
                                                  /\ \E f \in B : f.task = e.task /\ f.arm # arm}
                          won(rows) == Cardinality({e \in rows : e.success})
                          cost(rows) == MapThenSumSet(LAMBDA e : e.cost, rows)
                          baseline == used("baseline")
                          compressed == used("compressed")
                      IN  /\ outputs["policy"].label = "production"
                          /\ \A e, f \in B : e.run = f.run
                          /\ \A e \in B : e.run \in whole => Cardinality(B) = 2 * Len(Manifest)
                          /\ Cardinality(baseline) >= MinimumPairedTasks
                          /\ Cardinality(compressed) >= MinimumPairedTasks
                          /\ won(compressed) > 0
                          /\ cost(compressed) * won(baseline) < cost(baseline) * won(compressed)
    BY DEF EnabledIsJustified
  <2>1. PICK p : p = outputs["policy"]
    OBVIOUS
  <2>2. PICK B : B = p.basis
    OBVIOUS
  <2>3. Made(p) /\ p \in Policies /\ p.label \in Labels
    BY <2>1 DEF IInv, PolicyInv, TypeOK, Outputs, Policies
  <2>4. /\ B \in SUBSET Events /\ IsFiniteSet(B) /\ OneRun(B)
        /\ \A e \in B : e.run \in whole => Cardinality(B) = 2 * Len(Manifest)
        /\ p = Policy(B, p.label)
    BY <2>2, <2>3 DEF Made, Sound
  <2> DEFINE baseline == Rows(B, type, "baseline")
             compressed == Rows(B, type, "compressed")
  <2>5. /\ p.label = "production"
        /\ Cardinality(baseline) >= MinimumPairedTasks
        /\ Cardinality(compressed) >= MinimumPairedTasks
        /\ Successes(compressed) > 0
        /\ TotalCost(compressed) * Successes(baseline)
             < TotalCost(baseline) * Successes(compressed)
    BY <2>1, <2>3, <2>4, CompressesForAReason
  <2>6. \A arm \in Arms :
          Rows(B, type, arm) = {e \in B : /\ TaskType[e.task] = type /\ e.arm = arm
                                          /\ \E f \in B : f.task = e.task /\ f.arm # arm}
    <3>1. \A e \in B : e.task \in Tasks /\ e.arm \in Arms
      BY <2>4 DEF Events
    <3> QED
      BY <3>1 DEF Rows, Paired, Arms
  <2>7. "baseline" \in Arms /\ "compressed" \in Arms
    BY DEF Arms
  <2> QED
    BY <2>1, <2>2, <2>4, <2>5, <2>6, <2>7 DEF OneRun, Successes, TotalCost
<1> QED
  BY <1>1, InvariantHolds, PTL

\* Worse evidence never unlocks more: had one compressed arm of a run failed,
\* been slower, fallen back or cost more, the mode of its type would be no
\* higher, for any thresholds, any number of tasks and the rounding of the
\* interval (policy.py:40-65, analytics.py:75-104, metrics.py:12-49).
THEOREM WorseUnlocksNoMore == Spec => []WorseNeverUnlocks
<1>1. IInv => WorseNeverUnlocks
  <2> SUFFICES ASSUME IInv PROVE WorseNeverUnlocks
    OBVIOUS
  <2>1. PICK E : E = EventsRead
    OBVIOUS
  <2>2. E \in SUBSET Events /\ IsFiniteSet(E) /\ OneRun(E)
    BY <2>1 DEF IInv, Sound
  <2>3. ASSUME NEW e \in E, e.arm = "compressed", NEW w \in Worse(e), NEW type
        PROVE  Rank[ModeFor(Policy((E \ {e}) \cup {w}, "production"), type)]
                 <= Rank[ModeFor(Policy(E, "production"), type)]
    BY <2>2, <2>3, WorseGivesNoMore DEF Replaced
  <2> QED
    BY <2>1, <2>3 DEF WorseNeverUnlocks
<1> QED
  BY <1>1, InvariantHolds, PTL
=============================================================================
