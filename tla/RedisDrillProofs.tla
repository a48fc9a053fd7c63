-------------------------- MODULE RedisDrillProofs --------------------------
(***************************************************************************)
(* Proofs about RedisDrill, for every bound on the kinds of trouble that   *)
(* one drill meets.                                                        *)
(*                                                                         *)
(* Three parts.  IInv speaks of the shape of the script still to do and    *)
(* gives the theorems about cleanup and evidence.  EarnedInv says of every *)
(* place of the script what the gates before it have seen and which Redis  *)
(* holds what, and gives PassEarned.  CalmInv is the same frame without    *)
(* trouble, where every gate must pass, and gives FailureHasCause.         *)
(***************************************************************************)
EXTENDS RedisDrill, SequenceTheorems, TLAPS

Levels == {"construct", "try", "run", "handler", "cleanup"}
FileNames == {EvidenceFiles[i] : i \in DOMAIN EvidenceFiles}

\* What the coordinator does after the evidence is written.
Late == {"stop", "remove"}

\* A file, or the sums, is written after the first i steps.
FileAfter(d, i, f) == \E j \in DOMAIN d : i < j /\ d[j].op = "file" /\ d[j].of = f
SumsAfter(d, i) == \E j \in DOMAIN d : i < j /\ d[j].op = "sums"

\* Every step but those of the evidence and the late ones is followed by all
\* files of the evidence, and every one but the sums and the late ones by the
\* sums.
Covers(d) ==
  \A i \in DOMAIN d :
    /\ d[i].op \notin Late \cup {"file", "sums"} => \A f \in FileNames : FileAfter(d, i, f)
    /\ d[i].op \notin Late \cup {"sums"} => SumsAfter(d, i)

\* It writes the whole evidence.
Writes(d) == SumsAfter(d, 0) /\ \A f \in FileNames : FileAfter(d, 0, f)

\* It ends in the cleanup of run_drill, or in what is left of it.
Ends(d) ==
  /\ Len(d) >= 1 => d[Len(d)] = Cleanup[2]
  /\ Len(d) >= 2 => d[Len(d) - 1] = Cleanup[1]

\* Nothing is left of the constructor.
Constructed(d) == \A i \in DOMAIN d : d[i].level # "construct" /\ d[i].op # "construct"

\* The operations of the scripts but the constructor's, the names they carry.
Ops == {"preflight", "write", "verify", "isolation", "ttl_write", "poll_found",
        "poll_expired", "poll_missing", "negative", "privacy", "spawn", "await",
        "proceed", "collect", "startup", "start", "stop", "clear", "clean", "cost",
        "file", "sums", "unhandled", "remove"}
Names == {"preflight", "synthetic_write", "application_restart_exact_recovery",
          "redis_aof_restart_exact_recovery", "tenant_session_isolation",
          "found_expired_not_found", "wrong_key_tamper_swap_corrupt",
          "ciphertext_at_rest_and_privacy", "read_outage_unhealthy",
          "safe_proxy_startup_fail_closed", "fresh_process_recovers_after_outage",
          "clean_volume_repeat_run", "zero_provider_calls_and_cost",
          "environment", "results", "manifest", "events", "report", None}

AllSteps == [op : Ops \cup {"construct"}, of : Names, level : Levels]

\* The steps still to do.
ScriptInv ==
  /\ todo \in Seq(AllSteps)
  /\ Covers(todo) /\ Ends(todo)
  /\ within = "ping" => todo # << >> /\ Head(todo).op = "start"
  /\ within = "wait" => todo # << >> /\ Head(todo).op = "stop"
  /\ Constructed(todo) \/
       (todo # << >> /\ Head(todo).op = "construct" /\ Constructed(Tail(todo)))
  /\ code = "raised" =>
       \A i \in DOMAIN todo : todo[i].op \in Late /\ todo[i].level = "cleanup"
  /\ "setup" \in trouble => todo = << >>

\* The drill's Redis and its directory.
LeftInv ==
  /\ todo # << >> /\ Head(todo).op = "construct" => child = "none"
  /\ Len(todo) = 1 => child = "none"
  /\ todo = << >> /\ code # "raised" =>
       child = "none" /\ (runtime => "setup" \in trouble)

\* The evidence that is no longer to be written was written from the gates.
EvidenceInv ==
  /\ DOMAIN files = FileNames
  /\ code # "raised" /\ "setup" \notin trouble =>
       /\ \A f \in FileNames :
            \/ files[f] = gates
            \/ FileAfter(todo, 0, f)
       /\ \/ sums = files /\ code \in {"zero", "one"} /\ (code = "zero" <=> Passed(gates))
          \/ SumsAfter(todo, 0)

\* run_drill returns what was decided, when nothing is left to do.
ExitInv == exit \notin {"running", "killed"} => todo = << >> /\ exit = code

\* The drill's Redis came up some number of times.
EpochInv == epoch \in Nat

IInv == TypeOK /\ EpochInv /\ ScriptInv /\ LeftInv /\ EvidenceInv /\ ExitInv

-----------------------------------------------------------------------------
(* The coordinator's scripts *)

\* Steps without a level.
PlainSteps == [op : Ops, of : Names]

\* Putting a script before or after another keeps what they cover and write.
LEMMA ConcatShape ==
  ASSUME NEW S, NEW s \in Seq(S), NEW t \in Seq(S)
  PROVE  /\ Covers(s) /\ Covers(t) => Covers(s \o t)
         /\ Covers(t) /\ Writes(t) => Covers(s \o t)
         /\ Writes(s) \/ Writes(t) => Writes(s \o t)
         /\ Ends(t) /\ Len(t) >= 2 => Ends(s \o t)
         /\ Constructed(s) /\ Constructed(t) => Constructed(s \o t)
<1> DEFINE m == Len(s)
           n == Len(t)
           u == s \o t
<1>1. /\ m \in Nat /\ n \in Nat
      /\ DOMAIN s = 1..m /\ DOMAIN t = 1..n /\ DOMAIN u = 1..(m + n) /\ Len(u) = m + n
      /\ \A i \in 1..(m + n) : u[i] = IF i <= m THEN s[i] ELSE t[i - m]
  BY ConcatProperties
<1> HIDE DEF m, n, u
<1>2. \A i \in DOMAIN s : i \in DOMAIN u /\ u[i] = s[i]
  BY <1>1
<1>3. \A j \in DOMAIN t : j + m \in DOMAIN u /\ u[j + m] = t[j]
  BY <1>1
<1>4. \A i \in DOMAIN u : \/ i \in DOMAIN s /\ u[i] = s[i]
                          \/ i - m \in DOMAIN t /\ u[i] = t[i - m]
  BY <1>1
<1>5. ASSUME NEW i \in Nat, NEW f
      PROVE  /\ FileAfter(s, i, f) => FileAfter(u, i, f)
             /\ SumsAfter(s, i) => SumsAfter(u, i)
  BY <1>2 DEF FileAfter, SumsAfter
<1>6. ASSUME NEW i \in Nat, NEW k \in 0..(m + i), NEW f
      PROVE  /\ FileAfter(t, i, f) => FileAfter(u, k, f)
             /\ SumsAfter(t, i) => SumsAfter(u, k)
  <2>1. \A j \in DOMAIN t : i < j => k < j + m
    BY <1>1
  <2>2. ASSUME FileAfter(t, i, f) PROVE FileAfter(u, k, f)
    <3>1. PICK j \in DOMAIN t : i < j /\ t[j].op = "file" /\ t[j].of = f
      BY <2>2 DEF FileAfter
    <3> QED
      BY <1>3, <2>1, <3>1 DEF FileAfter
  <2>3. ASSUME SumsAfter(t, i) PROVE SumsAfter(u, k)
    <3>1. PICK j \in DOMAIN t : i < j /\ t[j].op = "sums"
      BY <2>3 DEF SumsAfter
    <3> QED
      BY <1>3, <2>1, <3>1 DEF SumsAfter
  <2> QED
    BY <2>2, <2>3
<1>7. Writes(s) \/ Writes(t) => Writes(u)
  <2>1. 0 \in Nat /\ 0 \in 0..(m + 0)
    BY <1>1
  <2> QED
    BY <1>5, <1>6, <2>1 DEF Writes
<1>8. ASSUME Covers(t), Covers(s) \/ Writes(t), NEW i \in DOMAIN u
       PROVE  /\ u[i].op \notin Late \cup {"file", "sums"} =>
                   \A f \in FileNames : FileAfter(u, i, f)
              /\ u[i].op \notin Late \cup {"sums"} => SumsAfter(u, i)
  <2>1. CASE i \in DOMAIN s /\ u[i] = s[i] /\ Writes(t)
    <3>1. 0 \in Nat /\ i \in 0..(m + 0)
      BY <1>1, <2>1
    <3> QED
      BY <1>6, <2>1, <3>1 DEF Writes
  <2>2. CASE i \in DOMAIN s /\ u[i] = s[i] /\ Covers(s)
    <3>1. i \in Nat
      BY <1>1, <2>2
    <3> QED
      BY <1>5, <2>2, <3>1 DEF Covers
  <2>3. CASE i - m \in DOMAIN t /\ u[i] = t[i - m]
    <3>1. i - m \in Nat /\ i \in 0..(m + (i - m))
      BY <1>1, <2>3
    <3> QED
      BY <1>6, <1>8, <2>3, <3>1 DEF Covers
  <2> QED
    BY <1>4, <1>8, <2>1, <2>2, <2>3
<1>9. Covers(t) /\ (Covers(s) \/ Writes(t)) => Covers(u)
  BY <1>8 DEF Covers
<1>10. Ends(t) /\ n >= 2 => Ends(u)
  <2>1. n >= 2 => u[m + n] = t[n] /\ u[m + n - 1] = t[n - 1]
    BY <1>1
  <2> QED
    BY <1>1, <2>1 DEF Ends, n
<1>11. Constructed(s) /\ Constructed(t) => Constructed(u)
  BY <1>1, <1>4 DEF Constructed
<1> QED
  BY <1>7, <1>10, <1>11, <1>9 DEF n, u

\* The constructor comes first and nothing else is one.
ConstructFirst(d) ==
  /\ d # << >> /\ d[1].op = "construct"
  /\ \A i \in DOMAIN d : i > 1 => d[i].level # "construct" /\ d[i].op # "construct"

\* It stays first when steps are put after it.
LEMMA ConcatFirst ==
  ASSUME NEW S, NEW s \in Seq(S), NEW t \in Seq(S), ConstructFirst(s), Constructed(t)
  PROVE  s \o t \in Seq(S) /\ ConstructFirst(s \o t)
<1> DEFINE m == Len(s)
           n == Len(t)
           u == s \o t
<1>1. /\ m \in Nat /\ n \in Nat /\ m # 0
      /\ DOMAIN s = 1..m /\ DOMAIN t = 1..n /\ DOMAIN u = 1..(m + n) /\ Len(u) = m + n
      /\ u \in Seq(S)
      /\ \A i \in 1..(m + n) : u[i] = IF i <= m THEN s[i] ELSE t[i - m]
  BY ConcatProperties, EmptySeq DEF ConstructFirst
<1> HIDE DEF m, n, u
<1>2. u # << >>
  BY <1>1, EmptySeq
<1> QED
  BY <1>1, <1>2 DEF ConstructFirst, Constructed, u

\* What follows the constructor.
LEMMA TailConstructed ==
  ASSUME NEW S, NEW s \in Seq(S), ConstructFirst(s)
  PROVE  Head(s).op = "construct" /\ Constructed(Tail(s))
<1>1. /\ Len(s) \in Nat \ {0} /\ DOMAIN s = 1..Len(s) /\ Head(s) = s[1]
  BY EmptySeq DEF ConstructFirst
<1>2. /\ DOMAIN Tail(s) = 1..(Len(s) - 1)
      /\ \A i \in 1..(Len(s) - 1) : Tail(s)[i] = s[i + 1]
  BY <1>1, HeadTailProperties DEF ConstructFirst
<1> QED
  BY <1>1, <1>2 DEF ConstructFirst, Constructed

\* A level changes neither the operations nor their order.
LEMMA InShape ==
  ASSUME NEW s \in Seq(PlainSteps), NEW level \in Levels
  PROVE  /\ In(level, s) \in Seq(AllSteps)
         /\ Len(In(level, s)) = Len(s)
         /\ \A i \in 1..Len(s) : In(level, s)[i].op = s[i].op /\ In(level, s)[i].of = s[i].of
         /\ Covers(s) => Covers(In(level, s))
         /\ Writes(s) => Writes(In(level, s))
         /\ level # "construct" => Constructed(In(level, s))
<1>1. /\ DOMAIN s = 1..Len(s) /\ Len(s) \in Nat
      /\ \A i \in DOMAIN s : s[i] \in PlainSteps
  OBVIOUS
<1>2. /\ DOMAIN In(level, s) = 1..Len(s)
      /\ \A i \in 1..Len(s) : In(level, s)[i] = [op |-> s[i].op, of |-> s[i].of, level |-> level]
  BY <1>1 DEF In
<1>3. In(level, s) \in Seq(AllSteps) /\ Len(In(level, s)) = Len(s)
  <2>1. \A i \in 1..Len(s) : In(level, s)[i] \in AllSteps
    BY <1>1, <1>2 DEF PlainSteps, AllSteps
  <2> QED
    BY <1>1, <1>2, <2>1 DEF In
<1>4. /\ Covers(s) => Covers(In(level, s))
      /\ Writes(s) => Writes(In(level, s))
  BY <1>1, <1>2 DEF Covers, Writes, FileAfter, SumsAfter
<1>5. level # "construct" => Constructed(In(level, s))
  BY <1>1, <1>2 DEF PlainSteps, Ops, Constructed
<1> QED
  BY <1>2, <1>3, <1>4, <1>5

\* write_evidence writes the files, then their sums.
LEMMA EvidenceShape ==
  /\ Evidence \in Seq(PlainSteps) /\ Covers(Evidence) /\ Writes(Evidence)
  /\ Len(Evidence) = 6 /\ Evidence[6].op = "sums"
  /\ \A i \in 1..5 : Evidence[i].op = "file" /\ Evidence[i].of = EvidenceFiles[i]
  /\ Stop \in Seq(PlainSteps) /\ Covers(Stop) /\ Len(Stop) = 1 /\ Stop[1].op = "stop"
<1> DEFINE F == [i \in 1..Len(EvidenceFiles) |-> Step("file", EvidenceFiles[i])]
           T == <<Call("sums")>>
<1>1. Len(EvidenceFiles) = 5 /\ \A i \in 1..5 : EvidenceFiles[i] \in Names
  BY DEF EvidenceFiles, Names
<1>2. /\ F \in Seq(PlainSteps) /\ Len(F) = 5 /\ DOMAIN F = 1..5
      /\ \A i \in 1..5 : F[i] = Step("file", EvidenceFiles[i])
  BY <1>1 DEF Step, PlainSteps, Ops
<1>3. T \in Seq(PlainSteps) /\ Len(T) = 1 /\ T[1] = Call("sums")
  BY DEF Call, Step, PlainSteps, Ops, Names
<1> HIDE DEF F, T
<1>4. /\ Evidence \in Seq(PlainSteps) /\ Len(Evidence) = 6 /\ DOMAIN Evidence = 1..6
      /\ \A i \in 1..5 : Evidence[i] = Step("file", EvidenceFiles[i])
      /\ Evidence[6] = Call("sums")
  <2>1. Evidence = F \o T
    BY DEF Evidence, F, T
  <2>2. /\ F \o T \in Seq(PlainSteps) /\ Len(F \o T) = Len(F) + Len(T)
        /\ \A i \in 1..Len(F) + Len(T) :
             (F \o T)[i] = IF i <= Len(F) THEN F[i] ELSE T[i - Len(F)]
    BY <1>2, <1>3, ConcatProperties, ZenonT(60)
  <2>3. /\ Evidence \in Seq(PlainSteps) /\ Len(Evidence) = 6
        /\ \A i \in 1..6 : Evidence[i] = IF i <= 5 THEN F[i] ELSE T[i - 5]
    BY <2>1, <2>2, <1>2, <1>3
  <2> QED
    BY <2>3, <1>2, <1>3
<1>5. \A i \in 1..5 : Evidence[i].op = "file" /\ Evidence[i].of = EvidenceFiles[i]
  BY <1>4 DEF Step
<1>6. Evidence[6].op = "sums"
  BY <1>4 DEF Call, Step
<1>7. \A i \in 0..5 : SumsAfter(Evidence, i)
  BY <1>4, <1>6 DEF SumsAfter
<1>8. \A f \in FileNames : FileAfter(Evidence, 0, f)
  <2> TAKE f \in FileNames
  <2>1. PICK i \in 1..5 : f = EvidenceFiles[i]
    BY <1>1 DEF FileNames, EvidenceFiles
  <2> QED
    BY <2>1, <1>4, <1>5 DEF FileAfter
<1>9. Covers(Evidence) /\ Writes(Evidence)
  BY <1>4, <1>5, <1>6, <1>7, <1>8 DEF Covers, Writes
<1>10. /\ Stop \in Seq(PlainSteps) /\ Len(Stop) = 1 /\ DOMAIN Stop = 1..1
       /\ Stop[1].op = "stop"
  BY DEF Stop, Call, Step, PlainSteps, Ops, Names
<1>11. Covers(Stop)
  BY <1>10 DEF Covers, Late
<1> QED
  BY <1>4, <1>5, <1>6, <1>9, <1>10, <1>11

\* The phases of run(), one by one.
LEMMA BodyIs ==
  /\ Body \in Seq(PlainSteps) /\ Len(Body) = 32
  /\ Body[1] = Step("preflight", "preflight")
  /\ Body[2] = Step("write", "synthetic_write")
  /\ Body[3] = Step("verify", "application_restart_exact_recovery")
  /\ Body[4] = Call("stop")
  /\ Body[5] = Call("start")
  /\ Body[6] = Step("verify", "redis_aof_restart_exact_recovery")
  /\ Body[7] = Step("isolation", "tenant_session_isolation")
  /\ Body[8] = Call("ttl_write")
  /\ Body[9] = Call("poll_found")
  /\ Body[10] = Call("poll_expired")
  /\ Body[11] = Step("poll_missing", "found_expired_not_found")
  /\ Body[12] = Step("negative", "wrong_key_tamper_swap_corrupt")
  /\ Body[13] = Step("privacy", "ciphertext_at_rest_and_privacy")
  /\ Body[14] = Call("spawn")
  /\ Body[15] = Call("await")
  /\ Body[16] = Call("stop")
  /\ Body[17] = Call("proceed")
  /\ Body[18] = Step("collect", "read_outage_unhealthy")
  /\ Body[19] = Step("startup", "safe_proxy_startup_fail_closed")
  /\ Body[20] = Call("start")
  /\ Body[21] = Step("verify", "fresh_process_recovers_after_outage")
  /\ Body[22] = Call("stop")
  /\ Body[23] = Call("clear")
  /\ Body[24] = Call("start")
  /\ Body[25] = Call("clean")
  /\ Body[26] = Call("write")
  /\ Body[27] = Call("verify")
  /\ Body[28] = Call("stop")
  /\ Body[29] = Call("start")
  /\ Body[30] = Call("verify")
  /\ Body[31] = Step("privacy", "clean_volume_repeat_run")
  /\ Body[32] = Step("cost", "zero_provider_calls_and_cost")
<1> DEFINE A == <<Step("preflight", "preflight"),
                   Step("write", "synthetic_write"),
                   Step("verify", "application_restart_exact_recovery")>>
           B == <<Step("verify", "redis_aof_restart_exact_recovery"),
                   Step("isolation", "tenant_session_isolation"),
                   Call("ttl_write"),
                   Call("poll_found"),
                   Call("poll_expired"),
                   Step("poll_missing", "found_expired_not_found"),
                   Step("negative", "wrong_key_tamper_swap_corrupt"),
                   Step("privacy", "ciphertext_at_rest_and_privacy"),
                   Call("spawn"),
                   Call("await"),
                   Call("stop"),
                   Call("proceed"),
                   Step("collect", "read_outage_unhealthy"),
                   Step("startup", "safe_proxy_startup_fail_closed"),
                   Call("start"),
                   Step("verify", "fresh_process_recovers_after_outage"),
                   Call("stop"),
                   Call("clear"),
                   Call("start"),
                   Call("clean"),
                   Call("write"),
                   Call("verify")>>
           C == <<Call("verify"),
                   Step("privacy", "clean_volume_repeat_run"),
                   Step("cost", "zero_provider_calls_and_cost")>>
           AR == A \o Restart
           ARB == AR \o B
           ARBR == ARB \o Restart
<1>1. Body = ARBR \o C
  BY DEF Body
<1>2. \A o \in Ops, g \in Names : Step(o, g) \in PlainSteps
  BY DEF Step, PlainSteps
<1>3. \A o \in Ops : Call(o) \in PlainSteps
  BY DEF Call, Step, PlainSteps, Names
<1>4. /\ A \in Seq(PlainSteps) /\ Len(A) = 3
      /\ A[1] = Step("preflight", "preflight")
      /\ A[2] = Step("write", "synthetic_write")
      /\ A[3] = Step("verify", "application_restart_exact_recovery")
  BY <1>2, <1>3 DEF Ops, Names
<1>5. /\ B \in Seq(PlainSteps) /\ Len(B) = 22
      /\ B[1] = Step("verify", "redis_aof_restart_exact_recovery")
      /\ B[2] = Step("isolation", "tenant_session_isolation")
      /\ B[3] = Call("ttl_write")
      /\ B[4] = Call("poll_found")
      /\ B[5] = Call("poll_expired")
      /\ B[6] = Step("poll_missing", "found_expired_not_found")
      /\ B[7] = Step("negative", "wrong_key_tamper_swap_corrupt")
      /\ B[8] = Step("privacy", "ciphertext_at_rest_and_privacy")
      /\ B[9] = Call("spawn")
      /\ B[10] = Call("await")
      /\ B[11] = Call("stop")
      /\ B[12] = Call("proceed")
      /\ B[13] = Step("collect", "read_outage_unhealthy")
      /\ B[14] = Step("startup", "safe_proxy_startup_fail_closed")
      /\ B[15] = Call("start")
      /\ B[16] = Step("verify", "fresh_process_recovers_after_outage")
      /\ B[17] = Call("stop")
      /\ B[18] = Call("clear")
      /\ B[19] = Call("start")
      /\ B[20] = Call("clean")
      /\ B[21] = Call("write")
      /\ B[22] = Call("verify")
  BY <1>2, <1>3 DEF Ops, Names
<1>6. /\ C \in Seq(PlainSteps) /\ Len(C) = 3
      /\ C[1] = Call("verify")
      /\ C[2] = Step("privacy", "clean_volume_repeat_run")
      /\ C[3] = Step("cost", "zero_provider_calls_and_cost")
  BY <1>2, <1>3 DEF Ops, Names
<1>7. /\ Restart \in Seq(PlainSteps) /\ Len(Restart) = 2
      /\ Restart[1] = Call("stop") /\ Restart[2] = Call("start")
  BY <1>3 DEF Ops, Restart
<1> HIDE DEF A, B, C
<1>8. /\ AR \in Seq(PlainSteps) /\ Len(AR) = 5
      /\ \A i \in 1..5 : AR[i] = IF i <= 3 THEN A[i] ELSE Restart[i - 3]
  <2>1. /\ A \o Restart \in Seq(PlainSteps) /\ Len(A \o Restart) = Len(A) + Len(Restart)
        /\ \A i \in 1..Len(A) + Len(Restart) :
             (A \o Restart)[i] = IF i <= Len(A) THEN A[i] ELSE Restart[i - Len(A)]
    BY <1>4, <1>7, ConcatProperties, ZenonT(60)
  <2>2. AR = A \o Restart
    BY DEF AR
  <2> HIDE DEF AR
  <2>3. /\ AR \in Seq(PlainSteps) /\ Len(AR) = Len(A) + Len(Restart)
        /\ \A i \in 1..Len(A) + Len(Restart) :
             AR[i] = IF i <= Len(A) THEN A[i] ELSE Restart[i - Len(A)]
    BY <2>1, <2>2, Zenon
  <2>4. Len(A) = 3 /\ Len(Restart) = 2
    BY <1>4, <1>7
  <2> QED
    BY <2>3, <2>4
<1> HIDE DEF AR
<1>9. /\ ARB \in Seq(PlainSteps) /\ Len(ARB) = 27
      /\ \A i \in 1..27 : ARB[i] = IF i <= 5 THEN AR[i] ELSE B[i - 5]
  <2>1. /\ AR \o B \in Seq(PlainSteps) /\ Len(AR \o B) = Len(AR) + Len(B)
        /\ \A i \in 1..Len(AR) + Len(B) :
             (AR \o B)[i] = IF i <= Len(AR) THEN AR[i] ELSE B[i - Len(AR)]
    BY <1>8, <1>5, ConcatProperties, ZenonT(60)
  <2>2. ARB = AR \o B
    BY DEF ARB
  <2> HIDE DEF ARB
  <2>3. /\ ARB \in Seq(PlainSteps) /\ Len(ARB) = Len(AR) + Len(B)
        /\ \A i \in 1..Len(AR) + Len(B) :
             ARB[i] = IF i <= Len(AR) THEN AR[i] ELSE B[i - Len(AR)]
    BY <2>1, <2>2, Zenon
  <2>4. Len(AR) = 5 /\ Len(B) = 22
    BY <1>8, <1>5
  <2> QED
    BY <2>3, <2>4
<1> HIDE DEF ARB
<1>10. /\ ARBR \in Seq(PlainSteps) /\ Len(ARBR) = 29
      /\ \A i \in 1..29 : ARBR[i] = IF i <= 27 THEN ARB[i] ELSE Restart[i - 27]
  <2>1. /\ ARB \o Restart \in Seq(PlainSteps) /\ Len(ARB \o Restart) = Len(ARB) + Len(Restart)
        /\ \A i \in 1..Len(ARB) + Len(Restart) :
             (ARB \o Restart)[i] = IF i <= Len(ARB) THEN ARB[i] ELSE Restart[i - Len(ARB)]
    BY <1>9, <1>7, ConcatProperties, ZenonT(60)
  <2>2. ARBR = ARB \o Restart
    BY DEF ARBR
  <2> HIDE DEF ARBR
  <2>3. /\ ARBR \in Seq(PlainSteps) /\ Len(ARBR) = Len(ARB) + Len(Restart)
        /\ \A i \in 1..Len(ARB) + Len(Restart) :
             ARBR[i] = IF i <= Len(ARB) THEN ARB[i] ELSE Restart[i - Len(ARB)]
    BY <2>1, <2>2, Zenon
  <2>4. Len(ARB) = 27 /\ Len(Restart) = 2
    BY <1>9, <1>7
  <2> QED
    BY <2>3, <2>4
<1> HIDE DEF ARBR
<1>11. /\ Body \in Seq(PlainSteps) /\ Len(Body) = 32
      /\ \A i \in 1..32 : Body[i] = IF i <= 29 THEN ARBR[i] ELSE C[i - 29]
  <2>1. /\ ARBR \o C \in Seq(PlainSteps) /\ Len(ARBR \o C) = Len(ARBR) + Len(C)
        /\ \A i \in 1..Len(ARBR) + Len(C) :
             (ARBR \o C)[i] = IF i <= Len(ARBR) THEN ARBR[i] ELSE C[i - Len(ARBR)]
    BY <1>10, <1>6, ConcatProperties, ZenonT(60)
  <2>2. Body = ARBR \o C
    BY <1>1
  <2>3. /\ Body \in Seq(PlainSteps) /\ Len(Body) = Len(ARBR) + Len(C)
        /\ \A i \in 1..Len(ARBR) + Len(C) :
             Body[i] = IF i <= Len(ARBR) THEN ARBR[i] ELSE C[i - Len(ARBR)]
    BY <2>1, <2>2, Zenon
  <2>4. Len(ARBR) = 29 /\ Len(C) = 3
    BY <1>10, <1>6
  <2> QED
    BY <2>3, <2>4
<1>12. /\ Body[1] = Step("preflight", "preflight")
       /\ Body[2] = Step("write", "synthetic_write")
       /\ Body[3] = Step("verify", "application_restart_exact_recovery")
       /\ Body[4] = Call("stop")
       /\ Body[5] = Call("start")
  BY <1>4, <1>7, <1>8, <1>9, <1>10, <1>11
<1>13. /\ Body[6] = Step("verify", "redis_aof_restart_exact_recovery")
       /\ Body[7] = Step("isolation", "tenant_session_isolation")
       /\ Body[8] = Call("ttl_write")
       /\ Body[9] = Call("poll_found")
       /\ Body[10] = Call("poll_expired")
       /\ Body[11] = Step("poll_missing", "found_expired_not_found")
       /\ Body[12] = Step("negative", "wrong_key_tamper_swap_corrupt")
       /\ Body[13] = Step("privacy", "ciphertext_at_rest_and_privacy")
       /\ Body[14] = Call("spawn")
       /\ Body[15] = Call("await")
       /\ Body[16] = Call("stop")
  BY <1>5, <1>9, <1>10, <1>11
<1>14. /\ Body[17] = Call("proceed")
       /\ Body[18] = Step("collect", "read_outage_unhealthy")
       /\ Body[19] = Step("startup", "safe_proxy_startup_fail_closed")
       /\ Body[20] = Call("start")
       /\ Body[21] = Step("verify", "fresh_process_recovers_after_outage")
       /\ Body[22] = Call("stop")
       /\ Body[23] = Call("clear")
       /\ Body[24] = Call("start")
       /\ Body[25] = Call("clean")
       /\ Body[26] = Call("write")
       /\ Body[27] = Call("verify")
  BY <1>5, <1>9, <1>10, <1>11
<1>15. /\ Body[28] = Call("stop")
       /\ Body[29] = Call("start")
       /\ Body[30] = Call("verify")
       /\ Body[31] = Step("privacy", "clean_volume_repeat_run")
       /\ Body[32] = Step("cost", "zero_provider_calls_and_cost")
  BY <1>6, <1>7, <1>10, <1>11
<1> QED
  BY <1>11, <1>12, <1>13, <1>14, <1>15

\* A script that run_drill follows from somewhere on: it covers its evidence
\* and ends in the cleanup.
RunScript(d) ==
  /\ d \in Seq(AllSteps) /\ Covers(d) /\ Ends(d) /\ Len(d) >= 2

\* The cleanup stops Redis and removes the directory.
LEMMA CleanupShape ==
  /\ RunScript(Cleanup) /\ Constructed(Cleanup) /\ Len(Cleanup) = 2
  /\ Cleanup[1].op = "stop" /\ Cleanup[1].level = "cleanup"
  /\ Cleanup[2].op = "remove" /\ Cleanup[2].level = "cleanup"
<1> DEFINE d == Stop \o <<Call("remove")>>
<1>1. /\ d \in Seq(PlainSteps) /\ Len(d) = 2 /\ DOMAIN d = 1..2
      /\ d[1].op = "stop" /\ d[2].op = "remove"
  BY DEF Stop, Call, Step, PlainSteps, Ops, Names
<1> HIDE DEF d
<1>2. Covers(d)
  BY <1>1 DEF Covers, Late
<1>3. Cleanup = In("cleanup", d)
  BY DEF Cleanup, d
<1>4. "cleanup" \in Levels /\ "cleanup" # "construct"
  BY DEF Levels
<1>5. /\ Cleanup \in Seq(AllSteps) /\ Len(Cleanup) = 2 /\ Covers(Cleanup)
      /\ Constructed(Cleanup)
  BY <1>1, <1>2, <1>3, <1>4, InShape
<1>6. /\ Cleanup[1] = [op |-> "stop", of |-> d[1].of, level |-> "cleanup"]
      /\ Cleanup[2] = [op |-> "remove", of |-> d[2].of, level |-> "cleanup"]
  BY <1>1, <1>3 DEF In
<1>7. Ends(Cleanup)
  BY <1>5 DEF Ends
<1> QED
  BY <1>5, <1>6, <1>7 DEF RunScript

\* Where the handler of run_drill, an early return of run(), a failing run()
\* and run_drill itself go on.
LEMMA ScriptShapes ==
  /\ \A d \in {Handler, Failing, EarlyReturn} :
       RunScript(d) /\ Writes(d) /\ Constructed(d)
  /\ RunScript(Script) /\ Writes(Script)
  /\ Head(Script).op = "construct" /\ Constructed(Tail(Script))
<1> DEFINE PS == Seq(PlainSteps)
           AS == Seq(AllSteps)
<1>1. {"try", "run", "handler", "construct", "cleanup"} \subseteq Levels
  BY DEF Levels
<1>2. /\ Cleanup \in AS /\ Covers(Cleanup) /\ Ends(Cleanup) /\ Len(Cleanup) = 2
      /\ Constructed(Cleanup)
  BY CleanupShape DEF RunScript
<1> DEFINE E1 == <<Call("unhandled")>> \o Evidence
           E2 == Stop \o Evidence
<1>3. <<Call("unhandled")>> \in PS
  BY DEF Call, Step, PlainSteps, Ops, Names
<1>4. /\ E1 \in PS /\ Covers(E1) /\ Writes(E1)
      /\ E2 \in PS /\ Covers(E2) /\ Writes(E2)
  BY <1>3, EvidenceShape, ConcatShape, ConcatProperties
<1> HIDE DEF PS, AS, E1, E2
<1>5. \A d \in AS : Len(d) \in Nat
  BY DEF AS
<1>6. ASSUME NEW s \in AS, Covers(s), Writes(s) \/ Writes(Cleanup)
      PROVE  RunScript(s \o Cleanup) /\ Writes(s \o Cleanup)
             /\ (Constructed(s) => Constructed(s \o Cleanup))
  <2>1. s \o Cleanup \in AS /\ Len(s \o Cleanup) = Len(s) + Len(Cleanup)
    BY <1>2, ConcatProperties, Zenon DEF AS
  <2>2. Len(s \o Cleanup) >= 2
    BY <2>1, <1>2, <1>5
  <2> QED
    BY <2>1, <2>2, <1>2, <1>6, ConcatShape DEF RunScript, AS
<1>7. RunScript(Handler) /\ Writes(Handler) /\ Constructed(Handler)
  <2>1. /\ In("handler", E1) \in AS /\ Covers(In("handler", E1)) /\ Writes(In("handler", E1))
        /\ Constructed(In("handler", E1))
    BY <1>1, <1>4, InShape DEF PS, AS
  <2> QED
    BY <2>1, <1>6 DEF Handler, E1
<1>8. /\ In("run", Stop) \in AS /\ Covers(In("run", Stop)) /\ Constructed(In("run", Stop))
  BY <1>1, EvidenceShape, InShape DEF AS
<1>9. RunScript(Failing) /\ Writes(Failing) /\ Constructed(Failing)
  <2>1. Failing = In("run", Stop) \o Handler
    BY DEF Failing
  <2>2. Handler \in AS /\ Covers(Handler) /\ Ends(Handler) /\ Len(Handler) >= 2
    BY <1>7 DEF RunScript, AS
  <2>3. Failing \in AS /\ Len(Failing) >= 2
    BY <2>1, <2>2, <1>5, <1>8, ConcatProperties DEF AS
  <2> QED
    BY <2>1, <2>2, <2>3, <1>7, <1>8, ConcatShape DEF RunScript, AS
<1>10. RunScript(EarlyReturn) /\ Writes(EarlyReturn) /\ Constructed(EarlyReturn)
  <2>1. /\ In("try", Evidence) \in AS /\ Covers(In("try", Evidence))
        /\ Writes(In("try", Evidence)) /\ Constructed(In("try", Evidence))
    BY <1>1, EvidenceShape, InShape DEF AS
  <2> DEFINE s == In("try", Evidence) \o In("run", Stop)
  <2>2. s \in AS /\ Covers(s) /\ Writes(s) /\ Constructed(s)
    BY <2>1, <1>8, ConcatShape, ConcatProperties DEF AS
  <2>3. EarlyReturn = s \o Cleanup
    BY DEF EarlyReturn
  <2> HIDE DEF s
  <2> QED
    BY <2>2, <2>3, <1>6
<1>11. RunScript(Script) /\ Writes(Script) /\ Head(Script).op = "construct"
       /\ Constructed(Tail(Script))
  <2> DEFINE c == In("construct", <<Call("construct")>>)
             a == In("run", <<Call("start")>>)
             b == In("try", Body)
             e == In("run", E2)
  <2>1. c \in AS /\ ConstructFirst(c)
    BY <1>1 DEF In, Call, Step, AllSteps, Names, AS, ConstructFirst
  <2>2. /\ a \in AS /\ b \in AS /\ e \in AS
        /\ Constructed(a) /\ Constructed(b) /\ Constructed(e)
        /\ Covers(e) /\ Writes(e)
    <3>1. <<Call("start")>> \in PS
      BY DEF Call, Step, PlainSteps, Ops, Names, PS
    <3> QED
      BY <3>1, <1>1, <1>4, BodyIs, InShape DEF PS, AS
  <2>3. Script = c \o a \o b \o e \o Cleanup
    BY DEF Script, E2
  <2> HIDE DEF a, b, c, e
  <2> DEFINE s == c \o a \o b \o e
  <2>4. s \in AS /\ Covers(s) /\ Writes(s)
    BY <2>1, <2>2, ConcatShape, ConcatProperties DEF AS
  <2>5. RunScript(Script) /\ Writes(Script)
    BY <2>3, <2>4, <1>6
  <2>6. ConstructFirst(Script)
    BY <2>1, <2>2, <2>3, <1>2, ConcatFirst DEF AS
  <2> QED
    BY <2>5, <2>6, TailConstructed DEF RunScript
<1> QED
  BY <1>7, <1>9, <1>10, <1>11

-----------------------------------------------------------------------------
(* Kinds of steps *)

\* A phase ends, or the coordinator goes on without touching evidence, Redis
\* or its directory.
Concluding ==
  /\ exit = "running" /\ within = "call" /\ within' = "call"
  /\ todo # << >> /\ todo' = Tail(todo)
  /\ Head(todo).op \notin Late \cup {"file", "sums", "construct", "start"}
  /\ UNCHANGED <<files, sums, exit, runtime, code, port, child>>
  /\ trouble' \in {trouble, trouble \cup {"early"}}

\* An exception leaves a step.
Raising ==
  /\ exit = "running" /\ within' = "call"
  /\ todo # << >> /\ Head(todo).op # "construct" /\ Raise
  /\ UNCHANGED <<gates, files, sums, exit, runtime, port, child>>
  /\ trouble' \in {trouble, trouble \cup {"io"}}

\* The coordinator does not move; Redis does not come up by itself.
Idling ==
  /\ UNCHANGED <<todo, within, gates, files, sums, code, runtime>>
  /\ child = "none" => child' = "none"
  /\ port' = "foreign" => port = "foreign" \/ "foreign" \in trouble'
  /\ exit' = exit \/ (exit = "running" /\ exit' = "killed")
  /\ \E kind \in {"slow", "expiry", "death", "hang", "foreign", "kill"} :
       trouble' \in {trouble, trouble \cup {kind}}

\* run() returns early: what is there is not empty.
ReturnsEarly ==
  /\ Doing("preflight") /\ within' = "call" /\ todo' = EarlyReturn
  /\ UNCHANGED <<files, sums, exit, runtime, code, port, child, trouble>>

\* Every step is of one of these kinds, or one of those that start or stop
\* Redis, write evidence or end the drill.
LEMMA StepKinds ==
  ASSUME TypeOK, ScriptInv, [Next]_vars
  PROVE  \/ Concluding \/ Raising \/ Idling \/ ReturnsEarly
         \/ Construct \/ ConstructRaises \/ Spawn \/ Answered \/ Shutdown \/ Reap
         \/ WriteFile \/ WriteSums \/ Remove \/ Return
<1> USE DEF script, gating, output, servers, worker, around, world
<1>1. CASE Clean \/ Verify \/ Isolation \/ Privacy \/ Startup \/ Cost \/ Await \/ Collect
  BY <1>1 DEF Concluding, Clean, Verify, Isolation, Privacy, Startup, Cost, Await,
              Collect, Phase, Working, Doing, Advance, Late
<1>2. CASE Write \/ Negative \/ Clear \/ TtlWrite
  BY <1>2 DEF Concluding, Write, Negative, Clear, TtlWrite, Working, Doing, Advance, Late
<1>3. CASE Preflight
  BY <1>3 DEF Concluding, ReturnsEarly, Preflight, Doing, Advance, Late
<1>4. ASSUME NEW op \in DOMAIN Awaited, Poll(op) PROVE Concluding
  BY <1>4 DEF Concluding, Poll, Awaited, Doing, Advance, Late
<1>5. CASE SpawnOutage \/ Proceed \/ Unhandled
  BY <1>5 DEF Concluding, SpawnOutage, Proceed, Unhandled, Doing, Advance, Late
<1>6. CASE StartRaises \/ StopRaises
  BY <1>6 DEF Raising, StartRaises, StopRaises, ScriptInv
<1>7. CASE ClientRaises \/ CollectRaises \/ FileFails
  BY <1>7 DEF Raising, ClientRaises, CollectRaises, FileFails, Trouble, Doing, ScriptInv
<1>8. CASE \/ \E s \in DOMAIN db : TtlPasses(s)
           \/ OutageOpens \/ OutageReads \/ Bind \/ BindFails
  BY <1>8 DEF Idling, TtlPasses, OutageOpens, OutageReads, Bind, BindFails
<1>9. CASE \/ SlowsDown \/ ServerDies \/ ServerHangs \/ ForeignAppears \/ Killed
           \/ \E s \in DOMAIN db : StateExpires(s)
  BY <1>9 DEF Idling, SlowsDown, StateExpires, ServerDies, ServerHangs, ForeignAppears,
              Killed, Trouble, TypeOK
<1>10. CASE UNCHANGED vars
  BY <1>10 DEF Idling, vars
<1> QED
  BY <1>1, <1>2, <1>3, <1>4, <1>5, <1>6, <1>7, <1>8, <1>9, <1>10 DEF Next, Proceeds

\* What is left of a script after its first step.
LEMMA TailScript ==
  ASSUME NEW d \in Seq(AllSteps), d # << >>, Covers(d), Ends(d)
  PROVE  /\ Tail(d) \in Seq(AllSteps) /\ Covers(Tail(d)) /\ Ends(Tail(d))
         /\ Head(d) = d[1] /\ 1 \in DOMAIN d /\ Head(d) \in AllSteps
         /\ \A i \in DOMAIN Tail(d) : i + 1 \in DOMAIN d /\ Tail(d)[i] = d[i + 1]
         /\ \A f : FileAfter(d, 0, f) =>
                     (Head(d).op = "file" /\ Head(d).of = f) \/ FileAfter(Tail(d), 0, f)
         /\ SumsAfter(d, 0) => Head(d).op = "sums" \/ SumsAfter(Tail(d), 0)
         /\ Head(d).op \notin Late \cup {"file", "sums"} =>
              \A f \in FileNames : FileAfter(Tail(d), 0, f)
         /\ Head(d).op \notin Late \cup {"sums"} => SumsAfter(Tail(d), 0)
         /\ Len(Tail(d)) = 1 => Head(d).op = "stop"
         /\ Tail(d) = << >> => Head(d).op = "remove" /\ Len(d) = 1
<1> DEFINE n == Len(d)
           t == Tail(d)
<1>1. /\ n \in Nat \ {0} /\ DOMAIN d = 1..n /\ Head(d) = d[1] /\ d[1] \in AllSteps
  BY EmptySeq
<1>2. /\ t \in Seq(AllSteps) /\ Len(t) = n - 1 /\ DOMAIN t = 1..(n - 1)
      /\ \A i \in 1..(n - 1) : t[i] = d[i + 1]
  BY HeadTailProperties
<1>3. t = << >> <=> n = 1
  BY <1>1, <1>2, EmptySeq
<1> HIDE DEF n, t
<1>4. \A i \in DOMAIN t : i + 1 \in DOMAIN d /\ t[i] = d[i + 1]
  BY <1>1, <1>2
<1>5. ASSUME NEW i \in Nat, NEW f
      PROVE  /\ FileAfter(d, i + 1, f) => FileAfter(t, i, f)
             /\ SumsAfter(d, i + 1) => SumsAfter(t, i)
  <2>1. \A j \in DOMAIN d : i + 1 < j => j - 1 \in DOMAIN t /\ i < j - 1 /\ t[j - 1] = d[j]
    BY <1>1, <1>2
  <2> QED
    BY <2>1 DEF FileAfter, SumsAfter
<1>6. Covers(t)
  <2> SUFFICES ASSUME NEW i \in DOMAIN t
               PROVE  /\ t[i].op \notin Late \cup {"file", "sums"} =>
                           \A f \in FileNames : FileAfter(t, i, f)
                      /\ t[i].op \notin Late \cup {"sums"} => SumsAfter(t, i)
    BY DEF Covers
  <2>1. i + 1 \in DOMAIN d /\ t[i] = d[i + 1] /\ i \in Nat
    BY <1>1, <1>2, <1>4
  <2> QED
    BY <2>1, <1>5 DEF Covers
<1>7. Ends(t)
  BY <1>1, <1>2 DEF Ends, n, t
<1>8. /\ \A f : FileAfter(d, 0, f) => (d[1].op = "file" /\ d[1].of = f) \/ FileAfter(t, 0, f)
      /\ SumsAfter(d, 0) => d[1].op = "sums" \/ SumsAfter(t, 0)
  <2>1. \A j \in DOMAIN d : j = 1 \/ (j - 1 \in DOMAIN t /\ 0 < j - 1 /\ t[j - 1] = d[j])
    BY <1>1, <1>2
  <2> QED
    BY <2>1 DEF FileAfter, SumsAfter
<1>9. /\ d[1].op \notin Late \cup {"file", "sums"} => \A f \in FileNames : FileAfter(t, 0, f)
      /\ d[1].op \notin Late \cup {"sums"} => SumsAfter(t, 0)
  <2>1. 1 \in DOMAIN d /\ 0 \in Nat /\ 0 + 1 = 1
    BY <1>1
  <2> QED
    BY <2>1, <1>5 DEF Covers
<1>10. /\ n = 2 => d[1] = Cleanup[1]
       /\ n = 1 => d[1] = Cleanup[2]
  BY <1>1 DEF Ends, n
<1>11. /\ Len(t) = 1 => d[1].op = "stop"
       /\ t = << >> => d[1].op = "remove" /\ n = 1
  BY <1>1, <1>2, <1>3, <1>10, CleanupShape
<1> QED
  BY <1>1, <1>2, <1>4, <1>6, <1>7, <1>8, <1>9, <1>11 DEF n, t

\* An exception leads to a script that writes the evidence, or to the cleanup
\* or nothing and "raised".
LEMMA RaiseScript ==
  ASSUME ScriptInv, todo # << >>, Head(todo).op # "construct", Raise
  PROVE  /\ todo' \in Seq(AllSteps) /\ Covers(todo') /\ Ends(todo') /\ Constructed(todo')
         /\ todo' = << >> \/ Len(todo') >= 2
         /\ \/ code' = "raised" /\ (todo' = << >> \/ todo' = Cleanup)
            \/ code' = code /\ code # "raised" /\ Writes(todo')
<1>1. Head(todo) = todo[1] /\ 1 \in DOMAIN todo /\ Head(todo) \in AllSteps
  BY TailScript DEF ScriptInv
<1>2. Head(todo).level \in {"try", "run", "handler", "cleanup"}
  BY <1>1 DEF ScriptInv, AllSteps, Levels, Constructed
<1>3. code = "raised" => Head(todo).level = "cleanup"
  BY <1>1 DEF ScriptInv
<1>4. /\ << >> \in Seq(AllSteps) /\ Covers(<< >>) /\ Ends(<< >>) /\ Constructed(<< >>)
  BY EmptySeq DEF Covers, Ends, Constructed
<1>5. CASE Head(todo).level = "try"
  <2>1. todo' = Failing /\ code' = code /\ code # "raised"
    BY <1>3, <1>5 DEF Raise
  <2> QED
    BY <2>1, ScriptShapes DEF RunScript
<1>6. CASE Head(todo).level = "run"
  <2>1. todo' = Handler /\ code' = code /\ code # "raised"
    BY <1>3, <1>6 DEF Raise
  <2> QED
    BY <2>1, ScriptShapes DEF RunScript
<1>7. CASE Head(todo).level = "handler"
  <2>1. todo' = Cleanup /\ code' = "raised"
    BY <1>7 DEF Raise
  <2> QED
    BY <2>1, CleanupShape DEF RunScript
<1>8. CASE Head(todo).level = "cleanup"
  <2>1. todo' = << >> /\ code' = "raised"
    BY <1>8 DEF Raise
  <2> QED
    BY <2>1, <1>4
<1> QED
  BY <1>2, <1>5, <1>6, <1>7, <1>8

-----------------------------------------------------------------------------
(* The steps still to do *)

\* Going on with what is left keeps the script in order.
LEMMA AdvanceScript ==
  ASSUME ScriptInv, todo # << >>, todo' = Tail(todo), within' = "call",
         code' = code \/ code' # "raised", "setup" \in trouble' => "setup" \in trouble
  PROVE  ScriptInv'
<1>1. /\ todo' \in Seq(AllSteps) /\ Covers(todo') /\ Ends(todo')
      /\ \A i \in DOMAIN todo' : i + 1 \in DOMAIN todo /\ todo'[i] = todo[i + 1]
  BY TailScript DEF ScriptInv
<1>2. Constructed(todo')
  BY <1>1 DEF ScriptInv, Constructed
<1>3. code' = "raised" => \A i \in DOMAIN todo' : todo'[i].op \in Late /\ todo'[i].level = "cleanup"
  BY <1>1 DEF ScriptInv
<1> QED
  BY <1>1, <1>2, <1>3 DEF ScriptInv

\* Every step leaves a script that ends in the cleanup and covers its
\* evidence.
LEMMA ScriptStep ==
  ASSUME TypeOK, ScriptInv, [Next]_vars
  PROVE  ScriptInv'
<1> USE DEF script, gating, output, servers, worker, around, world
<1>1. CASE Concluding
  BY <1>1, AdvanceScript DEF Concluding
<1>2. CASE Raising
  <2>1. "setup" \notin trouble'
    BY <1>2 DEF Raising, ScriptInv
  <2>2. todo' = Cleanup => \A i \in DOMAIN todo' :
          todo'[i].op \in Late /\ todo'[i].level = "cleanup"
    BY CleanupShape DEF RunScript, Late
  <2> QED
    BY <1>2, <2>1, <2>2, RaiseScript DEF Raising, ScriptInv
<1>3. CASE Idling
  BY <1>3 DEF Idling, ScriptInv
<1>4. CASE ReturnsEarly
  <2>1. /\ todo # << >> /\ Head(todo).op = "preflight"
        /\ todo' = EarlyReturn /\ within' = "call" /\ UNCHANGED <<code, trouble>>
    BY <1>4 DEF ReturnsEarly, Doing
  <2>2. code # "raised"
    BY <2>1, TailScript DEF ScriptInv, Late
  <2> QED
    BY <2>1, <2>2, ScriptShapes DEF ScriptInv, RunScript
<1>5. CASE Construct \/ WriteFile \/ WriteSums \/ Remove
  <2>1. /\ todo # << >> /\ todo' = Tail(todo) /\ within' = "call" /\ trouble' = trouble
        /\ code' = code \/ code' # "raised"
    BY <1>5 DEF Construct, WriteFile, WriteSums, Remove, Doing, Advance
  <2> QED
    BY <2>1, AdvanceScript
<1>6. CASE ConstructRaises
  <2>1. todo' = << >> /\ within' = "call"
    BY <1>6 DEF ConstructRaises, Doing
  <2>2. << >> \in Seq(AllSteps) /\ Covers(<< >>) /\ Ends(<< >>) /\ Constructed(<< >>)
    BY EmptySeq DEF Covers, Ends, Constructed
  <2>3. DOMAIN todo' = {}
    BY <2>1
  <2> QED
    BY <2>1, <2>2, <2>3 DEF ScriptInv
<1>7. CASE Spawn
  BY <1>7 DEF Spawn, Doing, ScriptInv
<1>8. CASE Answered
  <2>1. /\ todo # << >> /\ todo' = Tail(todo) /\ within' = "call" /\ trouble' = trouble
        /\ code' = code
    BY <1>8 DEF Answered, Advance, ScriptInv
  <2> QED
    BY <2>1, AdvanceScript
<1>9. CASE Shutdown
  <2>1. CASE child = "none"
    <3>1. /\ todo # << >> /\ todo' = Tail(todo) /\ within' = "call" /\ trouble' = trouble
          /\ code' = code
      BY <1>9, <2>1 DEF Shutdown, Doing, Advance
    <3> QED
      BY <3>1, AdvanceScript
  <2>2. CASE child # "none"
    BY <1>9, <2>2 DEF Shutdown, Doing, ScriptInv
  <2> QED
    BY <2>1, <2>2
<1>10. CASE Reap
  <2>1. /\ todo # << >> /\ todo' = Tail(todo) /\ within' = "call" /\ trouble' = trouble
        /\ code' = code
    BY <1>10 DEF Reap, Advance, ScriptInv
  <2> QED
    BY <2>1, AdvanceScript
<1>11. CASE Return
  BY <1>11 DEF Return, ScriptInv
<1> QED
  BY <1>1, <1>2, <1>3, <1>4, <1>5, <1>6, <1>7, <1>8, <1>9, <1>10, <1>11, StepKinds

-----------------------------------------------------------------------------
(* Redis and its directory *)

\* A step that goes on keeps what is known of Redis, provided that whatever
\* precedes the last step leaves none running.
LEMMA AdvanceLeft ==
  ASSUME ScriptInv, LeftInv, todo # << >>, todo' = Tail(todo),
         Head(todo).op = "stop" => child' = "none",
         Head(todo).op = "remove" => child' = child /\ ~runtime'
  PROVE  LeftInv'
<1>1. todo' # << >> => Head(todo').op # "construct"
  <2>1. Constructed(todo')
    <3>1. /\ todo' \in Seq(AllSteps)
          /\ \A i \in DOMAIN todo' : i + 1 \in DOMAIN todo /\ todo'[i] = todo[i + 1]
      BY TailScript DEF ScriptInv
    <3> QED
      BY <3>1 DEF ScriptInv, Constructed
  <2>2. todo' \in Seq(AllSteps)
    BY TailScript DEF ScriptInv
  <2>3. todo' # << >> => Head(todo') = todo'[1] /\ 1 \in DOMAIN todo'
    BY <2>2, EmptySeq
  <2> QED
    BY <2>1, <2>3 DEF Constructed
<1>2. Len(todo') = 1 => child' = "none"
  BY TailScript DEF ScriptInv
<1>3. todo' = << >> => child' = "none" /\ ~runtime'
  BY TailScript DEF ScriptInv, LeftInv
<1> QED
  BY <1>1, <1>2, <1>3 DEF LeftInv

\* Nothing but a stop can precede the last step, and that one removes the
\* directory.
LEMMA LeftStep ==
  ASSUME TypeOK, ScriptInv, LeftInv, [Next]_vars
  PROVE  LeftInv'
<1> USE DEF script, gating, output, servers, worker, around, world
<1>1. CASE Concluding
  BY <1>1, AdvanceLeft DEF Concluding, Late
<1>2. CASE Raising
  <2>1. /\ todo' = << >> \/ Len(todo') >= 2
        /\ Constructed(todo') /\ todo' \in Seq(AllSteps)
        /\ todo' = << >> => code' = "raised"
    <3>1. Writes(<< >>) => FALSE
      BY DEF Writes, SumsAfter
    <3> QED
      BY <1>2, <3>1, RaiseScript DEF Raising
  <2>2. todo' # << >> => Head(todo') = todo'[1] /\ 1 \in DOMAIN todo'
    BY <2>1, EmptySeq
  <2>3. todo' # << >> => Head(todo').op # "construct"
    BY <2>1, <2>2 DEF Constructed
  <2>4. Len(todo') # 1
    <3>1. CASE todo' = << >>
      <4>1. Len(<< >>) = 0
        OBVIOUS
      <4> QED
        BY <3>1, <4>1
    <3>2. CASE Len(todo') >= 2
      <4>1. Len(todo') \in Nat
        BY <2>1, LenProperties
      <4>2. \A n \in Nat : n >= 2 => n # 1
        OBVIOUS
      <4> QED
        BY <3>2, <4>1, <4>2, Zenon
    <3> QED
      BY <2>1, <3>1, <3>2
  <2> QED
    BY <2>1, <2>3, <2>4 DEF LeftInv
<1>3. CASE Idling
  BY <1>3 DEF Idling, LeftInv
<1>4. CASE ReturnsEarly
  <2>1. /\ todo' \in Seq(AllSteps) /\ Len(todo') >= 2 /\ Constructed(todo')
    BY <1>4, ScriptShapes DEF ReturnsEarly, RunScript
  <2>2. todo' # << >> /\ Head(todo') = todo'[1] /\ 1 \in DOMAIN todo'
    BY <2>1, EmptySeq
  <2>3. Head(todo').op # "construct" /\ Len(todo') # 1
    BY <2>1, <2>2 DEF Constructed
  <2> QED
    BY <2>2, <2>3 DEF LeftInv
<1>5. CASE Construct \/ WriteFile \/ WriteSums \/ Remove
  BY <1>5, AdvanceLeft DEF Construct, WriteFile, WriteSums, Remove, Doing, Advance
<1>6. CASE ConstructRaises
  <2>1. /\ todo # << >> /\ Head(todo).op = "construct" /\ todo' = << >> /\ child' = child
        /\ "setup" \in trouble'
    BY <1>6 DEF ConstructRaises, Doing, Trouble
  <2>2. Len(todo') = 0
    BY <2>1
  <2> QED
    BY <2>1, <2>2 DEF LeftInv
<1>7. CASE Spawn
  <2>1. /\ todo # << >> /\ Head(todo).op = "start" /\ todo' = todo
    BY <1>7 DEF Spawn, Doing
  <2>2. Len(todo) # 1
    BY <2>1, TailScript, EmptySeq, CleanupShape DEF ScriptInv, Ends
  <2> QED
    BY <2>1, <2>2 DEF LeftInv
<1>8. CASE Answered
  BY <1>8, AdvanceLeft DEF Answered, Advance, ScriptInv
<1>9. CASE Shutdown
  <2>1. CASE child = "none"
    BY <1>9, <2>1, AdvanceLeft DEF Shutdown, Doing, Advance
  <2>2. CASE child # "none"
    BY <1>9, <2>2 DEF Shutdown, Doing, LeftInv
  <2> QED
    BY <2>1, <2>2
<1>10. CASE Reap
  BY <1>10, AdvanceLeft DEF Reap, Advance, ScriptInv
<1>11. CASE Return
  BY <1>11 DEF Return, LeftInv
<1> QED
  BY <1>1, <1>2, <1>3, <1>4, <1>5, <1>6, <1>7, <1>8, <1>9, <1>10, <1>11, StepKinds

-----------------------------------------------------------------------------
(* The evidence *)

\* A file that is written, or a step before all of them, keeps the evidence.
LEMMA EvidenceStep ==
  ASSUME TypeOK, ScriptInv, EvidenceInv, ExitInv, [Next]_vars
  PROVE  EvidenceInv'
<1> USE DEF script, gating, output, servers, worker, around, world
<1>1. CASE Concluding
  <2>1. /\ \A f \in FileNames : FileAfter(todo', 0, f)
        /\ SumsAfter(todo', 0)
    BY <1>1, TailScript DEF Concluding, ScriptInv
  <2> QED
    BY <1>1, <2>1 DEF Concluding, EvidenceInv
<1>2. CASE Raising
  <2>1. \/ code' = "raised"
        \/ Writes(todo')
    BY <1>2, RaiseScript DEF Raising
  <2> QED
    BY <1>2, <2>1 DEF Raising, EvidenceInv, Writes
<1>3. CASE Idling
  BY <1>3 DEF Idling, EvidenceInv, Passed
<1>4. CASE ReturnsEarly
  BY <1>4, ScriptShapes DEF ReturnsEarly, EvidenceInv, Writes
<1>5. CASE WriteFile
  <2>1. /\ todo # << >> /\ todo' = Tail(todo) /\ Head(todo).op = "file"
        /\ files' = [files EXCEPT ![Head(todo).of] = gates]
        /\ UNCHANGED <<gates, code, trouble>>
    BY <1>5 DEF WriteFile, Doing, Advance
  <2>2. SumsAfter(todo', 0)
    BY <2>1, TailScript DEF ScriptInv, Late
  <2>3. \A f \in FileNames : FileAfter(todo, 0, f) => Head(todo).of = f \/ FileAfter(todo', 0, f)
    BY <2>1, TailScript DEF ScriptInv
  <2> QED
    BY <2>1, <2>2, <2>3 DEF EvidenceInv
<1>6. CASE WriteSums
  <2>1. /\ todo # << >> /\ todo' = Tail(todo) /\ Head(todo).op = "sums"
        /\ sums' = files /\ UNCHANGED <<gates, files, trouble>>
        /\ code' = IF Passed(gates) THEN "zero" ELSE "one"
    BY <1>6 DEF WriteSums, Doing, Advance
  <2>2. code # "raised"
    BY <2>1, TailScript DEF ScriptInv, Late
  <2>3. \A f \in FileNames : FileAfter(todo, 0, f) => FileAfter(todo', 0, f)
    BY <2>1, TailScript DEF ScriptInv
  <2>4. Passed(gates') <=> Passed(gates)
    BY <2>1 DEF Passed
  <2> QED
    BY <2>1, <2>2, <2>3, <2>4 DEF EvidenceInv
<1>7. CASE Construct \/ Remove
  <2>1. /\ todo # << >> /\ todo' = Tail(todo) /\ Head(todo).op \notin {"file", "sums"}
        /\ UNCHANGED <<gates, files, sums, code, trouble>>
    BY <1>7 DEF Construct, Remove, Doing, Advance
  <2>2. /\ \A f \in FileNames : FileAfter(todo, 0, f) => FileAfter(todo', 0, f)
        /\ SumsAfter(todo, 0) => SumsAfter(todo', 0)
    BY <2>1, TailScript DEF ScriptInv
  <2> QED
    BY <2>1, <2>2 DEF EvidenceInv, Passed
<1>8. CASE ConstructRaises
  BY <1>8 DEF ConstructRaises, Trouble, EvidenceInv
<1>9. CASE Spawn \/ Return
  BY <1>9 DEF Spawn, Return, EvidenceInv, Passed
<1>10. CASE Answered \/ Reap \/ Shutdown
  <2>1. /\ todo # << >>
        /\ todo' = todo \/ (todo' = Tail(todo) /\ Head(todo).op \notin {"file", "sums"})
        /\ UNCHANGED <<gates, files, sums, code, trouble>>
    BY <1>10 DEF Answered, Reap, Shutdown, Doing, Advance, ScriptInv
  <2>2. /\ \A f \in FileNames : FileAfter(todo, 0, f) => FileAfter(todo', 0, f)
        /\ SumsAfter(todo, 0) => SumsAfter(todo', 0)
    BY <2>1, TailScript DEF ScriptInv
  <2> QED
    BY <2>1, <2>2 DEF EvidenceInv, Passed
<1> QED
  BY <1>1, <1>2, <1>3, <1>4, <1>5, <1>6, <1>7, <1>8, <1>9, <1>10, StepKinds

\* run_drill returns once, with what was decided.
LEMMA ExitStep ==
  ASSUME TypeOK, ScriptInv, ExitInv, [Next]_vars
  PROVE  ExitInv'
<1> USE DEF script, gating, output, servers, worker, around, world
<1>1. CASE Concluding \/ Raising \/ ReturnsEarly
  BY <1>1 DEF Concluding, Raising, ReturnsEarly, Doing, ExitInv
<1>2. CASE Idling
  BY <1>2 DEF Idling, ExitInv
<1>3. CASE Construct \/ ConstructRaises \/ Spawn \/ WriteFile \/ WriteSums \/ Remove
  BY <1>3 DEF Construct, ConstructRaises, Spawn, WriteFile, WriteSums, Remove, Doing, ExitInv
<1>4. CASE Answered \/ Shutdown \/ Reap
  BY <1>4 DEF Answered, Shutdown, Reap, Doing, ExitInv
<1>5. CASE Return
  BY <1>5 DEF Return, ExitInv
<1> QED
  BY <1>1, <1>2, <1>3, <1>4, <1>5, StepKinds

-----------------------------------------------------------------------------
(* Types *)

\* The result of a step is and-ed to those before it and goes into a gate.
LEMMA ConcludeType ==
  ASSUME TypeOK, NEW result \in BOOLEAN, Conclude(result)
  PROVE  /\ sofar' \in BOOLEAN
         /\ gates' \in [Gates -> {"unset", "PASS", "FAIL"}]
<1> DEFINE held == sofar /\ result
           gate == Head(todo).of
<1>1. held \in BOOLEAN
  BY DEF TypeOK
<1>2. Status(held) \in {"PASS", "FAIL"}
  BY DEF Status
<1>3. \/ sofar' = held /\ gates' = gates
      \/ sofar' = TRUE /\ gates' = [gates EXCEPT ![gate] = Status(held)]
  BY DEF Conclude
<1> HIDE DEF held, gate
<1> QED
  BY <1>1, <1>2, <1>3 DEF TypeOK

\* The steps of a script have a level.
LEMMA ScriptLevels ==
  ASSUME NEW d \in Seq(AllSteps)
  PROVE  \A i \in DOMAIN d : d[i].level \in Levels
<1> TAKE i \in DOMAIN d
<1>1. d[i] \in AllSteps
  BY ElementOfSeq, LenProperties
<1> QED
  BY <1>1 DEF AllSteps

\* What one Redis can hold.
Contents == [Items -> {"none", "intact", "damaged", "lapsed", "tombstone"}]

\* A phase of the run keeps every type, provided that what it leaves in Redis
\* does.
LEMMA WorkingType ==
  ASSUME TypeOK, ScriptInv', NEW op, NEW result \in BOOLEAN,
         NEW contents \in [{"drill", "foreign"} -> Contents],
         Working(op, result, contents), refs' \in BOOLEAN, written' \in 0..epoch
  PROVE  TypeOK'
<1>1. \A i \in DOMAIN todo' : todo'[i].level \in Levels
  BY ScriptLevels DEF ScriptInv
<1>2. /\ sofar' \in BOOLEAN
      /\ gates' \in [Gates -> {"unset", "PASS", "FAIL"}]
  BY ConcludeType DEF Working
<1> QED
  BY <1>1, <1>2 DEF Working, worker, TypeOK, Levels, Contents

\* Every step keeps every type, and a Redis of the drill that answers is one
\* whose process lives.
LEMMA TypeStep ==
  ASSUME TypeOK, EpochInv, ScriptInv, ScriptInv', [Next]_vars
  PROVE  TypeOK' /\ EpochInv'
<1> USE DEF script, gating, output, servers, worker, around, world
<1>1. \A i \in DOMAIN todo' : todo'[i].level \in Levels
  BY ScriptLevels DEF ScriptInv
<1>2. /\ db \in [{"drill", "foreign"} -> Contents]
      /\ epoch \in Nat /\ written \in 0..epoch
      /\ refs \in BOOLEAN /\ Up \in BOOLEAN
      /\ \A s \in {"drill", "foreign"} : db[s] \in Contents
      /\ Up => port \in {"drill", "foreign"}
  BY DEF TypeOK, EpochInv, Contents, Up
<1>3. Blank \in Contents /\ Occupied \in Contents
  BY DEF Blank, Occupied, Contents
<1>4. ASSUME NEW op, NEW result \in BOOLEAN, Phase(op, result)
      PROVE  TypeOK' /\ EpochInv'
  BY <1>2, <1>4, WorkingType DEF Phase, EpochInv, Working
<1>5. CASE Clean \/ Isolation \/ Privacy \/ Startup \/ Cost \/ Verify
  <2>1. (db[port] = Blank) \in BOOLEAN /\ (Up /\ refs) \in BOOLEAN /\ (~Up) \in BOOLEAN
    OBVIOUS
  <2>2. (Up /\ refs /\ \A i \in VerifyItems : db[port][i] = "intact") \in BOOLEAN
    OBVIOUS
  <2> QED
    BY <1>2, <1>4, <1>5, <2>1, <2>2 DEF Clean, Isolation, Privacy, Startup, Cost, Verify
<1>6. CASE Await \/ Collect
  <2>1. (outage \notin {"opening", "failed"}) \in BOOLEAN /\ (outage = "unhealthy") \in BOOLEAN
    OBVIOUS
  <2> QED
    BY <1>4, <1>6, <2>1 DEF Await, Collect
<1>7. CASE Write
  <2> DEFINE held == [i \in Items |-> IF i = "ttl" THEN db[port][i] ELSE "intact"]
             contents == IF Up THEN [db EXCEPT ![port] = held] ELSE db
  <2>1. Up => held \in Contents
    BY <1>2 DEF Contents
  <2>2. contents \in [{"drill", "foreign"} -> Contents]
    <3> HIDE DEF held
    <3> QED
      BY <1>2, <2>1
  <2>3. Working("write", Up, contents) /\ refs' = Up /\ written' \in 0..epoch
    BY <1>2, <1>7 DEF Write
  <2> HIDE DEF contents
  <2>4. TypeOK'
    BY <1>2, <2>2, <2>3, WorkingType
  <2> QED
    BY <2>3, <2>4, <1>2 DEF EpochInv, Working
<1>8. CASE Negative
  <2> DEFINE can == Up /\ refs /\ \A i \in Controls : db[port][i] = "intact"
             spoilt == [i \in Items |-> IF i \in Tampered THEN "damaged" ELSE db[port][i]]
             contents == IF can THEN [db EXCEPT ![port] = spoilt] ELSE db
  <2>1. Up => spoilt \in Contents
    BY <1>2 DEF Contents
  <2>2. contents \in [{"drill", "foreign"} -> Contents]
    <3> HIDE DEF spoilt
    <3> QED
      BY <1>2, <2>1
  <2>3. Working("negative", can, contents) /\ UNCHANGED <<refs, written>>
    BY <1>8 DEF Negative
  <2>4. can \in BOOLEAN
    OBVIOUS
  <2> HIDE DEF contents, can
  <2>5. TypeOK'
    BY <1>2, <2>2, <2>3, <2>4, WorkingType
  <2> QED
    BY <2>3, <2>5, <1>2 DEF EpochInv, Working
<1>9. CASE Clear \/ TtlWrite
  <2>1. \A s \in {"drill", "foreign"} : [db[s] EXCEPT !["ttl"] = "intact"] \in Contents
    BY <1>2 DEF Contents
  <2>2. /\ [db EXCEPT !["drill"] = Blank] \in [{"drill", "foreign"} -> Contents]
        /\ (IF Up THEN [db EXCEPT ![port]["ttl"] = "intact"] ELSE db)
             \in [{"drill", "foreign"} -> Contents]
    BY <1>2, <1>3, <2>1
  <2>3. PICK op \in {"clear", "ttl_write"}, contents \in [{"drill", "foreign"} -> Contents] :
          Working(op, TRUE, contents) /\ UNCHANGED <<refs, written>>
    BY <1>9, <2>2 DEF Clear, TtlWrite
  <2>4. TypeOK'
    BY <1>2, <2>3, WorkingType
  <2> QED
    BY <2>3, <2>4, <1>2 DEF EpochInv, Working
<1>10. CASE Preflight
  <2>1. (db[port] = Blank) \in BOOLEAN
    OBVIOUS
  <2>2. Conclude(db[port] = Blank) /\ UNCHANGED <<within, output, code, world>>
    BY <1>10 DEF Preflight
  <2>3. /\ sofar' \in BOOLEAN
        /\ gates' \in [Gates -> {"unset", "PASS", "FAIL"}]
    BY <2>1, <2>2, ConcludeType
  <2> QED
    BY <1>1, <2>2, <2>3 DEF TypeOK, Levels, EpochInv
<1>11. ASSUME NEW op \in DOMAIN Awaited, Poll(op) PROVE TypeOK' /\ EpochInv'
  <2> DEFINE status == IF Up THEN db[port]["ttl"] ELSE "down"
             result == status \in Awaited[op] \ {"lapsed"}
  <2>1. Conclude(result)
    BY <1>11 DEF Poll
  <2>2. result \in BOOLEAN
    OBVIOUS
  <2> HIDE DEF result
  <2>3. /\ sofar' \in BOOLEAN
        /\ gates' \in [Gates -> {"unset", "PASS", "FAIL"}]
    BY <2>1, <2>2, ConcludeType
  <2> QED
    BY <1>1, <1>11, <2>3 DEF Poll, TypeOK, Levels, EpochInv
<1>12. ASSUME NEW s \in DOMAIN db, TtlPasses(s) PROVE TypeOK' /\ EpochInv'
  <2>1. PICK now \in {"lapsed", "tombstone", "none"} : db' = [db EXCEPT ![s]["ttl"] = now]
    BY <1>12 DEF TtlPasses
  <2>2. [db[s] EXCEPT !["ttl"] = now] \in Contents
    BY <1>2 DEF Contents
  <2>3. db' \in [{"drill", "foreign"} -> Contents]
    BY <1>2, <2>1, <2>2
  <2> QED
    BY <1>12, <2>3 DEF TtlPasses, TypeOK, Contents, EpochInv
<1>13. ASSUME NEW s \in DOMAIN db, StateExpires(s) PROVE TypeOK' /\ EpochInv'
  <2> DEFINE held == [i \in Items |-> IF i = "ttl" THEN db[s][i] ELSE "none"]
  <2>1. held \in Contents
    BY <1>2 DEF Contents
  <2>2. db' = [db EXCEPT ![s] = held]
    BY <1>13 DEF StateExpires
  <2> HIDE DEF held
  <2>3. db' \in [{"drill", "foreign"} -> Contents]
    BY <1>2, <2>1, <2>2
  <2> QED
    BY <1>13, <2>3 DEF StateExpires, Trouble, TypeOK, Contents, EpochInv
<1>14. CASE ForeignAppears
  <2>1. db' \in [{"drill", "foreign"} -> Contents]
    BY <1>2, <1>3, <1>14 DEF ForeignAppears
  <2> QED
    BY <1>14, <2>1 DEF ForeignAppears, Trouble, TypeOK, Contents, EpochInv
<1>15. CASE Remove
  <2>1. db' \in [{"drill", "foreign"} -> Contents]
    BY <1>2, <1>3, <1>15 DEF Remove
  <2>2. /\ runtime' = FALSE
        /\ UNCHANGED <<within, gating, refs, code, exit, port, child, worker, around>>
    BY <1>15 DEF Remove
  <2>3. /\ sofar' \in BOOLEAN /\ refs' \in BOOLEAN /\ runtime' \in BOOLEAN
        /\ gates' \in [Gates -> {"unset", "PASS", "FAIL"}]
        /\ proceed' \in BOOLEAN /\ written' \in 0..epoch' /\ EpochInv'
    BY <2>2 DEF TypeOK, EpochInv
  <2>4. /\ within' \in {"call", "ping", "wait"}
        /\ code' \in {"zero", "one", "raised"}
        /\ exit' \in {"running", "zero", "one", "raised", "killed"}
        /\ port' \in {"nobody", "drill", "foreign"}
        /\ child' \in {"none", "alive", "hung", "dead"}
        /\ outage' \in {"none", "opening", "ready", "failed", "unhealthy"}
        /\ port' = "drill" => child' = "alive"
    BY <2>2 DEF TypeOK
  <2> QED
    BY <1>1, <2>1, <2>3, <2>4 DEF TypeOK, Contents, Levels
<1>16. CASE Construct \/ Spawn \/ Answered \/ Shutdown \/ Reap
  <2>1. CASE Construct
    BY <1>1, <2>1 DEF Construct, TypeOK, Levels, EpochInv
  <2>2. CASE Spawn
    BY <1>1, <2>2 DEF Spawn, TypeOK, Levels, EpochInv
  <2>3. CASE Answered
    BY <1>1, <2>3 DEF Answered, TypeOK, Levels, EpochInv
  <2>4. CASE Shutdown
    BY <1>1, <2>4 DEF Shutdown, Doing, TypeOK, Levels, EpochInv
  <2>5. CASE Reap
    BY <1>1, <2>5 DEF Reap, TypeOK, Levels, EpochInv
  <2> QED
    BY <1>16, <2>1, <2>2, <2>3, <2>4, <2>5
<1>17. CASE StartRaises \/ StopRaises \/ ClientRaises \/ CollectRaises \/ FileFails
  <2>1. code' \in {"zero", "one", "raised"}
    BY <1>17 DEF StartRaises, StopRaises, ClientRaises, CollectRaises, FileFails, Raise, TypeOK
  <2> QED
    BY <1>1, <1>17, <2>1 DEF StartRaises, StopRaises, ClientRaises, CollectRaises,
         FileFails, Trouble, TypeOK, Levels, EpochInv
<1>18. CASE SpawnOutage \/ OutageOpens \/ OutageReads \/ Proceed
  <2>1. CASE SpawnOutage
    BY <1>1, <2>1 DEF SpawnOutage, TypeOK, Levels, EpochInv
  <2>2. CASE OutageOpens \/ OutageReads
    BY <1>1, <2>2 DEF OutageOpens, OutageReads, TypeOK, Levels, EpochInv
  <2>3. CASE Proceed
    BY <1>1, <2>3 DEF Proceed, TypeOK, Levels, EpochInv
  <2> QED
    BY <1>18, <2>1, <2>2, <2>3
<1>19. CASE WriteFile \/ WriteSums \/ Return
  BY <1>1, <1>19 DEF WriteFile, WriteSums, Return, TypeOK, Levels, EpochInv
<1>20. CASE Unhandled
  <2>1. gates' \in [Gates -> {"unset", "PASS", "FAIL"}]
    BY <1>20 DEF Unhandled, TypeOK
  <2> QED
    BY <1>1, <1>20, <2>1 DEF Unhandled, TypeOK, Levels, EpochInv
<1>21. CASE Bind
  <2>1. /\ epoch' = epoch + 1 /\ written' = written /\ port' = "drill" /\ child' = "alive"
    BY <1>21 DEF Bind
  <2>2. epoch' \in Nat /\ written' \in 0..epoch'
    BY <1>2, <2>1
  <2> QED
    BY <1>1, <1>21, <2>1, <2>2 DEF Bind, TypeOK, Levels, EpochInv
<1>22. CASE \/ BindFails \/ SlowsDown \/ ServerDies \/ ServerHangs \/ Killed
            \/ ConstructRaises
  <2>1. CASE BindFails \/ ServerHangs
    BY <1>1, <2>1 DEF BindFails, ServerHangs, Trouble, TypeOK, Levels, EpochInv
  <2>2. CASE SlowsDown \/ ServerDies \/ Killed
    BY <1>1, <2>2 DEF SlowsDown, ServerDies, Killed, Trouble, TypeOK, Levels, EpochInv
  <2>3. CASE ConstructRaises
    BY <1>1, <2>3 DEF ConstructRaises, Trouble, TypeOK, Levels, EpochInv
  <2> QED
    BY <1>22, <2>1, <2>2, <2>3
<1>23. CASE UNCHANGED vars
  BY <1>23 DEF vars, TypeOK, EpochInv
<1> QED
  BY <1>5, <1>6, <1>7, <1>8, <1>9, <1>10, <1>11, <1>12, <1>13, <1>14, <1>15, <1>16, <1>17,
     <1>18, <1>19, <1>20, <1>21, <1>22, <1>23 DEF Next, Proceeds

-----------------------------------------------------------------------------
(* What a drill leaves and returns *)

\* A drill starts with its whole script before it and nothing running.
LEMMA Initial == Init => IInv
<1> SUFFICES ASSUME Init PROVE IInv
  OBVIOUS
<1>1. RunScript(Script) /\ Writes(Script) /\ Head(Script).op = "construct"
      /\ Constructed(Tail(Script))
  BY ScriptShapes
<1>2. todo \in Seq(AllSteps) /\ todo = Script /\ todo # << >> /\ Len(todo) >= 2
      /\ Len(todo) \in Nat
  BY <1>1, LenProperties, EmptySeq DEF Init, RunScript
<1>3. TypeOK
  <2>1. \A i \in DOMAIN todo : todo[i].level \in Levels
    BY <1>2, ScriptLevels
  <2>2. Blank \in Contents
    BY DEF Blank, Contents
  <2>3. db \in [{"drill", "foreign"} -> Contents]
    BY <2>2 DEF Init
  <2>4. /\ gates \in [Gates -> {"unset", "PASS", "FAIL"}]
        /\ written \in 0..epoch
    BY DEF Init
  <2> QED
    BY <2>1, <2>3, <2>4 DEF Init, TypeOK, Levels, Contents
<1>4. ScriptInv
  BY <1>1, <1>2 DEF Init, ScriptInv, RunScript
<1>5. LeftInv
  BY <1>2 DEF Init, LeftInv
<1>6. EvidenceInv
  BY <1>1, <1>2 DEF Init, EvidenceInv, Writes, FileNames
<1>7. EpochInv /\ ExitInv
  BY DEF Init, EpochInv, ExitInv
<1> QED
  BY <1>3, <1>4, <1>5, <1>6, <1>7 DEF IInv

\* Every step of the drill, of Redis and of the trouble keeps the invariant.
LEMMA Inductive == IInv /\ [Next]_vars => IInv'
<1> SUFFICES ASSUME IInv, [Next]_vars PROVE IInv'
  OBVIOUS
<1>1. TypeOK /\ EpochInv /\ ScriptInv /\ LeftInv /\ EvidenceInv /\ ExitInv
  BY DEF IInv
<1>2. ScriptInv'
  BY <1>1, ScriptStep
<1>3. TypeOK' /\ EpochInv'
  BY <1>1, <1>2, TypeStep
<1>4. LeftInv' /\ EvidenceInv' /\ ExitInv'
  BY <1>1, LeftStep, EvidenceStep, ExitStep
<1> QED
  BY <1>2, <1>3, <1>4 DEF IInv

\* The invariant holds throughout every drill.
LEMMA Invariant == Spec => []IInv
  BY Initial, Inductive, PTL DEF Spec

\* Every variable keeps its type, and the drill's own Redis answers only while
\* its process lives (redis_drill.py:193-280).
THEOREM TypeCorrect == Spec => []TypeOK
<1>1. IInv => TypeOK
  BY DEF IInv
<1> QED
  BY <1>1, Invariant, PTL

\* A drill that returned has left no Redis and no data behind, whichever way it
\* left run() and however many things went wrong around it
\* (redis_drill.py:458-459, 515-517, 537-539).
THEOREM NothingLeft == Spec => []NothingLeftRunning
<1>1. IInv => NothingLeftRunning
  <2> SUFFICES ASSUME IInv, exit \in {"zero", "one"}
               PROVE  child = "none" /\ port # "drill" /\ (runtime => "setup" \in trouble)
    BY DEF NothingLeftRunning
  <2>1. todo = << >> /\ code # "raised"
    BY DEF IInv, ExitInv
  <2>2. child = "none" /\ (runtime => "setup" \in trouble)
    BY <2>1 DEF IInv, LeftInv
  <2> QED
    BY <2>2 DEF IInv, TypeOK
<1> QED
  BY <1>1, Invariant, PTL

\* What run_drill returns is what the evidence of this very drill says, and its
\* sums are those of the files, unless its constructor raised
\* (redis_drill.py:468-539).
THEOREM ReturnMatches == Spec => []ReturnMatchesEvidence
<1>1. IInv => ReturnMatchesEvidence
  <2> SUFFICES ASSUME IInv, exit \in {"zero", "one"}, "setup" \notin trouble
               PROVE  /\ sums = files
                      /\ \A f \in DOMAIN files : files[f] = gates
                      /\ exit = "zero" <=> Passed(gates)
    BY DEF ReturnMatchesEvidence
  <2>1. todo = << >> /\ code = exit
    BY DEF IInv, ExitInv
  <2>2. ~SumsAfter(todo, 0) /\ \A f : ~FileAfter(todo, 0, f)
    BY <2>1 DEF SumsAfter, FileAfter
  <2> QED
    BY <2>1, <2>2 DEF IInv, EvidenceInv
<1> QED
  BY <1>1, Invariant, PTL

-----------------------------------------------------------------------------
(* A drill that passes *)

\* Where run() records each gate, counted in Script.
Place(g) ==
  CASE g = "preflight"                          -> 3
    [] g = "synthetic_write"                    -> 4
    [] g = "application_restart_exact_recovery" -> 5
    [] g = "redis_aof_restart_exact_recovery"   -> 8
    [] g = "tenant_session_isolation"           -> 9
    [] g = "found_expired_not_found"            -> 13
    [] g = "wrong_key_tamper_swap_corrupt"      -> 14
    [] g = "ciphertext_at_rest_and_privacy"     -> 15
    [] g = "read_outage_unhealthy"              -> 20
    [] g = "safe_proxy_startup_fail_closed"     -> 21
    [] g = "fresh_process_recovers_after_outage" -> 23
    [] g = "clean_volume_repeat_run"            -> 33
    [] g = "zero_provider_calls_and_cost"       -> 34

\* The coordinator has done the first p - 1 steps of Script and nothing else.
OnScript(p) ==
  /\ todo \in Seq(AllSteps) /\ Len(todo) = 44 - p
  /\ \A i \in 1..(44 - p) : todo[i] = Script[p - 1 + i]

\* A Redis is meant to run: between a start and the stop after it.
Running(p) == p \in 3..6 \/ p \in 8..18 \/ p \in 23..24 \/ p \in 27..30 \/ p \in 32..35

\* Redis was told to shut down by the stop at k.
Past(p, k) == p > k \/ (p = k /\ within = "wait")

\* Between a stop and the next start the drill runs no Redis; a Redis of the
\* drill that died after it had come up does not come up again by itself.
ServerInv(p) ==
  /\ Running(p) /\ within = "call" => child # "none" /\ ~(child = "alive" /\ port = "nobody")
  /\ ~Running(p) /\ within = "call" => child = "none" /\ port # "drill"
  /\ within # "call" => child # "none"

\* The gates before p are recorded and no others.
GatesInv(p) ==
  /\ \A g \in PhaseGates : IF Place(g) < p THEN gates[g] # "unset" ELSE gates[g] = "unset"
  /\ p > 34 => sofar

\* Nothing has failed so far.
Sound == sofar /\ \A g \in Gates : gates[g] # "FAIL"

\* A Redis holds a record that only a write leaves.
Has(s) == db[s]["one"] = "intact" \/ db[s]["wrong"] = "intact"

\* What was written first went to the drill's own Redis.  Otherwise it went to
\* a foreign one, which the first stop shut down, and the next Redis has none
\* of it.
FirstWrite(p) ==
  /\ p <= 4 => ~Has("drill") /\ ~Has("foreign")
  /\ p = 5 => ~(Has("drill") /\ Has("foreign"))
  /\ p \in 6..28 =>
       LET server == witness["application_restart_exact_recovery"].server
       IN  \/ server = "drill" /\ ~Has("foreign")
           \/ /\ p <= 8 /\ server = "foreign"
              /\ ~Has("drill") /\ "foreign" \in trouble
              /\ Past(p, 6) => port # "foreign"

\* What was written on the clean volume went to a later process of the drill's
\* own Redis, or it went to a foreign one, as above.
SecondWrite(p) ==
  /\ p \in 26..28 => ~Has("drill")
  /\ p \in 29..32 =>
       \/ /\ written > witness["fresh_process_recovers_after_outage"].epoch
          /\ ~Has("foreign")
       \/ /\ ~Has("drill") /\ "foreign" \in trouble
          /\ Past(p, 30) => port # "foreign"
  /\ p >= 33 =>
       /\ epoch > written
       /\ written > witness["fresh_process_recovers_after_outage"].epoch

\* A Redis of the drill that answers after a stop came up after it.
Epochs(p) ==
  /\ p = 5 => written = epoch
  /\ Past(p, 6) /\ p <= 28 /\ port = "drill" => epoch > written
  /\ p > 8 => witness["redis_aof_restart_exact_recovery"].epoch \in 0..epoch
  /\ Past(p, 18) /\ p <= 23 /\ port = "drill" =>
       epoch > witness["redis_aof_restart_exact_recovery"].epoch
  /\ p > 23 => witness["fresh_process_recovers_after_outage"].epoch \in 0..epoch
  /\ Past(p, 24) /\ p <= 28 /\ port = "drill" =>
       epoch > witness["fresh_process_recovers_after_outage"].epoch
  /\ Past(p, 30) /\ p <= 32 /\ port = "drill" => epoch > written

\* What the gates recorded so far have seen.
Seen(p) ==
  LET At(gate) == witness[gate]
  IN  /\ p > 5 => At("application_restart_exact_recovery").epoch
                    = At("application_restart_exact_recovery").written
      /\ p > 8 => /\ At("application_restart_exact_recovery").server = "drill"
                  /\ At("redis_aof_restart_exact_recovery").server = "drill"
                  /\ At("redis_aof_restart_exact_recovery").epoch
                       > At("redis_aof_restart_exact_recovery").written
      /\ p > 14 => At("wrong_key_tamper_swap_corrupt").server = "drill"
      /\ p = 21 /\ At("read_outage_unhealthy").server # "nobody" => port = "foreign"
      /\ p > 21 => /\ At("read_outage_unhealthy").server = "nobody"
                   /\ At("safe_proxy_startup_fail_closed").server = "nobody"
      /\ p > 23 => /\ At("fresh_process_recovers_after_outage").server = "drill"
                   /\ At("fresh_process_recovers_after_outage").epoch
                        > At("redis_aof_restart_exact_recovery").epoch
      /\ p > 33 => /\ At("clean_volume_repeat_run").epoch
                        > At("clean_volume_repeat_run").written
                   /\ At("clean_volume_repeat_run").written
                        > At("fresh_process_recovers_after_outage").epoch

Facts(p) == FirstWrite(p) /\ SecondWrite(p) /\ Epochs(p) /\ Seen(p)

\* The coordinator is at p of its script; unless something failed, all of the
\* above holds there.
OnInv(p) == OnScript(p) /\ ServerInv(p) /\ GatesInv(p) /\ (Sound => Facts(p))

\* The steps after the phases.
EndOps == Late \cup {"file", "sums", "unhandled"}

\* Nothing but those steps is left.
Ending(d) == \A i \in DOMAIN d : d[i].op \in EndOps

\* The failure is noted before a file is written.
Warned(d) ==
  \A i \in DOMAIN d : d[i].op = "file" => \E j \in DOMAIN d : j < i /\ d[j].op = "unhandled"

\* run() was left: what is still written says that something failed.
Off ==
  /\ Ending(todo)
  /\ (\E g \in Gates : gates[g] = "FAIL") \/ Warned(todo)

\* What PassIsEarned says of the gates of results.json.
Earned(results) ==
  LET At(gate) == witness[gate]
  IN  /\ \A g \in PhaseGates : results[g] = "PASS"
      /\ \A g \in OutagePhase : At(g).server = "nobody"
      /\ \A g \in ReadBack : At(g).server = "drill"
      /\ At("application_restart_exact_recovery").epoch
           = At("application_restart_exact_recovery").written
      /\ \A g \in {"redis_aof_restart_exact_recovery", "clean_volume_repeat_run"} :
           At(g).epoch > At(g).written
      /\ At("fresh_process_recovers_after_outage").epoch
           > At("redis_aof_restart_exact_recovery").epoch
      /\ At("clean_volume_repeat_run").written
           > At("fresh_process_recovers_after_outage").epoch

\* Once results.json says PASS, no gate is recorded any more.
ResultsInv ==
  (files["results"] \notin {None, Earlier} /\ Passed(files["results"])) =>
    /\ Earned(files["results"])
    /\ Ending(todo)

\* At most one foreign Redis ever takes the port.
ForeignInv == port = "foreign" => "foreign" \in trouble

\* Every gate has a place for its witness.
WitnessInv == DOMAIN witness = Gates

EarnedInv ==
  /\ ForeignInv /\ WitnessInv /\ ResultsInv
  /\ Off \/ \E p \in 1..44 : OnInv(p)

-----------------------------------------------------------------------------
(* The script, step by step *)

\* run_drill, one step after the other.
LEMMA ScriptIs ==
  /\ Script \in Seq(AllSteps) /\ Len(Script) = 43
  /\ Script[1].op = "construct"
  /\ Script[2].op = "start"
  /\ \A p \in 3..34 : Script[p].op = Body[p - 2].op /\ Script[p].of = Body[p - 2].of
  /\ Script[35].op = "stop"
  /\ \A p \in 36..40 : Script[p].op = "file" /\ Script[p].of = EvidenceFiles[p - 35]
  /\ Script[41].op = "sums"
  /\ Script[42].op = "stop"
  /\ Script[43].op = "remove"
<1> DEFINE T == <<Call("start")>>
           SE == Stop \o Evidence
           A == In("construct", <<Call("construct")>>)
           B == In("run", T)
           D == In("try", Body)
           E == In("run", SE)
           AB == A \o B
           ABD == AB \o D
           ABDE == ABD \o E
<1>1. Script = ABDE \o Cleanup
  BY DEF Script
<1>2. {"construct", "run", "try"} \subseteq Levels
  BY DEF Levels
<1>3. A \in Seq(AllSteps) /\ Len(A) = 1 /\ A[1].op = "construct"
  BY <1>2 DEF In, Call, Step, AllSteps, Names
<1>4. T \in Seq(PlainSteps) /\ Len(T) = 1 /\ T[1].op = "start"
  BY DEF Call, Step, PlainSteps, Ops, Names
<1> HIDE DEF T
<1>5. B \in Seq(AllSteps) /\ Len(B) = 1 /\ B[1].op = "start"
  BY <1>2, <1>4, InShape
<1>6. /\ D \in Seq(AllSteps) /\ Len(D) = 32
      /\ \A i \in 1..32 : D[i].op = Body[i].op /\ D[i].of = Body[i].of
  BY <1>2, BodyIs, InShape
<1>7. /\ Stop \in Seq(PlainSteps) /\ Len(Stop) = 1 /\ Stop[1].op = "stop"
      /\ Evidence \in Seq(PlainSteps) /\ Len(Evidence) = 6 /\ Evidence[6].op = "sums"
      /\ \A i \in 1..5 : Evidence[i].op = "file" /\ Evidence[i].of = EvidenceFiles[i]
  BY EvidenceShape
<1>8. /\ SE \in Seq(PlainSteps) /\ Len(SE) = 7
      /\ \A i \in 1..7 : SE[i] = IF i <= 1 THEN Stop[i] ELSE Evidence[i - 1]
  <2>1. /\ Stop \o Evidence \in Seq(PlainSteps) /\ Len(Stop \o Evidence) = Len(Stop) + Len(Evidence)
        /\ \A i \in 1..Len(Stop) + Len(Evidence) :
             (Stop \o Evidence)[i] = IF i <= Len(Stop) THEN Stop[i] ELSE Evidence[i - Len(Stop)]
    BY <1>7, ConcatProperties, ZenonT(60)
  <2>2. SE = Stop \o Evidence
    BY DEF SE
  <2> HIDE DEF SE
  <2>3. /\ SE \in Seq(PlainSteps) /\ Len(SE) = Len(Stop) + Len(Evidence)
        /\ \A i \in 1..Len(Stop) + Len(Evidence) :
             SE[i] = IF i <= Len(Stop) THEN Stop[i] ELSE Evidence[i - Len(Stop)]
    BY <2>1, <2>2, Zenon
  <2>4. Len(Stop) = 1 /\ Len(Evidence) = 6
    BY <1>7
  <2> QED
    BY <2>3, <2>4
<1> HIDE DEF SE
<1>9. /\ E \in Seq(AllSteps) /\ Len(E) = 7
      /\ \A i \in 1..7 : E[i].op = SE[i].op /\ E[i].of = SE[i].of
  BY <1>2, <1>8, InShape
<1>10. /\ Cleanup \in Seq(AllSteps) /\ Len(Cleanup) = 2
       /\ Cleanup[1].op = "stop" /\ Cleanup[2].op = "remove"
  BY CleanupShape DEF RunScript
<1> HIDE DEF A, B, D, E
<1>11. /\ AB \in Seq(AllSteps) /\ Len(AB) = 2
      /\ \A i \in 1..2 : AB[i] = IF i <= 1 THEN A[i] ELSE B[i - 1]
  <2>1. /\ A \o B \in Seq(AllSteps) /\ Len(A \o B) = Len(A) + Len(B)
        /\ \A i \in 1..Len(A) + Len(B) :
             (A \o B)[i] = IF i <= Len(A) THEN A[i] ELSE B[i - Len(A)]
    BY <1>3, <1>5, ConcatProperties, ZenonT(60)
  <2>2. AB = A \o B
    BY DEF AB
  <2> HIDE DEF AB
  <2>3. /\ AB \in Seq(AllSteps) /\ Len(AB) = Len(A) + Len(B)
        /\ \A i \in 1..Len(A) + Len(B) :
             AB[i] = IF i <= Len(A) THEN A[i] ELSE B[i - Len(A)]
    BY <2>1, <2>2, Zenon
  <2>4. Len(A) = 1 /\ Len(B) = 1
    BY <1>3, <1>5
  <2> QED
    BY <2>3, <2>4
<1> HIDE DEF AB
<1>12. /\ ABD \in Seq(AllSteps) /\ Len(ABD) = 34
      /\ \A i \in 1..34 : ABD[i] = IF i <= 2 THEN AB[i] ELSE D[i - 2]
  <2>1. /\ AB \o D \in Seq(AllSteps) /\ Len(AB \o D) = Len(AB) + Len(D)
        /\ \A i \in 1..Len(AB) + Len(D) :
             (AB \o D)[i] = IF i <= Len(AB) THEN AB[i] ELSE D[i - Len(AB)]
    BY <1>11, <1>6, ConcatProperties, ZenonT(60)
  <2>2. ABD = AB \o D
    BY DEF ABD
  <2> HIDE DEF ABD
  <2>3. /\ ABD \in Seq(AllSteps) /\ Len(ABD) = Len(AB) + Len(D)
        /\ \A i \in 1..Len(AB) + Len(D) :
             ABD[i] = IF i <= Len(AB) THEN AB[i] ELSE D[i - Len(AB)]
    BY <2>1, <2>2, Zenon
  <2>4. Len(AB) = 2 /\ Len(D) = 32
    BY <1>11, <1>6
  <2> QED
    BY <2>3, <2>4
<1> HIDE DEF ABD
<1>13. /\ ABDE \in Seq(AllSteps) /\ Len(ABDE) = 41
      /\ \A i \in 1..41 : ABDE[i] = IF i <= 34 THEN ABD[i] ELSE E[i - 34]
  <2>1. /\ ABD \o E \in Seq(AllSteps) /\ Len(ABD \o E) = Len(ABD) + Len(E)
        /\ \A i \in 1..Len(ABD) + Len(E) :
             (ABD \o E)[i] = IF i <= Len(ABD) THEN ABD[i] ELSE E[i - Len(ABD)]
    BY <1>12, <1>9, ConcatProperties, ZenonT(60)
  <2>2. ABDE = ABD \o E
    BY DEF ABDE
  <2> HIDE DEF ABDE
  <2>3. /\ ABDE \in Seq(AllSteps) /\ Len(ABDE) = Len(ABD) + Len(E)
        /\ \A i \in 1..Len(ABD) + Len(E) :
             ABDE[i] = IF i <= Len(ABD) THEN ABD[i] ELSE E[i - Len(ABD)]
    BY <2>1, <2>2, Zenon
  <2>4. Len(ABD) = 34 /\ Len(E) = 7
    BY <1>12, <1>9
  <2> QED
    BY <2>3, <2>4
<1> HIDE DEF ABDE
<1>14. /\ Script \in Seq(AllSteps) /\ Len(Script) = 43
      /\ \A i \in 1..43 : Script[i] = IF i <= 41 THEN ABDE[i] ELSE Cleanup[i - 41]
  <2>1. /\ ABDE \o Cleanup \in Seq(AllSteps) /\ Len(ABDE \o Cleanup) = Len(ABDE) + Len(Cleanup)
        /\ \A i \in 1..Len(ABDE) + Len(Cleanup) :
             (ABDE \o Cleanup)[i] = IF i <= Len(ABDE) THEN ABDE[i] ELSE Cleanup[i - Len(ABDE)]
    BY <1>13, <1>10, ConcatProperties, ZenonT(60)
  <2>2. Script = ABDE \o Cleanup
    BY <1>1
  <2>3. /\ Script \in Seq(AllSteps) /\ Len(Script) = Len(ABDE) + Len(Cleanup)
        /\ \A i \in 1..Len(ABDE) + Len(Cleanup) :
             Script[i] = IF i <= Len(ABDE) THEN ABDE[i] ELSE Cleanup[i - Len(ABDE)]
    BY <2>1, <2>2, Zenon
  <2>4. Len(ABDE) = 41 /\ Len(Cleanup) = 2
    BY <1>13, <1>10
  <2> QED
    BY <2>3, <2>4
<1>15. /\ \A p \in 1..41 : Script[p] = ABDE[p]
       /\ Script[42] = Cleanup[1] /\ Script[43] = Cleanup[2]
  BY <1>14
<1>16. /\ \A p \in 1..34 : Script[p] = ABD[p]
       /\ \A p \in 35..41 : Script[p] = E[p - 34]
  <2>1. ASSUME NEW p \in 1..41
        PROVE  Script[p] = IF p <= 34 THEN ABD[p] ELSE E[p - 34]
    <3>1. Script[p] = ABDE[p]
      BY <1>15
    <3>2. ABDE[p] = IF p <= 34 THEN ABD[p] ELSE E[p - 34]
      BY <1>13
    <3> QED
      BY <3>1, <3>2
  <2> QED
    BY <2>1
<1>17. /\ Script[1] = A[1] /\ Script[2] = B[1]
       /\ \A p \in 3..34 : Script[p] = D[p - 2]
  <2>1. ASSUME NEW p \in 1..34
        PROVE  Script[p] = IF p <= 2 THEN AB[p] ELSE D[p - 2]
    <3>1. Script[p] = ABD[p]
      BY <1>16
    <3>2. ABD[p] = IF p <= 2 THEN AB[p] ELSE D[p - 2]
      BY <1>12
    <3> QED
      BY <3>1, <3>2
  <2>2. AB[1] = A[1] /\ AB[2] = B[1]
    BY <1>11
  <2> QED
    BY <2>1, <2>2
<1>18. ASSUME NEW p \in 3..34
       PROVE  Script[p].op = Body[p - 2].op /\ Script[p].of = Body[p - 2].of
  <2>1. p - 2 \in 1..32
    OBVIOUS
  <2>2. D[p - 2].op = Body[p - 2].op /\ D[p - 2].of = Body[p - 2].of
    BY <1>6, <2>1
  <2> QED
    BY <1>17, <2>2
<1>19. /\ E[1].op = "stop" /\ E[7].op = "sums"
       /\ \A i \in 2..6 : E[i].op = "file" /\ E[i].of = EvidenceFiles[i - 1]
  BY <1>7, <1>8, <1>9
<1>20. /\ Script[35] = E[1] /\ Script[41] = E[7]
       /\ \A p \in 36..40 : Script[p].op = "file" /\ Script[p].of = EvidenceFiles[p - 35]
  BY <1>16, <1>19
<1> QED
  BY <1>3, <1>5, <1>10, <1>14, <1>15, <1>17, <1>18, <1>19, <1>20

\* The phases of run() in the script.
LEMMA PhasesIs ==
  /\ Script[3].op = "preflight" /\ Script[3].of = "preflight"
  /\ Script[4].op = "write" /\ Script[4].of = "synthetic_write"
  /\ Script[5].op = "verify" /\ Script[5].of = "application_restart_exact_recovery"
  /\ Script[6].op = "stop" /\ Script[6].of = None
  /\ Script[7].op = "start" /\ Script[7].of = None
  /\ Script[8].op = "verify" /\ Script[8].of = "redis_aof_restart_exact_recovery"
  /\ Script[9].op = "isolation" /\ Script[9].of = "tenant_session_isolation"
  /\ Script[10].op = "ttl_write" /\ Script[10].of = None
  /\ Script[11].op = "poll_found" /\ Script[11].of = None
  /\ Script[12].op = "poll_expired" /\ Script[12].of = None
  /\ Script[13].op = "poll_missing" /\ Script[13].of = "found_expired_not_found"
  /\ Script[14].op = "negative" /\ Script[14].of = "wrong_key_tamper_swap_corrupt"
  /\ Script[15].op = "privacy" /\ Script[15].of = "ciphertext_at_rest_and_privacy"
  /\ Script[16].op = "spawn" /\ Script[16].of = None
  /\ Script[17].op = "await" /\ Script[17].of = None
  /\ Script[18].op = "stop" /\ Script[18].of = None
  /\ Script[19].op = "proceed" /\ Script[19].of = None
  /\ Script[20].op = "collect" /\ Script[20].of = "read_outage_unhealthy"
  /\ Script[21].op = "startup" /\ Script[21].of = "safe_proxy_startup_fail_closed"
  /\ Script[22].op = "start" /\ Script[22].of = None
  /\ Script[23].op = "verify" /\ Script[23].of = "fresh_process_recovers_after_outage"
  /\ Script[24].op = "stop" /\ Script[24].of = None
  /\ Script[25].op = "clear" /\ Script[25].of = None
  /\ Script[26].op = "start" /\ Script[26].of = None
  /\ Script[27].op = "clean" /\ Script[27].of = None
  /\ Script[28].op = "write" /\ Script[28].of = None
  /\ Script[29].op = "verify" /\ Script[29].of = None
  /\ Script[30].op = "stop" /\ Script[30].of = None
  /\ Script[31].op = "start" /\ Script[31].of = None
  /\ Script[32].op = "verify" /\ Script[32].of = None
  /\ Script[33].op = "privacy" /\ Script[33].of = "clean_volume_repeat_run"
  /\ Script[34].op = "cost" /\ Script[34].of = "zero_provider_calls_and_cost"
<1> DEFINE At(p, b) == Script[p].op = b.op /\ Script[p].of = b.of
<1>1. ASSUME NEW i \in 1..32 PROVE At(i + 2, Body[i])
  <2>1. PICK p \in 3..34 : p = i + 2 /\ p - 2 = i
    OBVIOUS
  <2>2. Script[p].op = Body[p - 2].op /\ Script[p].of = Body[p - 2].of
    BY ScriptIs
  <2> QED
    BY <2>1, <2>2
<1>2. /\ Script[3].op = "preflight" /\ Script[3].of = "preflight"
      /\ Script[4].op = "write" /\ Script[4].of = "synthetic_write"
      /\ Script[5].op = "verify" /\ Script[5].of = "application_restart_exact_recovery"
      /\ Script[6].op = "stop" /\ Script[6].of = None
      /\ Script[7].op = "start" /\ Script[7].of = None
  <2>1. /\ At(3, Body[1])
        /\ At(4, Body[2])
        /\ At(5, Body[3])
        /\ At(6, Body[4])
        /\ At(7, Body[5])
    BY <1>1
  <2> QED
    BY <2>1, BodyIs DEF Step, Call
<1>3. /\ Script[8].op = "verify" /\ Script[8].of = "redis_aof_restart_exact_recovery"
      /\ Script[9].op = "isolation" /\ Script[9].of = "tenant_session_isolation"
      /\ Script[10].op = "ttl_write" /\ Script[10].of = None
      /\ Script[11].op = "poll_found" /\ Script[11].of = None
      /\ Script[12].op = "poll_expired" /\ Script[12].of = None
      /\ Script[13].op = "poll_missing" /\ Script[13].of = "found_expired_not_found"
      /\ Script[14].op = "negative" /\ Script[14].of = "wrong_key_tamper_swap_corrupt"
      /\ Script[15].op = "privacy" /\ Script[15].of = "ciphertext_at_rest_and_privacy"
      /\ Script[16].op = "spawn" /\ Script[16].of = None
      /\ Script[17].op = "await" /\ Script[17].of = None
      /\ Script[18].op = "stop" /\ Script[18].of = None
  <2>1. /\ At(8, Body[6])
        /\ At(9, Body[7])
        /\ At(10, Body[8])
        /\ At(11, Body[9])
        /\ At(12, Body[10])
        /\ At(13, Body[11])
        /\ At(14, Body[12])
        /\ At(15, Body[13])
        /\ At(16, Body[14])
        /\ At(17, Body[15])
        /\ At(18, Body[16])
    BY <1>1
  <2> QED
    BY <2>1, BodyIs DEF Step, Call
<1>4. /\ Script[19].op = "proceed" /\ Script[19].of = None
      /\ Script[20].op = "collect" /\ Script[20].of = "read_outage_unhealthy"
      /\ Script[21].op = "startup" /\ Script[21].of = "safe_proxy_startup_fail_closed"
      /\ Script[22].op = "start" /\ Script[22].of = None
      /\ Script[23].op = "verify" /\ Script[23].of = "fresh_process_recovers_after_outage"
      /\ Script[24].op = "stop" /\ Script[24].of = None
      /\ Script[25].op = "clear" /\ Script[25].of = None
      /\ Script[26].op = "start" /\ Script[26].of = None
      /\ Script[27].op = "clean" /\ Script[27].of = None
      /\ Script[28].op = "write" /\ Script[28].of = None
      /\ Script[29].op = "verify" /\ Script[29].of = None
  <2>1. /\ At(19, Body[17])
        /\ At(20, Body[18])
        /\ At(21, Body[19])
        /\ At(22, Body[20])
        /\ At(23, Body[21])
        /\ At(24, Body[22])
        /\ At(25, Body[23])
        /\ At(26, Body[24])
        /\ At(27, Body[25])
        /\ At(28, Body[26])
        /\ At(29, Body[27])
    BY <1>1
  <2> QED
    BY <2>1, BodyIs DEF Step, Call
<1>5. /\ Script[30].op = "stop" /\ Script[30].of = None
      /\ Script[31].op = "start" /\ Script[31].of = None
      /\ Script[32].op = "verify" /\ Script[32].of = None
      /\ Script[33].op = "privacy" /\ Script[33].of = "clean_volume_repeat_run"
      /\ Script[34].op = "cost" /\ Script[34].of = "zero_provider_calls_and_cost"
  <2>1. /\ At(30, Body[28])
        /\ At(31, Body[29])
        /\ At(32, Body[30])
        /\ At(33, Body[31])
        /\ At(34, Body[32])
    BY <1>1
  <2> QED
    BY <2>1, BodyIs DEF Step, Call
<1> QED
  BY <1>2, <1>3, <1>4, <1>5

\* Where the steps of the script are.
LEMMA Positions ==
  ASSUME NEW p \in 1..43
  PROVE  /\ Script[p].op = "construct" => p = 1
         /\ Script[p].op = "start" => p \in {2, 7, 22, 26, 31}
         /\ Script[p].op = "preflight" => p = 3
         /\ Script[p].op = "write" => p \in {4, 28}
         /\ Script[p].op = "verify" => p \in {5, 8, 23, 29, 32}
         /\ Script[p].op = "stop" => p \in {6, 18, 24, 30, 35, 42}
         /\ Script[p].op = "isolation" => p = 9
         /\ Script[p].op = "ttl_write" => p = 10
         /\ Script[p].op = "poll_found" => p = 11
         /\ Script[p].op = "poll_expired" => p = 12
         /\ Script[p].op = "poll_missing" => p = 13
         /\ Script[p].op = "negative" => p = 14
         /\ Script[p].op = "privacy" => p \in {15, 33}
         /\ Script[p].op = "spawn" => p = 16
         /\ Script[p].op = "await" => p = 17
         /\ Script[p].op = "proceed" => p = 19
         /\ Script[p].op = "collect" => p = 20
         /\ Script[p].op = "startup" => p = 21
         /\ Script[p].op = "clear" => p = 25
         /\ Script[p].op = "clean" => p = 27
         /\ Script[p].op = "cost" => p = 34
         /\ Script[p].op = "sums" => p = 41
         /\ Script[p].op = "remove" => p = 43
         /\ Script[p].op = "file" => p \in 36..40
         /\ p \in 36..40 => Script[p].op = "file" /\ (Script[p].of = "results" => p = 37)
         /\ p >= 35 => Script[p].op \in EndOps
         /\ Script[p].op # "unhandled"
<1>1. CASE p \in 3..34
  <2>1. Script[p].op \notin EndOps \ {"stop"} /\ Script[p].op # "construct"
    BY <1>1, PhasesIs DEF EndOps, Late
  <2> QED
    BY <1>1, <2>1, PhasesIs DEF EndOps, Late
<1>2. CASE p \in 36..40
  <2>1. Script[p].op = "file" /\ Script[p].of = EvidenceFiles[p - 35]
    BY <1>2, ScriptIs
  <2>2. p - 35 \in 1..5 /\ (p - 35 = 2 => p = 37)
    BY <1>2
  <2>3. \A i \in 1..5 : EvidenceFiles[i] = "results" => i = 2
    BY DEF EvidenceFiles
  <2> QED
    BY <1>2, <2>1, <2>2, <2>3 DEF EndOps
<1>3. CASE p \in {1, 2, 35, 41, 42, 43}
  <2>1. /\ Script[1].op = "construct" /\ Script[2].op = "start" /\ Script[35].op = "stop"
        /\ Script[41].op = "sums" /\ Script[42].op = "stop" /\ Script[43].op = "remove"
    BY ScriptIs
  <2> QED
    BY <1>3, <2>1 DEF EndOps, Late
<1> QED
  BY <1>1, <1>2, <1>3

\* The gates of the phases are those of GateNames.
LEMMA PhaseGatesIs == PhaseGates = GateNames
<1>1. DOMAIN Body = 1..32
  BY BodyIs
<1>2. ASSUME NEW i \in 1..32 PROVE Body[i].of \in GateNames \cup {None}
  <2>1. i + 2 \in 3..34 /\ (i + 2) - 2 = i
    OBVIOUS
  <2>2. Body[i].of = Script[i + 2].of
    BY <2>1, ScriptIs
  <2> QED
    BY <2>1, <2>2, PhasesIs DEF GateNames
<1>3. ASSUME NEW g \in GateNames PROVE \E i \in 1..32 : Body[i].of = g
  <2>1. /\ Body[1].of = "preflight"
        /\ Body[2].of = "synthetic_write"
        /\ Body[3].of = "application_restart_exact_recovery"
        /\ Body[6].of = "redis_aof_restart_exact_recovery"
        /\ Body[7].of = "tenant_session_isolation"
        /\ Body[11].of = "found_expired_not_found"
        /\ Body[12].of = "wrong_key_tamper_swap_corrupt"
        /\ Body[13].of = "ciphertext_at_rest_and_privacy"
        /\ Body[18].of = "read_outage_unhealthy"
        /\ Body[19].of = "safe_proxy_startup_fail_closed"
        /\ Body[21].of = "fresh_process_recovers_after_outage"
        /\ Body[31].of = "clean_volume_repeat_run"
        /\ Body[32].of = "zero_provider_calls_and_cost"
    BY BodyIs DEF Step
  <2> QED
    BY <2>1 DEF GateNames
<1> QED
  BY <1>1, <1>2, <1>3, NoneAssumption DEF PhaseGates

\* A phase records the gate whose place is its own.
LEMMA Places ==
  ASSUME NEW p \in 3..34
  PROVE  /\ Script[p].of \in GateNames \cup {None}
         /\ \A g \in GateNames : Place(g) = p <=> Script[p].of = g
<1>1. Script[p].of \in GateNames \cup {None}
  BY PhasesIs DEF GateNames
<1>2. ASSUME NEW g \in GateNames PROVE Place(g) = p <=> Script[p].of = g
  BY <1>2, PhasesIs, NoneAssumption DEF GateNames, Place
<1> QED
  BY <1>1, <1>2

-----------------------------------------------------------------------------
(* Where the coordinator is in its script *)

\* The next step is the one at p, and the one after it is at p + 1.
LEMMA NextOnScript ==
  ASSUME NEW p \in 1..44, OnScript(p)
  PROVE  /\ todo = << >> => p = 44
         /\ todo # << >> => p \in 1..43 /\ Head(todo) = Script[p]
         /\ todo # << >> /\ todo' = Tail(todo) => OnScript(p + 1)'
         /\ todo' = todo => OnScript(p)'
<1> USE DEF OnScript
<1>1. todo' = todo => OnScript(p)'
  OBVIOUS
<1>3. CASE todo = << >>
  <2>1. Len(todo) = 0 /\ Len(todo) = 44 - p
    BY <1>3
  <2>2. p = 44
    BY <2>1
  <2> QED
    BY <1>1, <1>3, <2>2
<1>2. CASE todo # << >>
  <2>1. todo \in Seq(AllSteps) /\ Len(todo) = 44 - p /\ Len(todo) \in Nat
    BY LenProperties DEF OnScript
  <2>2. Len(todo) # 0
    BY <1>2, <2>1, EmptySeq
  <2>3. p \in 1..43
    BY <2>1, <2>2
  <2>4. Head(todo) = todo[1] /\ todo[1] = Script[p]
    BY <1>2, <2>1, <2>3 DEF OnScript
  <2>5. ASSUME todo' = Tail(todo) PROVE OnScript(p + 1)'
    <3>1. /\ todo' \in Seq(AllSteps) /\ Len(todo') = Len(todo) - 1
          /\ \A i \in 1..(Len(todo) - 1) : todo'[i] = todo[i + 1]
      BY <1>2, <2>1, <2>5, HeadTailProperties
    <3>2. ASSUME NEW i \in 1..(44 - (p + 1)) PROVE todo'[i] = Script[(p + 1) - 1 + i]
      <4>1. i + 1 \in 1..(44 - p) /\ i \in 1..(Len(todo) - 1) /\ p - 1 + (i + 1) = (p + 1) - 1 + i
        BY <2>1, <2>3
      <4> QED
        BY <3>1, <4>1 DEF OnScript
    <3>3. Len(todo') = 44 - (p + 1)
      BY <2>1, <2>3, <3>1
    <3> QED
      BY <3>1, <3>2, <3>3
  <2> QED
    BY <1>1, <1>2, <2>3, <2>4, <2>5
<1> QED
  BY <1>2, <1>3

-----------------------------------------------------------------------------
(* Around the coordinator *)

\* A step that neither moves the coordinator nor writes to Redis: it answers,
\* stops answering or is taken over, time passes, trouble is noted.
Around ==
  /\ UNCHANGED <<todo, within, sofar, gates, files, witness, written>>
  /\ \A s \in {"drill", "foreign"} : Has(s)' => Has(s)
  /\ trouble \subseteq trouble'
  /\ child = "none" <=> child' = "none"
  /\ child' = "alive" => child = "alive"
  /\ \/ port' = port /\ epoch' = epoch
     \/ port = "nobody" /\ child = "alive" /\ port' = "drill" /\ epoch' = epoch + 1
     \/ port = "drill" /\ port' = "nobody" /\ child' = "dead" /\ epoch' = epoch
     \/ /\ port = "nobody" /\ port' = "foreign" /\ epoch' = epoch
        /\ "foreign" \notin trouble /\ "foreign" \in trouble'

\* They are those of the servers, the worker of the outage phase and the
\* trouble, and the end.
LEMMA AroundSteps ==
  ASSUME TypeOK,
         \/ \E s \in DOMAIN db : TtlPasses(s) \/ StateExpires(s)
         \/ OutageOpens \/ OutageReads \/ Return \/ Bind \/ BindFails
         \/ SlowsDown \/ ServerDies \/ ServerHangs \/ ForeignAppears \/ Killed
         \/ UNCHANGED vars
  PROVE  Around
<1> USE DEF script, gating, output, servers, worker, around, world
<1>0. /\ DOMAIN db = {"drill", "foreign"}
      /\ {"one", "wrong", "ttl"} \subseteq Items
      /\ \A s \in {"drill", "foreign"} : DOMAIN db[s] = Items
  BY DEF TypeOK, Items, VerifyItems, Controls
<1>1. ASSUME NEW s \in DOMAIN db, TtlPasses(s) PROVE Around
  <2>1. \A r \in {"drill", "foreign"} : Has(r)' => Has(r)
    BY <1>0, <1>1 DEF TtlPasses, Has
  <2> QED
    BY <1>1, <2>1 DEF TtlPasses, Around
<1>2. ASSUME NEW s \in DOMAIN db, StateExpires(s) PROVE Around
  <2>1. \A r \in {"drill", "foreign"} : Has(r)' => Has(r)
    BY <1>0, <1>2 DEF StateExpires, Has
  <2> QED
    BY <1>2, <2>1 DEF StateExpires, Trouble, Around
<1>3. CASE OutageOpens \/ OutageReads \/ Return \/ Bind \/ BindFails
  BY <1>3 DEF OutageOpens, OutageReads, Return, Bind, BindFails, Around, Has
<1>4. CASE SlowsDown \/ ServerDies \/ ServerHangs \/ Killed
  BY <1>4 DEF SlowsDown, ServerDies, ServerHangs, Killed, Trouble, Around, Has, TypeOK
<1>5. CASE ForeignAppears
  <2>1. PICK held \in {Blank, Occupied} : db' = [db EXCEPT !["foreign"] = held]
    BY <1>5 DEF ForeignAppears
  <2>2. held["one"] # "intact" /\ held["wrong"] # "intact"
    BY <1>0 DEF Blank, Occupied
  <2>3. \A r \in {"drill", "foreign"} : Has(r)' => Has(r)
    BY <1>0, <2>1, <2>2 DEF Has
  <2> QED
    BY <1>5, <2>3 DEF ForeignAppears, Trouble, Around
<1>6. CASE UNCHANGED vars
  BY <1>6 DEF vars, Around, Has
<1> QED
  BY <1>1, <1>2, <1>3, <1>4, <1>5, <1>6

\* They keep what the coordinator knows.
LEMMA AroundOn ==
  ASSUME TypeOK, EpochInv, ScriptInv, NEW p \in 1..44, OnInv(p), Around
  PROVE  OnInv(p)'
<1>1. OnScript(p)'
  BY NextOnScript DEF OnInv, Around
<1>2. ServerInv(p)'
  BY DEF OnInv, Around, ServerInv, TypeOK
<1>3. GatesInv(p)' /\ (Sound' <=> Sound)
  BY DEF OnInv, Around, GatesInv, Sound
<1>4. ASSUME Sound PROVE Facts(p)'
  <2>1. Facts(p) /\ ServerInv(p) /\ written \in 0..epoch /\ epoch \in Nat
    BY <1>4 DEF OnInv, TypeOK, EpochInv
  <2>2. /\ \A k \in {6, 18, 24, 30} : Past(p, k)' <=> Past(p, k)
        /\ epoch' \in Nat /\ epoch' >= epoch
    BY <2>1 DEF Past, Around
  <2>3. FirstWrite(p)'
    BY <2>1, <2>2 DEF Facts, FirstWrite, Around
  <2>4. SecondWrite(p)'
    BY <2>1, <2>2 DEF Facts, SecondWrite, Around
  <2>5. Epochs(p)'
    <3>1. p = 5 => within = "call"
      <4>1. p = 5 => todo # << >> /\ Head(todo) = Script[5]
        BY NextOnScript DEF OnInv
      <4>2. Script[5].op = "verify"
        BY PhasesIs
      <4> QED
        BY <4>1, <4>2 DEF ScriptInv, TypeOK
    <3>2. p = 5 => epoch' = epoch
      BY <2>1, <3>1 DEF Around, ServerInv, Running
    <3>3. Epochs(p) /\ witness' = witness /\ written' = written
      BY <2>1 DEF Facts, Around
    <3>4. ASSUME NEW e \in 0..epoch PROVE e \in 0..epoch'
      BY <2>1, <2>2
    <3>5. ASSUME NEW e, port = "drill" => epoch > e, port' = "drill", e \in 0..epoch
          PROVE  epoch' > e
      BY <2>1, <3>5 DEF Around
    <3> DEFINE a == witness["redis_aof_restart_exact_recovery"].epoch
               f == witness["fresh_process_recovers_after_outage"].epoch
    <3>6. /\ p > 8 => a \in 0..epoch'
          /\ p > 23 => f \in 0..epoch'
      BY <3>3, <3>4 DEF Epochs
    <3>7. Past(p, 6)' /\ p <= 28 /\ port' = "drill" => epoch' > written
      BY <2>1, <2>2, <3>3, <3>5 DEF Epochs
    <3>8. Past(p, 18)' /\ p <= 23 /\ port' = "drill" => epoch' > a
      <4>1. Past(p, 18) => p > 8
        BY DEF Past
      <4> QED
        BY <2>2, <3>3, <3>5, <4>1 DEF Epochs
    <3>9. Past(p, 24)' /\ p <= 28 /\ port' = "drill" => epoch' > f
      <4>1. Past(p, 24) => p > 23
        BY DEF Past
      <4> QED
        BY <2>2, <3>3, <3>5, <4>1 DEF Epochs
    <3>10. Past(p, 30)' /\ p <= 32 /\ port' = "drill" => epoch' > written
      BY <2>1, <2>2, <3>3, <3>5 DEF Epochs
    <3>11. p = 5 => written' = epoch'
      BY <3>2, <3>3 DEF Epochs
    <3> QED
      BY <3>3, <3>6, <3>7, <3>8, <3>9, <3>10, <3>11 DEF Epochs
  <2>6. Seen(p)'
    BY <2>1, <2>2 DEF Facts, Seen, Around
  <2> QED
    BY <2>3, <2>4, <2>5, <2>6 DEF Facts
<1> QED
  BY <1>1, <1>2, <1>3, <1>4 DEF OnInv

-----------------------------------------------------------------------------
(* The phases *)

\* The gate of the step at p notes who answered, the other gates keep theirs.
Recorded(p) ==
  \A g \in GateNames :
    witness'[g] = IF Place(g) = p
                    THEN [server |-> port, epoch |-> epoch, written |-> written]
                    ELSE witness[g]

\* Every gate is recorded by one of the phases.
LEMMA PlacesAre ==
  /\ \A g \in GateNames : Place(g) \in 3..34
  /\ Place("application_restart_exact_recovery") = 5
  /\ Place("redis_aof_restart_exact_recovery") = 8
  /\ Place("wrong_key_tamper_swap_corrupt") = 14
  /\ Place("read_outage_unhealthy") = 20
  /\ Place("safe_proxy_startup_fail_closed") = 21
  /\ Place("fresh_process_recovers_after_outage") = 23
  /\ Place("clean_volume_repeat_run") = 33
  BY DEF Place, GateNames

\* A phase records its gate, if it has one.  If nothing has failed after it,
\* nothing had before it and the phase did not fail.
LEMMA Recording ==
  ASSUME TypeOK, WitnessInv, NEW p \in 3..34, GatesInv(p), Head(todo) = Script[p],
         NEW result \in BOOLEAN, Conclude(result)
  PROVE  /\ GatesInv(p + 1)' /\ WitnessInv' /\ Recorded(p)
         /\ Sound' => Sound /\ result
<1> DEFINE gate == Script[p].of
           held == sofar /\ result
<1>1. /\ gate \in GateNames \cup {None}
      /\ \A g \in GateNames : Place(g) = p <=> gate = g
      /\ \A g \in GateNames : Place(g) \in 3..34
      /\ PhaseGates = GateNames /\ Gates = GateNames \cup {"unhandled_failure"}
  BY Places, PlacesAre, PhaseGatesIs DEF Gates
<1>2. gates \in [Gates -> {"unset", "PASS", "FAIL"}] /\ sofar \in BOOLEAN
  BY DEF TypeOK
<1>3. /\ \A g \in GateNames : IF Place(g) < p THEN gates[g] # "unset" ELSE gates[g] = "unset"
      /\ p > 34 => sofar
  BY <1>1 DEF GatesInv
<1>4. p = 34 => gate = "zero_provider_calls_and_cost"
  BY PhasesIs
<1> HIDE DEF gate
<1>5. CASE gate = None
  <2>1. sofar' = held /\ gates' = gates /\ witness' = witness
    BY <1>5 DEF Conclude, gate
  <2>2. \A g \in GateNames : Place(g) # p
    BY <1>1, <1>5, NoneAssumption
  <2>3. p # 34
    BY <1>4, <1>5, NoneAssumption DEF GateNames
  <2>4. GatesInv(p + 1)'
    <3>1. ASSUME NEW g \in GateNames
          PROVE  IF Place(g) < p + 1 THEN gates'[g] # "unset" ELSE gates'[g] = "unset"
      <4>1. Place(g) < p + 1 <=> Place(g) < p
        BY <1>1, <2>2
      <4> QED
        BY <1>3, <2>1, <4>1
    <3> QED
      BY <1>1, <2>3, <3>1 DEF GatesInv
  <2>5. Sound' => Sound /\ result
    BY <2>1, <1>2 DEF Sound
  <2> QED
    BY <2>1, <2>2, <2>4, <2>5 DEF WitnessInv, Recorded
<1>6. CASE gate \in GateNames
  <2> DEFINE status == Status(held)
             note == [server |-> port, epoch |-> epoch, written |-> written]
  <2>1. /\ sofar' = TRUE /\ gates' = [gates EXCEPT ![gate] = status]
        /\ witness' = [witness EXCEPT ![gate] = note]
    BY <1>6, NoneAssumption DEF Conclude, gate
  <2>2. (held => status = "PASS") /\ (~held => status = "FAIL") /\ held \in BOOLEAN
    BY <1>2 DEF Status
  <2> HIDE DEF status, note
  <2>3. \A g \in Gates : gates'[g] = IF g = gate THEN status ELSE gates[g]
    BY <1>2, <2>1
  <2>4. GatesInv(p + 1)'
    <3>1. ASSUME NEW g \in GateNames
          PROVE  IF Place(g) < p + 1 THEN gates'[g] # "unset" ELSE gates'[g] = "unset"
      <4>1. Place(g) < p + 1 <=> Place(g) < p \/ Place(g) = p
        BY <1>1
      <4>2. gates'[g] = IF g = gate THEN status ELSE gates[g]
        BY <1>1, <2>3
      <4>3. status # "unset"
        BY <2>2
      <4> QED
        BY <1>1, <1>3, <4>1, <4>2, <4>3
    <3> QED
      BY <1>1, <2>1, <3>1 DEF GatesInv
  <2>5. WitnessInv' /\ Recorded(p)
    BY <1>1, <1>6, <2>1 DEF WitnessInv, Recorded, note
  <2>6. ASSUME Sound' PROVE Sound /\ result
    <3>1. \A g \in Gates : gates'[g] # "FAIL"
      BY <2>6 DEF Sound
    <3>2. gate \in Gates
      BY <1>1, <1>6
    <3>3. held
      BY <2>2, <2>3, <3>1, <3>2
    <3>4. gates[gate] = "unset"
      <4>1. Place(gate) = p
        BY <1>1, <1>6
      <4> QED
        BY <1>3, <1>6, <4>1
    <3> QED
      BY <2>3, <3>1, <3>3, <3>4 DEF Sound
  <2> QED
    BY <2>4, <2>5, <2>6
<1> QED
  BY <1>1, <1>5, <1>6

-----------------------------------------------------------------------------
(* What each phase finds *)

\* A step of the coordinator that leaves Redis and its server alone, or at
\* most waits for it to end, brings no gate of the properties and no write:
\* what was known still is.
LEMMA QuietFacts ==
  ASSUME TypeOK, EpochInv,
         NEW p \in 1..43, p \notin {4, 5, 8, 14, 20, 21, 23, 25, 28, 32, 33},
         Facts(p),
         \A k \in {6, 18, 24, 30} : Past(p + 1, k)' <=> Past(p, k),
         port' \in {port, "nobody"}, epoch' = epoch, written' = written,
         trouble \subseteq trouble',
         \A s \in {"drill", "foreign"} : Has(s)' => Has(s),
         \A g \in GateNames : Place(g) # p => witness'[g] = witness[g]
  PROVE  Facts(p + 1)'
<1>1. /\ FirstWrite(p) /\ SecondWrite(p) /\ Epochs(p) /\ Seen(p)
      /\ written \in 0..epoch /\ epoch \in Nat
  BY DEF Facts, TypeOK, EpochInv
<1>2. \A g \in {"application_restart_exact_recovery", "redis_aof_restart_exact_recovery",
                "wrong_key_tamper_swap_corrupt", "read_outage_unhealthy",
                "safe_proxy_startup_fail_closed", "fresh_process_recovers_after_outage",
                "clean_volume_repeat_run"} : witness'[g] = witness[g]
  BY PlacesAre DEF GateNames
<1>3. FirstWrite(p + 1)'
  BY <1>1, <1>2 DEF FirstWrite
<1>4. SecondWrite(p + 1)'
  BY <1>1, <1>2 DEF SecondWrite
<1>5. Epochs(p + 1)'
  BY <1>1, <1>2 DEF Epochs
<1>6. Seen(p + 1)'
  BY <1>1, <1>2 DEF Seen
<1> QED
  BY <1>3, <1>4, <1>5, <1>6 DEF Facts

\* A phase runs while Redis is as it is.
Standing ==
  /\ within = "call" /\ within' = "call" /\ port' = port /\ epoch' = epoch
  /\ trouble' = trouble

\* The first write goes to whoever answers, in its present process.
LEMMA FactsOfWrite ==
  ASSUME TypeOK, EpochInv, Facts(4), Standing, written' = epoch, port # "nobody",
         \A s \in {"drill", "foreign"} : s # port => (Has(s)' => Has(s))
  PROVE  Facts(5)'
<1>1. epoch \in Nat /\ port \in {"drill", "foreign"}
  BY DEF TypeOK, EpochInv
<1>2. ~Has("drill") /\ ~Has("foreign")
  BY DEF Facts, FirstWrite
<1> QED
  BY <1>1, <1>2 DEF Facts, FirstWrite, SecondWrite, Epochs, Seen, Standing, Past

\* It is verified at once.
LEMMA FactsOfVerify ==
  ASSUME TypeOK, EpochInv, ForeignInv, Facts(5), Standing, Recorded(5), written' = written,
         port \in {"drill", "foreign"}, Has(port),
         \A s \in {"drill", "foreign"} : Has(s)' => Has(s)
  PROVE  Facts(6)'
<1>1. witness'["application_restart_exact_recovery"]
        = [server |-> port, epoch |-> epoch, written |-> written]
  BY PlacesAre DEF Recorded, GateNames
<1>2. written = epoch /\ ~(Has("drill") /\ Has("foreign")) /\ epoch \in Nat
  BY DEF Facts, FirstWrite, Epochs, EpochInv
<1>3. port = "foreign" => "foreign" \in trouble
  BY DEF ForeignInv
<1> QED
  BY <1>1, <1>2, <1>3 DEF Facts, FirstWrite, SecondWrite, Epochs, Seen, Standing, Past

\* After a restart the records are those of the drill's own Redis, which came
\* up after they were written.
LEMMA FactsOfRestart ==
  ASSUME TypeOK, EpochInv, Facts(8), Standing, Recorded(8), written' = written,
         port \in {"drill", "foreign"}, Has(port),
         \A s \in {"drill", "foreign"} : Has(s)' => Has(s)
  PROVE  Facts(9)'
<1>1. witness'["redis_aof_restart_exact_recovery"]
        = [server |-> port, epoch |-> epoch, written |-> written]
  BY PlacesAre DEF Recorded, GateNames
<1>2. witness'["application_restart_exact_recovery"]
        = witness["application_restart_exact_recovery"]
  BY PlacesAre DEF Recorded, GateNames
<1>3. Past(8, 6) /\ ~Past(9, 18)' /\ ~Past(9, 24)' /\ ~Past(9, 30)' /\ Past(9, 6)'
  BY DEF Past, Standing
<1>4. /\ witness["application_restart_exact_recovery"].server = "drill"
      /\ port = "drill" /\ ~Has("foreign")
  BY <1>3 DEF Facts, FirstWrite
<1>5. epoch > written /\ epoch \in Nat /\ written \in Nat
  BY <1>3, <1>4 DEF Facts, Epochs, EpochInv, TypeOK
<1>6. Seen(8)
  BY DEF Facts
<1> QED
  BY <1>1, <1>2, <1>3, <1>4, <1>5, <1>6 DEF Facts, FirstWrite, SecondWrite, Epochs, Seen, Standing

\* The tampering hits records in the drill's own Redis.
LEMMA FactsOfNegative ==
  ASSUME TypeOK, EpochInv, Facts(14), Standing, Recorded(14), written' = written,
         port \in {"drill", "foreign"}, Has(port),
         \A s \in {"drill", "foreign"} : Has(s)' => Has(s)
  PROVE  Facts(15)'
<1>1. witness'["wrong_key_tamper_swap_corrupt"].server = port
  BY PlacesAre DEF Recorded, GateNames
<1>2. \A g \in {"application_restart_exact_recovery", "redis_aof_restart_exact_recovery"} :
        witness'[g] = witness[g]
  BY PlacesAre DEF Recorded, GateNames
<1>3. /\ Past(14, 6) <=> Past(15, 6)'
      /\ \A k \in {18, 24, 30} : ~Past(15, k)'
  BY DEF Past, Standing
<1>4. port = "drill" /\ ~Has("foreign")
  BY DEF Facts, FirstWrite
<1>5. Epochs(14) /\ Seen(14) /\ FirstWrite(14)
  BY DEF Facts
<1>6. Epochs(15)' /\ Seen(15)'
  BY <1>1, <1>2, <1>3, <1>4, <1>5 DEF Epochs, Seen, Standing
<1>7. FirstWrite(15)' /\ SecondWrite(15)'
  BY <1>2, <1>4, <1>5 DEF FirstWrite, SecondWrite
<1> QED
  BY <1>6, <1>7 DEF Facts

\* The outage worker has seen a foreign Redis at most.
LEMMA FactsOfOutage ==
  ASSUME TypeOK, EpochInv, Facts(20), ServerInv(20), Standing, Recorded(20),
         written' = written, \A s \in {"drill", "foreign"} : Has(s)' => Has(s)
  PROVE  Facts(21)'
<1>1. witness'["read_outage_unhealthy"].server = port
  BY PlacesAre DEF Recorded, GateNames
<1>2. \A g \in {"application_restart_exact_recovery", "redis_aof_restart_exact_recovery",
                "wrong_key_tamper_swap_corrupt"} : witness'[g] = witness[g]
  BY PlacesAre DEF Recorded, GateNames
<1>3. /\ \A k \in {6, 18} : Past(20, k) /\ Past(21, k)'
      /\ \A k \in {24, 30} : ~Past(21, k)'
  BY DEF Past, Standing
<1>4. port # "drill" /\ port \in {"nobody", "drill", "foreign"}
  BY DEF ServerInv, Running, Standing, TypeOK
<1>5. Epochs(20) /\ Seen(20) /\ FirstWrite(20)
  BY DEF Facts
<1>6. Epochs(21)' /\ Seen(21)'
  BY <1>1, <1>2, <1>3, <1>4, <1>5 DEF Epochs, Seen, Standing
<1>7. FirstWrite(21)' /\ SecondWrite(21)'
  BY <1>2, <1>4, <1>5 DEF FirstWrite, SecondWrite
<1> QED
  BY <1>6, <1>7 DEF Facts

\* The proxy refused to start, so nobody answered; nor before.
LEMMA FactsOfStartup ==
  ASSUME TypeOK, EpochInv, Facts(21), Standing, Recorded(21), port = "nobody",
         written' = written, \A s \in {"drill", "foreign"} : Has(s)' => Has(s)
  PROVE  Facts(22)'
<1>1. witness'["safe_proxy_startup_fail_closed"].server = port
  BY PlacesAre DEF Recorded, GateNames
<1>2. \A g \in {"application_restart_exact_recovery", "redis_aof_restart_exact_recovery",
                "wrong_key_tamper_swap_corrupt", "read_outage_unhealthy"} :
        witness'[g] = witness[g]
  BY PlacesAre DEF Recorded, GateNames
<1>3. /\ \A k \in {6, 18} : Past(21, k) /\ Past(22, k)'
      /\ \A k \in {24, 30} : ~Past(22, k)'
  BY DEF Past, Standing
<1>5. Epochs(21) /\ Seen(21) /\ FirstWrite(21)
  BY DEF Facts
<1>6. Epochs(22)' /\ Seen(22)'
  BY <1>1, <1>2, <1>3, <1>5 DEF Epochs, Seen, Standing
<1>7. FirstWrite(22)' /\ SecondWrite(22)'
  BY <1>2, <1>5 DEF FirstWrite, SecondWrite
<1> QED
  BY <1>6, <1>7 DEF Facts

\* What is recovered after the outage is in a process that came up after it.
LEMMA FactsOfRecovery ==
  ASSUME TypeOK, EpochInv, Facts(23), Standing, Recorded(23), written' = written,
         port \in {"drill", "foreign"}, Has(port),
         \A s \in {"drill", "foreign"} : Has(s)' => Has(s)
  PROVE  Facts(24)'
<1>1. witness'["fresh_process_recovers_after_outage"]
        = [server |-> port, epoch |-> epoch, written |-> written]
  BY PlacesAre DEF Recorded, GateNames
<1>2. \A g \in {"application_restart_exact_recovery", "redis_aof_restart_exact_recovery",
                "wrong_key_tamper_swap_corrupt", "read_outage_unhealthy",
                "safe_proxy_startup_fail_closed"} : witness'[g] = witness[g]
  BY PlacesAre DEF Recorded, GateNames
<1>3. /\ \A k \in {6, 18} : Past(23, k) /\ Past(24, k)'
      /\ \A k \in {24, 30} : ~Past(24, k)'
  BY DEF Past, Standing
<1>4. port = "drill" /\ ~Has("foreign") /\ epoch \in Nat
  BY DEF Facts, FirstWrite, EpochInv
<1>5. Epochs(23) /\ Seen(23) /\ FirstWrite(23)
  BY DEF Facts
<1>6. Epochs(24)' /\ Seen(24)'
  BY <1>1, <1>2, <1>3, <1>4, <1>5 DEF Epochs, Seen, Standing
<1>7. FirstWrite(24)' /\ SecondWrite(24)'
  BY <1>2, <1>4, <1>5 DEF FirstWrite, SecondWrite
<1> QED
  BY <1>6, <1>7 DEF Facts

\* The names of the gates the properties speak of.
Told == {"application_restart_exact_recovery", "redis_aof_restart_exact_recovery",
         "wrong_key_tamper_swap_corrupt", "read_outage_unhealthy",
         "safe_proxy_startup_fail_closed", "fresh_process_recovers_after_outage"}

\* Without its AOF the drill's Redis has none of the first records.
LEMMA FactsOfClear ==
  ASSUME TypeOK, EpochInv, Facts(25), Standing, Recorded(25), written' = written,
         ~Has("drill")', Has("foreign")' => Has("foreign")
  PROVE  Facts(26)'
<1>1. \A g \in Told : witness'[g] = witness[g]
  BY PlacesAre DEF Recorded, GateNames, Told
<1>2. /\ \A k \in {6, 18, 24} : Past(25, k) /\ Past(26, k)'
      /\ ~Past(26, 30)'
  BY DEF Past, Standing
<1>3. Epochs(25) /\ Seen(25) /\ FirstWrite(25)
  BY DEF Facts
<1>4. Epochs(26)' /\ Seen(26)'
  BY <1>1, <1>2, <1>3 DEF Epochs, Seen, Standing, Told
<1>5. FirstWrite(26)' /\ SecondWrite(26)'
  BY <1>1, <1>3 DEF FirstWrite, SecondWrite, Told
<1> QED
  BY <1>4, <1>5 DEF Facts

\* The second write goes to whoever answers, later than the recovery.
LEMMA FactsOfRewrite ==
  ASSUME TypeOK, EpochInv, ForeignInv, Facts(28), Standing, Recorded(28), written' = epoch,
         port \in {"drill", "foreign"},
         \A s \in {"drill", "foreign"} : s # port => (Has(s)' => Has(s))
  PROVE  Facts(29)'
<1>1. \A g \in Told : witness'[g] = witness[g]
  BY PlacesAre DEF Recorded, GateNames, Told
<1>2. /\ \A k \in {6, 18, 24} : Past(28, k) /\ Past(29, k)'
      /\ ~Past(29, 30)'
  BY DEF Past, Standing
<1>3. Epochs(28) /\ Seen(28) /\ FirstWrite(28) /\ SecondWrite(28) /\ epoch \in Nat
  BY DEF Facts, EpochInv
<1>4. Epochs(29)' /\ Seen(29)'
  BY <1>1, <1>2, <1>3 DEF Epochs, Seen, Standing, Told
<1>5. ~Has("drill") /\ ~Has("foreign")
  BY <1>3 DEF FirstWrite, SecondWrite
<1>6. port = "drill" => epoch > witness["fresh_process_recovers_after_outage"].epoch
  BY <1>2, <1>3 DEF Epochs
<1>7. port = "foreign" => "foreign" \in trouble
  BY DEF ForeignInv
<1>8. FirstWrite(29)' /\ SecondWrite(29)'
  BY <1>1, <1>2, <1>5, <1>6, <1>7 DEF FirstWrite, SecondWrite, Standing, Told
<1> QED
  BY <1>4, <1>8 DEF Facts

\* It is read back from a later process.
LEMMA FactsOfReread ==
  ASSUME TypeOK, EpochInv, Facts(32), Standing, Recorded(32), written' = written,
         port \in {"drill", "foreign"}, Has(port)
  PROVE  Facts(33)'
<1>1. \A g \in Told : witness'[g] = witness[g]
  BY PlacesAre DEF Recorded, GateNames, Told
<1>2. \A k \in {6, 18, 24, 30} : Past(32, k) /\ Past(33, k)'
  BY DEF Past, Standing
<1>3. Epochs(32) /\ Seen(32) /\ SecondWrite(32)
  BY DEF Facts
<1>4. /\ port = "drill"
      /\ written > witness["fresh_process_recovers_after_outage"].epoch
  BY <1>2, <1>3 DEF SecondWrite
<1>5. epoch > written
  BY <1>2, <1>3, <1>4 DEF Epochs
<1>6. Epochs(33)' /\ Seen(33)'
  BY <1>1, <1>2, <1>3 DEF Epochs, Seen, Standing, Told
<1>7. FirstWrite(33)' /\ SecondWrite(33)'
  BY <1>1, <1>4, <1>5 DEF FirstWrite, SecondWrite, Standing, Told
<1> QED
  BY <1>6, <1>7 DEF Facts

\* The last gate of the clean volume notes both.
LEMMA FactsOfRepeat ==
  ASSUME TypeOK, EpochInv, Facts(33), Standing, Recorded(33), written' = written
  PROVE  Facts(34)'
<1>1. \A g \in Told : witness'[g] = witness[g]
  BY PlacesAre DEF Recorded, GateNames, Told
<1>2. witness'["clean_volume_repeat_run"]
        = [server |-> port, epoch |-> epoch, written |-> written]
  BY PlacesAre DEF Recorded, GateNames
<1>3. Epochs(33) /\ Seen(33) /\ SecondWrite(33)
  BY DEF Facts
<1>4. Epochs(34)' /\ Seen(34)'
  BY <1>1, <1>2, <1>3 DEF Epochs, Seen, SecondWrite, Standing, Told
<1>5. FirstWrite(34)' /\ SecondWrite(34)'
  BY <1>1, <1>3 DEF FirstWrite, SecondWrite, Standing, Told
<1> QED
  BY <1>4, <1>5 DEF Facts

-----------------------------------------------------------------------------
(* What each phase does *)

\* A phase of run() that ends takes the coordinator from p to p + 1.
Moves(p, result) ==
  /\ exit = "running" /\ within = "call" /\ within' = "call"
  /\ todo # << >> /\ todo' = Tail(todo)
  /\ Conclude(result)
  /\ port' = port /\ child' = child /\ epoch' = epoch

\* It keeps what is known, if its own facts do.
LEMMA PhaseOn ==
  ASSUME TypeOK, WitnessInv, NEW p \in 3..34, p \notin {6, 7, 18, 22, 24, 26, 30, 31},
         OnInv(p), NEW result \in BOOLEAN, Moves(p, result),
         Sound /\ result /\ Recorded(p) /\ Facts(p) => Facts(p + 1)'
  PROVE  OnInv(p + 1)' /\ WitnessInv'
<1>1. Head(todo) = Script[p] /\ OnScript(p + 1)'
  BY NextOnScript DEF OnInv, Moves
<1>2. /\ GatesInv(p + 1)' /\ WitnessInv' /\ Recorded(p)
      /\ Sound' => Sound /\ result
  BY <1>1, Recording DEF OnInv, Moves
<1>3. ServerInv(p + 1)'
  BY DEF OnInv, ServerInv, Running, Moves
<1> QED
  BY <1>1, <1>2, <1>3 DEF OnInv

\* A phase that changes nothing of what the properties speak of.
LEMMA QuietOn ==
  ASSUME TypeOK, EpochInv, WitnessInv, NEW p \in 3..34,
         p \notin {4, 5, 6, 7, 8, 14, 18, 20, 21, 22, 23, 24, 25, 26, 28, 30, 31, 32, 33},
         OnInv(p), NEW result \in BOOLEAN, Moves(p, result),
         written' = written, trouble \subseteq trouble',
         \A s \in {"drill", "foreign"} : Has(s)' => Has(s)
  PROVE  OnInv(p + 1)' /\ WitnessInv'
<1>1. ASSUME Recorded(p), Facts(p) PROVE Facts(p + 1)'
  <2>1. \A k \in {6, 18, 24, 30} : Past(p + 1, k)' <=> Past(p, k)
    BY DEF Past, Moves
  <2>2. \A g \in GateNames : Place(g) # p => witness'[g] = witness[g]
    BY <1>1 DEF Recorded
  <2>3. port' \in {port, "nobody"} /\ epoch' = epoch
    BY DEF Moves
  <2>4. p \in 1..43 /\ p \notin {4, 5, 8, 14, 20, 21, 23, 25, 28, 32, 33}
    OBVIOUS
  <2> QED
    BY <1>1, <2>1, <2>2, <2>3, <2>4, QuietFacts
<1>2. p \notin {6, 7, 18, 22, 24, 26, 30, 31}
  OBVIOUS
<1> QED
  BY <1>1, <1>2, PhaseOn

\* What the phases find and leave in Redis.
LEMMA DbType ==
  ASSUME TypeOK
  PROVE  /\ {"one", "wrong", "ttl"} \subseteq Items /\ "one" \in VerifyItems /\ "wrong" \in Controls
         /\ DOMAIN db = {"drill", "foreign"}
         /\ \A s \in {"drill", "foreign"} : DOMAIN db[s] = Items
         /\ port \in {"nobody", "drill", "foreign"} /\ refs \in BOOLEAN /\ sofar \in BOOLEAN
  BY DEF TypeOK, Items, VerifyItems, Controls

\* Each phase is at its places.
LEMMA DoingAt ==
  ASSUME NEW p \in 1..44, OnScript(p), NEW op, Doing(op)
  PROVE  p \in 1..43 /\ todo # << >> /\ Head(todo) = Script[p] /\ Script[p].op = op
         /\ exit = "running" /\ within = "call"
  BY NextOnScript DEF Doing

\* What every phase that only looks does.
LEMMA Looking ==
  ASSUME NEW p \in 1..44, OnInv(p), NEW op, NEW result, Phase(op, result)
  PROVE  /\ Moves(p, result) /\ Standing /\ written' = written /\ trouble' = trouble
         /\ \A s \in {"drill", "foreign"} : Has(s)' => Has(s)
         /\ p \in 1..43 /\ Script[p].op = op
<1>1. Doing(op) /\ OnScript(p)
  BY DEF Phase, Working, OnInv
<1> QED
  BY <1>1, DoingAt DEF Phase, Working, Advance, Moves, Standing, Has

\* Such are the check for the clean volume, the scans for isolation, the wait
\* for the outage worker and the last gate.
LEMMA CleanOn ==
  ASSUME TypeOK, EpochInv, WitnessInv, NEW p \in 1..44, OnInv(p),
         NEW op \in {"clean", "isolation", "cost", "await"}, NEW result \in BOOLEAN,
         Phase(op, result)
  PROVE  OnInv(p + 1)' /\ WitnessInv'
<1>1. /\ Moves(p, result) /\ written' = written /\ trouble' = trouble
      /\ \A s \in {"drill", "foreign"} : Has(s)' => Has(s)
      /\ p \in 1..43 /\ Script[p].op = op
  BY Looking
<1>2. p \in {9, 17, 27, 34}
  BY <1>1, Positions
<1>3. p \in 3..34 /\ trouble \subseteq trouble'
      /\ p \notin {4, 5, 6, 7, 8, 14, 18, 20, 21, 22, 23, 24, 25, 26, 28, 30, 31, 32, 33}
  BY <1>1, <1>2
<1> QED
  BY <1>1, <1>3, QuietOn

\* The scan of the ciphertexts, before the outage and on the clean volume.
LEMMA PrivacyOn ==
  ASSUME TypeOK, EpochInv, WitnessInv, NEW p \in 1..44, OnInv(p), Privacy
  PROVE  OnInv(p + 1)' /\ WitnessInv'
<1> DEFINE result == Up
<1>1. Phase("privacy", result) /\ result \in BOOLEAN
  BY DEF Privacy, Up
<1> HIDE DEF result
<1>2. /\ Moves(p, result) /\ Standing /\ written' = written /\ trouble' = trouble
      /\ \A s \in {"drill", "foreign"} : Has(s)' => Has(s)
      /\ p \in 1..43 /\ Script[p].op = "privacy"
  BY <1>1, Looking
<1>3. p \in {15, 33}
  BY <1>2, Positions
<1>4. CASE p = 15
  <2>1. p \in 3..34 /\ trouble \subseteq trouble'
        /\ p \notin {4, 5, 6, 7, 8, 14, 18, 20, 21, 22, 23, 24, 25, 26, 28, 30, 31, 32, 33}
    BY <1>2, <1>4
  <2> QED
    BY <1>1, <1>2, <2>1, QuietOn
<1>5. CASE p = 33
  <2>1. p \in 3..34 /\ p \notin {6, 7, 18, 22, 24, 26, 30, 31} /\ p + 1 = 34
    BY <1>5
  <2>2. Recorded(p) /\ Facts(p) => Facts(p + 1)'
    BY <1>2, <1>5, <2>1, FactsOfRepeat
  <2> QED
    BY <1>1, <1>2, <2>1, <2>2, PhaseOn
<1> QED
  BY <1>3, <1>4, <1>5

\* The outage worker's answer.
LEMMA CollectOn ==
  ASSUME TypeOK, EpochInv, WitnessInv, NEW p \in 1..44, OnInv(p), Collect
  PROVE  OnInv(p + 1)' /\ WitnessInv'
<1> DEFINE result == outage = "unhealthy"
<1>1. Phase("collect", result) /\ result \in BOOLEAN
  BY DEF Collect
<1> HIDE DEF result
<1>2. /\ Moves(p, result) /\ Standing /\ written' = written /\ trouble' = trouble
      /\ \A s \in {"drill", "foreign"} : Has(s)' => Has(s)
      /\ p \in 1..43 /\ Script[p].op = "collect"
  BY <1>1, Looking
<1>3. p = 20
  BY <1>2, Positions
<1>4. p \in 3..34 /\ p \notin {6, 7, 18, 22, 24, 26, 30, 31} /\ p + 1 = 21
  BY <1>3
<1>5. ServerInv(20)
  BY <1>3 DEF OnInv
<1>6. Recorded(p) /\ Facts(p) => Facts(p + 1)'
  BY <1>2, <1>3, <1>4, <1>5, FactsOfOutage
<1> QED
  BY <1>1, <1>2, <1>4, <1>6, PhaseOn

\* The proxy that must not start.
LEMMA StartupOn ==
  ASSUME TypeOK, EpochInv, WitnessInv, NEW p \in 1..44, OnInv(p), Startup
  PROVE  OnInv(p + 1)' /\ WitnessInv'
<1> DEFINE result == ~Up
<1>1. Phase("startup", result) /\ result \in BOOLEAN /\ (result => port = "nobody")
  BY DEF Startup, Up
<1> HIDE DEF result
<1>2. /\ Moves(p, result) /\ Standing /\ written' = written /\ trouble' = trouble
      /\ \A s \in {"drill", "foreign"} : Has(s)' => Has(s)
      /\ p \in 1..43 /\ Script[p].op = "startup"
  BY <1>1, Looking
<1>3. p = 21
  BY <1>2, Positions
<1>4. p \in 3..34 /\ p \notin {6, 7, 18, 22, 24, 26, 30, 31} /\ p + 1 = 22
  BY <1>3
<1>6. result /\ Recorded(p) /\ Facts(p) => Facts(p + 1)'
  BY <1>1, <1>2, <1>3, <1>4, FactsOfStartup
<1> QED
  BY <1>1, <1>2, <1>4, <1>6, PhaseOn

\* What every phase does, whatever it leaves in Redis.
LEMMA WorkingAt ==
  ASSUME NEW p \in 1..44, OnInv(p), NEW op, NEW result, NEW contents,
         Working(op, result, contents)
  PROVE  /\ Moves(p, result) /\ Standing /\ trouble' = trouble /\ db' = contents
         /\ p \in 1..43 /\ Script[p].op = op
<1>1. Doing(op) /\ OnScript(p)
  BY DEF Working, OnInv
<1> QED
  BY <1>1, DoingAt DEF Working, Advance, Moves, Standing

\* Reading back what was written: whoever holds it all got a write.
LEMMA VerifyOn ==
  ASSUME TypeOK, EpochInv, WitnessInv, ForeignInv, NEW p \in 1..44, OnInv(p), Verify
  PROVE  OnInv(p + 1)' /\ WitnessInv'
<1> DEFINE result == Up /\ refs /\ \A i \in VerifyItems : db[port][i] = "intact"
<1>1. Phase("verify", result) /\ result \in BOOLEAN
  BY DEF Verify
<1>2. result => port \in {"drill", "foreign"} /\ Has(port)
  BY DbType DEF Up, Has
<1> HIDE DEF result
<1>3. /\ Moves(p, result) /\ Standing /\ written' = written /\ trouble' = trouble
      /\ \A s \in {"drill", "foreign"} : Has(s)' => Has(s)
      /\ p \in 1..43 /\ Script[p].op = "verify"
  BY <1>1, Looking
<1>4. p \in {5, 8, 23, 29, 32}
  BY <1>3, Positions
<1>5. CASE p = 29
  <2>1. p \in 3..34 /\ trouble \subseteq trouble'
        /\ p \notin {4, 5, 6, 7, 8, 14, 18, 20, 21, 22, 23, 24, 25, 26, 28, 30, 31, 32, 33}
    BY <1>3, <1>5
  <2> QED
    BY <1>1, <1>3, <2>1, QuietOn
<1>6. CASE p # 29
  <2>1. p \in 3..34 /\ p \notin {6, 7, 18, 22, 24, 26, 30, 31} /\ p \in {5, 8, 23, 32}
    BY <1>4, <1>6
  <2>2. ASSUME result, Recorded(p), Facts(p) PROVE Facts(p + 1)'
    <3>1. CASE p = 5
      <4>1. p + 1 = 6
        BY <3>1
      <4> QED
        BY <1>2, <1>3, <2>2, <3>1, <4>1, FactsOfVerify
    <3>2. CASE p = 8
      <4>1. p + 1 = 9
        BY <3>2
      <4> QED
        BY <1>2, <1>3, <2>2, <3>2, <4>1, FactsOfRestart
    <3>3. CASE p = 23
      <4>1. p + 1 = 24
        BY <3>3
      <4> QED
        BY <1>2, <1>3, <2>2, <3>3, <4>1, FactsOfRecovery
    <3>4. CASE p = 32
      <4>1. p + 1 = 33
        BY <3>4
      <4> QED
        BY <1>2, <1>3, <2>2, <3>4, <4>1, FactsOfReread
    <3> QED
      BY <2>1, <3>1, <3>2, <3>3, <3>4
  <2>3. p \in 3..34 /\ p \notin {6, 7, 18, 22, 24, 26, 30, 31}
    BY <2>1
  <2> QED
    BY <1>1, <1>3, <2>2, <2>3, PhaseOn
<1> QED
  BY <1>5, <1>6

\* Writing to whoever answers.
LEMMA WriteOn ==
  ASSUME TypeOK, EpochInv, WitnessInv, ForeignInv, NEW p \in 1..44, OnInv(p), Write
  PROVE  OnInv(p + 1)' /\ WitnessInv'
<1> DEFINE result == Up
           contents == IF Up THEN [db EXCEPT ![port] =
                                     [i \in Items |-> IF i = "ttl" THEN @[i] ELSE "intact"]]
                             ELSE db
<1>1. Working("write", result, contents) /\ result \in BOOLEAN
  BY DEF Write, Up
<1>2. result => port \in {"drill", "foreign"} /\ port # "nobody" /\ written' = epoch
  BY DbType DEF Up, Write
<1>3. \A s \in {"drill", "foreign"} : s # port => contents[s] = db[s]
  BY DbType
<1> HIDE DEF result, contents
<1>4. /\ Moves(p, result) /\ Standing /\ trouble' = trouble /\ db' = contents
      /\ p \in 1..43 /\ Script[p].op = "write"
  BY <1>1, WorkingAt
<1>5. \A s \in {"drill", "foreign"} : s # port => (Has(s)' => Has(s))
  BY <1>3, <1>4 DEF Has
<1>6. p \in {4, 28}
  BY <1>4, Positions
<1>7. p \in 3..34 /\ p \notin {6, 7, 18, 22, 24, 26, 30, 31}
  BY <1>6
<1>8. ASSUME result, Recorded(p), Facts(p) PROVE Facts(p + 1)'
  <2>1. CASE p = 4
    <3>1. p + 1 = 5
      BY <2>1
    <3> QED
      BY <1>2, <1>4, <1>5, <1>8, <2>1, <3>1, FactsOfWrite
  <2>2. CASE p = 28
    <3>1. p + 1 = 29
      BY <2>2
    <3> QED
      BY <1>2, <1>4, <1>5, <1>8, <2>2, <3>1, FactsOfRewrite
  <2> QED
    BY <1>6, <2>1, <2>2
<1> QED
  BY <1>1, <1>4, <1>7, <1>8, PhaseOn

\* Tampering with the controls.
LEMMA NegativeOn ==
  ASSUME TypeOK, EpochInv, WitnessInv, NEW p \in 1..44, OnInv(p), Negative
  PROVE  OnInv(p + 1)' /\ WitnessInv'
<1> DEFINE result == Up /\ refs /\ \A i \in Controls : db[port][i] = "intact"
           Spoilt(held) == [i \in Items |-> IF i \in Tampered THEN "damaged" ELSE held[i]]
           contents == IF result THEN [db EXCEPT ![port] = Spoilt(@)] ELSE db
<1>1. Working("negative", result, contents) /\ result \in BOOLEAN /\ written' = written
  BY DEF Negative
<1>2. result => port \in {"drill", "foreign"} /\ Has(port)
  BY DbType DEF Up, Has
<1>3. \A s \in {"drill", "foreign"} : \A i \in {"one", "wrong"} : contents[s][i] = db[s][i]
  BY <1>2, DbType DEF Tampered
<1> HIDE DEF result, contents
<1>4. /\ Moves(p, result) /\ Standing /\ trouble' = trouble /\ db' = contents
      /\ p \in 1..43 /\ Script[p].op = "negative"
  BY <1>1, WorkingAt
<1>5. \A s \in {"drill", "foreign"} : Has(s)' => Has(s)
  BY <1>3, <1>4 DEF Has
<1>6. p = 14
  BY <1>4, Positions
<1>7. p \in 3..34 /\ p \notin {6, 7, 18, 22, 24, 26, 30, 31} /\ p + 1 = 15
  BY <1>6
<1>8. result /\ Recorded(p) /\ Facts(p) => Facts(p + 1)'
  BY <1>1, <1>2, <1>4, <1>5, <1>6, <1>7, FactsOfNegative
<1> QED
  BY <1>1, <1>4, <1>7, <1>8, PhaseOn

\* Removing the data of the drill's own Redis.
LEMMA ClearOn ==
  ASSUME TypeOK, EpochInv, WitnessInv, NEW p \in 1..44, OnInv(p), Clear
  PROVE  OnInv(p + 1)' /\ WitnessInv'
<1> DEFINE contents == [db EXCEPT !["drill"] = Blank]
<1>1. Working("clear", TRUE, contents) /\ written' = written
  BY DEF Clear
<1>2. contents["drill"] = Blank /\ contents["foreign"] = db["foreign"]
  BY DbType
<1> HIDE DEF contents
<1>3. /\ Moves(p, TRUE) /\ Standing /\ trouble' = trouble /\ db' = contents
      /\ p \in 1..43 /\ Script[p].op = "clear"
  BY <1>1, WorkingAt
<1>4. Has("foreign")' => Has("foreign")
  BY <1>2, <1>3 DEF Has
<1>5. ~Has("drill")'
  BY <1>2, <1>3, DbType DEF Has, Blank
<1>6. p = 25
  BY <1>3, Positions
<1>7. p \in 3..34 /\ p \notin {6, 7, 18, 22, 24, 26, 30, 31} /\ p + 1 = 26
  BY <1>6
<1>8. Recorded(p) /\ Facts(p) => Facts(p + 1)'
  BY <1>1, <1>3, <1>4, <1>5, <1>6, <1>7, FactsOfClear
<1> QED
  BY <1>3, <1>7, <1>8, PhaseOn

\* Writing the record that expires.
LEMMA TtlWriteOn ==
  ASSUME TypeOK, EpochInv, WitnessInv, NEW p \in 1..44, OnInv(p), TtlWrite
  PROVE  OnInv(p + 1)' /\ WitnessInv'
<1> DEFINE contents == IF Up THEN [db EXCEPT ![port]["ttl"] = "intact"] ELSE db
<1>1. Working("ttl_write", TRUE, contents) /\ written' = written
  BY DEF TtlWrite
<1>2. \A s \in {"drill", "foreign"} : \A i \in {"one", "wrong"} : contents[s][i] = db[s][i]
  BY DbType DEF Up
<1> HIDE DEF contents
<1>3. /\ Moves(p, TRUE) /\ Standing /\ trouble' = trouble /\ db' = contents
      /\ p \in 1..43 /\ Script[p].op = "ttl_write"
  BY <1>1, WorkingAt
<1>4. \A s \in {"drill", "foreign"} : Has(s)' => Has(s)
  BY <1>2, <1>3 DEF Has
<1>5. p = 10
  BY <1>3, Positions
<1>6. p \in 3..34 /\ trouble \subseteq trouble'
      /\ p \notin {4, 5, 6, 7, 8, 14, 18, 20, 21, 22, 23, 24, 25, 26, 28, 30, 31, 32, 33}
  BY <1>3, <1>5
<1> QED
  BY <1>1, <1>3, <1>4, <1>6, QuietOn

\* Waiting for it to expire.
LEMMA PollOn ==
  ASSUME TypeOK, EpochInv, WitnessInv, NEW p \in 1..44, OnInv(p),
         NEW op \in DOMAIN Awaited, Poll(op)
  PROVE  OnInv(p + 1)' /\ WitnessInv'
<1> DEFINE status == IF Up THEN db[port]["ttl"] ELSE "down"
           result == status \in Awaited[op] \ {"lapsed"}
<1>1. /\ Doing(op) /\ Conclude(result) /\ result \in BOOLEAN
      /\ trouble \subseteq trouble' /\ Advance
      /\ UNCHANGED <<within, output, code, servers, worker, epoch, written>>
  BY DEF Poll
<1> HIDE DEF result
<1>2. OnScript(p) /\ op \in {"poll_found", "poll_expired", "poll_missing"}
  BY DEF OnInv, Awaited
<1>3. /\ Moves(p, result) /\ written' = written
      /\ \A s \in {"drill", "foreign"} : Has(s)' => Has(s)
      /\ p \in 1..43 /\ Script[p].op = op
  BY <1>1, <1>2, DoingAt DEF Moves, Has, Advance, servers
<1>4. p \in {11, 12, 13}
  BY <1>2, <1>3, Positions
<1>5. p \in 3..34
      /\ p \notin {4, 5, 6, 7, 8, 14, 18, 20, 21, 22, 23, 24, 25, 26, 28, 30, 31, 32, 33}
  BY <1>4
<1> QED
  BY <1>1, <1>3, <1>5, QuietOn

\* The preflight finds an empty Redis.
LEMMA ReadyOn ==
  ASSUME TypeOK, EpochInv, WitnessInv, NEW p \in 1..44, OnInv(p), Preflight,
         db[port] = Blank
  PROVE  OnInv(p + 1)' /\ WitnessInv'
<1>1. /\ Doing("preflight") /\ Conclude(TRUE) /\ Advance
      /\ UNCHANGED <<within, output, code, world>>
  BY Zenon DEF Preflight
<1>2. OnScript(p)
  BY DEF OnInv
<1>3. /\ Moves(p, TRUE) /\ written' = written /\ trouble \subseteq trouble'
      /\ \A s \in {"drill", "foreign"} : Has(s)' => Has(s)
      /\ p \in 1..43 /\ Script[p].op = "preflight"
  BY <1>1, <1>2, DoingAt DEF Moves, Has, Advance, servers, world, around
<1>4. p = 3
  BY <1>3, Positions
<1>5. p \in 3..34
      /\ p \notin {4, 5, 6, 7, 8, 14, 18, 20, 21, 22, 23, 24, 25, 26, 28, 30, 31, 32, 33}
  BY <1>4
<1> QED
  BY <1>3, <1>5, QuietOn

-----------------------------------------------------------------------------
(* Between the phases *)

\* The steps of run_drill that record no gate, and are no phase.
Silent == {1, 2, 6, 7, 16, 18, 19, 22, 24, 26, 30, 31, 35, 36, 37, 38, 39, 40, 41, 42, 43}

\* Such a step leaves the gates as they are.
LEMMA SilentGates ==
  ASSUME NEW p \in 1..43, p \in Silent, GatesInv(p), UNCHANGED gating
  PROVE  GatesInv(p + 1)' /\ (Sound' <=> Sound)
<1>1. sofar' = sofar /\ gates' = gates
  BY DEF gating
<1>2. \A g \in GateNames : Place(g) \in {3, 4, 5, 8, 9, 13, 14, 15, 20, 21, 23, 33, 34}
  BY DEF Place, GateNames
<1>3. \A g \in PhaseGates : Place(g) < p + 1 <=> Place(g) < p
  BY <1>2, PhaseGatesIs DEF Silent
<1>4. p + 1 > 34 => p > 34
  BY DEF Silent
<1> QED
  BY <1>1, <1>3, <1>4 DEF GatesInv, Sound

\* Such a step takes the coordinator from p to p + 1.
LEMMA SilentOn ==
  ASSUME TypeOK, EpochInv, WitnessInv, NEW p \in 1..43, p \in Silent, OnInv(p),
         todo # << >>, todo' = Tail(todo),
         UNCHANGED <<gating, epoch, written, trouble>>,
         port' \in {port, "nobody"},
         \A s \in {"drill", "foreign"} : Has(s)' => Has(s),
         \A k \in {6, 18, 24, 30} : Past(p + 1, k)' <=> Past(p, k),
         ServerInv(p + 1)'
  PROVE  OnInv(p + 1)' /\ WitnessInv'
<1>0. p \in 1..44 /\ OnScript(p) /\ GatesInv(p)
  BY DEF OnInv
<1>1. OnScript(p + 1)'
  BY <1>0, NextOnScript
<1>2. sofar' = sofar /\ gates' = gates /\ witness' = witness
  BY DEF gating
<1>6. GatesInv(p + 1)' /\ (Sound' => Sound)
  BY <1>0, SilentGates
<1>8. ASSUME Facts(p) PROVE Facts(p + 1)'
  <2>1. p \notin {4, 5, 8, 14, 20, 21, 23, 25, 28, 32, 33}
    BY DEF Silent
  <2>2. epoch' = epoch /\ written' = written /\ trouble \subseteq trouble'
        /\ \A g \in GateNames : Place(g) # p => witness'[g] = witness[g]
    BY <1>2
  <2> QED
    BY <1>8, <2>1, <2>2, QuietFacts
<1>9. WitnessInv'
  BY <1>2 DEF WitnessInv
<1> QED
  BY <1>1, <1>6, <1>8, <1>9 DEF OnInv

\* It does so while no stop of Redis is under way.
LEMMA PlainOn ==
  ASSUME TypeOK, EpochInv, WitnessInv, NEW p \in 1..43, p \in Silent, OnInv(p),
         p \notin {6, 18, 24, 30}, within # "wait", within' = "call",
         todo # << >>, todo' = Tail(todo),
         UNCHANGED <<gating, epoch, written, trouble, port>>,
         \A s \in {"drill", "foreign"} : Has(s)' => Has(s),
         ServerInv(p + 1)'
  PROVE  OnInv(p + 1)' /\ WitnessInv'
<1>1. \A k \in {6, 18, 24, 30} : Past(p + 1, k)' <=> Past(p, k)
  BY DEF Past
<1>2. port' \in {port, "nobody"} /\ UNCHANGED <<gating, epoch, written, trouble>>
  OBVIOUS
<1> QED
  BY <1>1, <1>2, SilentOn

\* The steps that do nothing to Redis.
LEMMA ApartOn ==
  ASSUME TypeOK, EpochInv, WitnessInv, NEW p \in 1..44, OnInv(p),
         Construct \/ SpawnOutage \/ Proceed \/ WriteFile \/ WriteSums \/ Remove
  PROVE  OnInv(p + 1)' /\ WitnessInv'
<1> DEFINE ops == {"construct", "spawn", "proceed", "file", "sums", "remove"}
<1>1. \E op \in ops : Doing(op)
  BY DEF Construct, SpawnOutage, Proceed, WriteFile, WriteSums, Remove
<1>2. PICK op \in ops : Doing(op)
  BY <1>1
<1>3. p \in 1..43 /\ todo # << >> /\ Script[p].op = op /\ within = "call"
  BY <1>2, DoingAt DEF OnInv
<1>4. p \in {1, 16, 19, 36, 37, 38, 39, 40, 41, 43}
  <2>1. Script[p].op \in ops
    BY <1>2, <1>3
  <2>2. p \in 1..43
    BY <1>3
  <2> QED
    BY <2>1, <2>2, Positions
<1>5. p \in Silent /\ p \notin {6, 18, 24, 30}
  BY <1>4 DEF Silent
<1>6. \A s \in {"drill", "foreign"} : Has(s)' => Has(s)
  <2>1. CASE Remove
    <3>1. db' = [db EXCEPT !["drill"] = Blank]
      BY <2>1 DEF Remove
    <3> QED
      BY <3>1, DbType DEF Has, Blank
  <2>2. CASE Construct \/ SpawnOutage \/ Proceed \/ WriteFile \/ WriteSums
    <3>1. db' = db
      BY <2>2 DEF Construct, SpawnOutage, Proceed, WriteFile, WriteSums, world, servers
    <3> QED
      BY <3>1 DEF Has
  <2> QED
    BY <2>1, <2>2
<1>7. /\ todo' = Tail(todo) /\ within' = within /\ child' = child
      /\ UNCHANGED <<gating, epoch, written, trouble, port>>
  BY DEF Construct, SpawnOutage, Proceed, WriteFile, WriteSums, Remove, Advance, world,
         servers, around
<1>8. ServerInv(p + 1)'
  <2>1. Running(p + 1) <=> Running(p)
    BY <1>4 DEF Running
  <2>2. ServerInv(p)
    BY DEF OnInv
  <2> QED
    BY <1>3, <1>7, <2>1, <2>2 DEF ServerInv
<1> QED
  BY <1>3, <1>5, <1>6, <1>7, <1>8, PlainOn

\* Redis answers, or has been waited for.
LEMMA AnsweredOn ==
  ASSUME TypeOK, EpochInv, ScriptInv, WitnessInv, NEW p \in 1..44, OnInv(p), Answered
  PROVE  OnInv(p + 1)' /\ WitnessInv'
<1>1. /\ todo # << >> /\ Head(todo).op = "start" /\ within = "ping"
      /\ within' = "call" /\ todo' = Tail(todo) /\ UNCHANGED <<gating, world>>
      /\ child # "dead" /\ port # "nobody"
  BY DEF Answered, ScriptInv, Advance, Up
<1>2. p \in 1..43 /\ Head(todo) = Script[p]
  BY <1>1, NextOnScript DEF OnInv
<1>3. p \in {2, 7, 22, 26, 31}
  BY <1>1, <1>2, Positions
<1>4. p \in Silent /\ p \notin {6, 18, 24, 30} /\ Running(p + 1)
  BY <1>3 DEF Silent, Running
<1>5. /\ \A s \in {"drill", "foreign"} : Has(s)' => Has(s)
      /\ UNCHANGED <<gating, epoch, written, trouble, port, child>>
  BY <1>1 DEF world, servers, around, Has
<1>6. child # "none"
  BY <1>1 DEF OnInv, ServerInv
<1>7. ServerInv(p + 1)'
  BY <1>1, <1>4, <1>5, <1>6 DEF ServerInv
<1> QED
  BY <1>1, <1>2, <1>4, <1>5, <1>7, PlainOn

\* Redis has exited.
LEMMA ReapOn ==
  ASSUME TypeOK, EpochInv, ScriptInv, WitnessInv, NEW p \in 1..44, OnInv(p), Reap
  PROVE  OnInv(p + 1)' /\ WitnessInv'
<1>1. /\ todo # << >> /\ Head(todo).op = "stop" /\ within = "wait"
      /\ within' = "call" /\ todo' = Tail(todo) /\ UNCHANGED <<gating, db, around>>
      /\ child' = "none" /\ port' = (IF port = "drill" THEN "nobody" ELSE port)
  BY DEF Reap, ScriptInv, Advance
<1>2. p \in 1..43 /\ Script[p].op = "stop"
  BY <1>1, NextOnScript DEF OnInv
<1>3. p \in {6, 18, 24, 30, 35, 42}
  BY <1>2, Positions
<1>4. p \in Silent /\ ~Running(p + 1)
  BY <1>3 DEF Silent, Running
<1>5. \A k \in {6, 18, 24, 30} : Past(p + 1, k)' <=> Past(p, k)
  BY <1>1, <1>3 DEF Past
<1>6. /\ \A s \in {"drill", "foreign"} : Has(s)' => Has(s)
      /\ UNCHANGED <<gating, epoch, written, trouble>> /\ port' \in {port, "nobody"}
  BY <1>1 DEF around, Has
<1>7. ServerInv(p + 1)'
  BY <1>1, <1>4 DEF ServerInv
<1> QED
  BY <1>1, <1>2, <1>4, <1>5, <1>6, <1>7, SilentOn

\* A coordinator that stays where it is, and at most takes Redis down, still
\* knows what it knew.
LEMMA StayOn ==
  ASSUME TypeOK, EpochInv, WitnessInv, NEW p \in 1..43, p # 21, OnInv(p), todo' = todo,
         UNCHANGED <<gating, db, epoch, written, trouble>>,
         port' \in {port, "nobody"},
         \A k \in {6, 18, 24, 30} :
           (Past(p, k) => Past(p, k)') /\ (Past(p, k)' => Past(p, k) \/ port' = "nobody"),
         ServerInv(p)'
  PROVE  OnInv(p)' /\ WitnessInv'
<1>0. p \in 1..44 /\ OnScript(p)
  BY DEF OnInv
<1>1. OnScript(p)'
  BY <1>0, NextOnScript
<1>2. /\ sofar' = sofar /\ gates' = gates /\ witness' = witness
      /\ \A s \in {"drill", "foreign"} : Has(s)' <=> Has(s)
  BY DEF gating, Has
<1>3. GatesInv(p)' /\ (Sound' <=> Sound) /\ WitnessInv'
  BY <1>2 DEF GatesInv, OnInv, Sound, WitnessInv
<1>4. ASSUME Facts(p) PROVE Facts(p)'
  <2>1. FirstWrite(p) /\ SecondWrite(p) /\ Epochs(p) /\ Seen(p)
    BY <1>4 DEF Facts
  <2>2. FirstWrite(p)'
    BY <1>2, <2>1 DEF FirstWrite
  <2>3. SecondWrite(p)'
    BY <1>2, <2>1 DEF SecondWrite
  <2>4. Epochs(p)'
    BY <1>2, <2>1 DEF Epochs
  <2>5. Seen(p)'
    BY <1>2, <2>1 DEF Seen
  <2> QED
    BY <2>2, <2>3, <2>4, <2>5 DEF Facts
<1> QED
  BY <1>1, <1>3, <1>4 DEF OnInv

\* Redis is started.
LEMMA SpawnOn ==
  ASSUME TypeOK, EpochInv, WitnessInv, NEW p \in 1..44, OnInv(p), Spawn
  PROVE  OnInv(p)' /\ WitnessInv'
<1>1. /\ Doing("start") /\ child' = "alive" /\ within' = "ping" /\ todo' = todo
      /\ UNCHANGED <<gating, db, epoch, written, trouble, port>>
  BY DEF Spawn, around
<1>2. p \in 1..43 /\ Script[p].op = "start" /\ within = "call"
  BY <1>1, DoingAt DEF OnInv
<1>3. p \in {2, 7, 22, 26, 31}
  BY <1>2, Positions
<1>4. \A k \in {6, 18, 24, 30} : Past(p, k)' <=> Past(p, k)
  BY <1>1, <1>2 DEF Past
<1>5. ServerInv(p)'
  BY <1>1 DEF ServerInv
<1>6. p # 21 /\ port' \in {port, "nobody"} /\ UNCHANGED <<gating, db, epoch, written, trouble>>
  BY <1>1, <1>3
<1> QED
  BY <1>1, <1>2, <1>4, <1>5, <1>6, StayOn

\* Redis is told to shut down, or there is none.
LEMMA ShutdownOn ==
  ASSUME TypeOK, EpochInv, WitnessInv, NEW p \in 1..44, OnInv(p), Shutdown
  PROVE  (OnInv(p)' \/ OnInv(p + 1)') /\ WitnessInv'
<1>1. Doing("stop") /\ UNCHANGED <<gating, db, epoch, written, trouble>>
  BY DEF Shutdown, around
<1>2. p \in 1..43 /\ todo # << >> /\ Script[p].op = "stop" /\ within = "call"
  BY <1>1, DoingAt DEF OnInv
<1>3. p \in {6, 18, 24, 30, 35, 42}
  BY <1>2, Positions
<1>4. CASE child = "none"
  <2>1. todo' = Tail(todo) /\ UNCHANGED <<within, port, child>>
    BY <1>4 DEF Shutdown, Advance
  <2>2. ServerInv(p)
    BY DEF OnInv
  <2>3. p = 42
    BY <1>2, <1>3, <1>4, <2>2 DEF ServerInv, Running
  <2>4. ServerInv(p + 1)'
    BY <1>2, <2>1, <2>2, <2>3 DEF ServerInv, Running
  <2>5. p \in Silent /\ p \notin {6, 18, 24, 30}
    BY <2>3 DEF Silent
  <2>6. \A s \in {"drill", "foreign"} : Has(s)' => Has(s)
    BY <1>1 DEF Has
  <2> QED
    BY <1>1, <1>2, <2>1, <2>4, <2>5, <2>6, PlainOn
<1>5. CASE child # "none"
  <2>1. /\ within' = "wait" /\ port' = "nobody" /\ todo' = todo
        /\ child' = (IF port = "drill" THEN "dead" ELSE child)
    BY <1>5 DEF Shutdown
  <2>2. ServerInv(p)'
    BY <1>5, <2>1 DEF ServerInv
  <2>3. \A k \in {6, 18, 24, 30} :
           (Past(p, k) => Past(p, k)') /\ (Past(p, k)' => Past(p, k) \/ port' = "nobody")
    BY <1>2, <2>1 DEF Past
  <2>4. p # 21 /\ port' \in {port, "nobody"}
    BY <1>3, <2>1
  <2> QED
    BY <1>1, <1>2, <2>1, <2>2, <2>3, <2>4, StayOn
<1> QED
  BY <1>4, <1>5

-----------------------------------------------------------------------------
(* Leaving run() *)

\* Both parts of a script that ends are such.
LEMMA ConcatEnding ==
  ASSUME NEW S, NEW s \in Seq(S), NEW t \in Seq(S)
  PROVE  /\ Ending(s) /\ Ending(t) => Ending(s \o t)
         /\ Warned(s) /\ Warned(t) => Warned(s \o t)
<1> DEFINE m == Len(s)
           n == Len(t)
           u == s \o t
<1>1. /\ m \in Nat /\ n \in Nat
      /\ DOMAIN s = 1..m /\ DOMAIN t = 1..n /\ DOMAIN u = 1..(m + n)
      /\ \A i \in 1..(m + n) : u[i] = IF i <= m THEN s[i] ELSE t[i - m]
  BY ConcatProperties
<1> HIDE DEF m, n, u
<1>2. \A i \in DOMAIN s : i \in DOMAIN u /\ u[i] = s[i]
  BY <1>1
<1>3. \A j \in DOMAIN t : j + m \in DOMAIN u /\ u[j + m] = t[j]
  BY <1>1
<1>4. \A i \in DOMAIN u : \/ i \in DOMAIN s /\ u[i] = s[i]
                          \/ i - m \in DOMAIN t /\ u[i] = t[i - m]
  BY <1>1
<1>5. Ending(s) /\ Ending(t) => Ending(u)
  BY <1>4 DEF Ending
<1>6. ASSUME Warned(s), Warned(t), NEW i \in DOMAIN u, u[i].op = "file"
      PROVE  \E j \in DOMAIN u : j < i /\ u[j].op = "unhandled"
  <2>1. CASE i \in DOMAIN s /\ u[i] = s[i]
    <3>1. PICK j \in DOMAIN s : j < i /\ s[j].op = "unhandled"
      BY <1>6, <2>1 DEF Warned
    <3> QED
      BY <1>2, <3>1
  <2>2. CASE i - m \in DOMAIN t /\ u[i] = t[i - m]
    <3>1. PICK j \in DOMAIN t : j < i - m /\ t[j].op = "unhandled"
      BY <1>6, <2>2 DEF Warned
    <3>2. j + m < i
      BY <1>1, <3>1
    <3> QED
      BY <1>3, <3>1, <3>2
  <2> QED
    BY <1>4, <2>1, <2>2
<1>7. Warned(s) /\ Warned(t) => Warned(u)
  BY <1>6 DEF Warned
<1> QED
  BY <1>5, <1>7 DEF u

\* The ways out of run() write nothing but evidence, and those of an exception
\* note it first.
LEMMA OffShapes ==
  /\ \A d \in {Handler, Failing, Cleanup, << >>} : Ending(d) /\ Warned(d)
  /\ Ending(EarlyReturn)
<1> DEFINE U == <<Call("unhandled")>>
           H == U \o Evidence
<1>1. {"try", "run", "handler", "cleanup"} \subseteq Levels
  BY DEF Levels
<1>2. Ending(<< >>) /\ Warned(<< >>)
  BY EmptySeq DEF Ending, Warned
<1>3. Cleanup \in Seq(AllSteps) /\ DOMAIN Cleanup = 1..2
  BY CleanupShape DEF RunScript
<1>4. Ending(Cleanup) /\ Warned(Cleanup)
  BY <1>3, CleanupShape DEF Ending, Warned, EndOps, Late
<1>5. U \in Seq(PlainSteps) /\ Len(U) = 1 /\ U[1].op = "unhandled"
  BY DEF Call, Step, PlainSteps, Ops, Names
<1> HIDE DEF U
<1>6. /\ H \in Seq(PlainSteps) /\ Len(H) = 7
      /\ \A i \in 1..7 : H[i] = IF i <= 1 THEN U[i] ELSE Evidence[i - 1]
  <2>1. /\ U \o Evidence \in Seq(PlainSteps) /\ Len(U \o Evidence) = Len(U) + Len(Evidence)
        /\ \A i \in 1..Len(U) + Len(Evidence) :
             (U \o Evidence)[i] = IF i <= Len(U) THEN U[i] ELSE Evidence[i - Len(U)]
    BY <1>5, EvidenceShape, ConcatProperties, ZenonT(60)
  <2> QED
    BY <1>5, <2>1, EvidenceShape
<1> HIDE DEF H
<1>7. /\ \A i \in 1..7 : H[i].op \in EndOps
      /\ H[1].op = "unhandled"
  <2>1. \A i \in 1..6 : Evidence[i].op \in EndOps
    BY EvidenceShape DEF EndOps
  <2> QED
    BY <1>5, <1>6, <2>1 DEF EndOps
<1> DEFINE h == In("handler", H)
<1>8. h \in Seq(AllSteps) /\ DOMAIN h = 1..7 /\ \A i \in 1..7 : h[i].op = H[i].op
  <2>1. "handler" \in Levels /\ H \in Seq(PlainSteps) /\ Len(H) = 7
    BY <1>1, <1>6
  <2>2. /\ h \in Seq(AllSteps) /\ Len(h) = 7
        /\ \A i \in 1..7 : h[i].op = H[i].op
    BY <2>1, InShape
  <2> QED
    BY <2>2
<1> HIDE DEF h
<1>9. Ending(h)
  BY <1>7, <1>8 DEF Ending
<1>10. Warned(h)
  <2> SUFFICES ASSUME NEW i \in 1..7, h[i].op = "file"
               PROVE  \E j \in 1..7 : j < i /\ h[j].op = "unhandled"
    BY <1>8 DEF Warned
  <2>1. i # 1 /\ 1 \in 1..7 /\ h[1].op = "unhandled"
    BY <1>7, <1>8
  <2> QED
    BY <2>1
<1>11. Handler = h \o Cleanup
  BY DEF Handler, h, H, U
<1>12. Handler \in Seq(AllSteps) /\ Ending(Handler) /\ Warned(Handler)
  BY <1>3, <1>4, <1>8, <1>9, <1>10, <1>11, ConcatEnding, ConcatProperties
<1> DEFINE r == In("run", Stop)
           e == In("try", Evidence)
<1>13. r \in Seq(AllSteps) /\ DOMAIN r = 1..1 /\ r[1].op = "stop"
  BY <1>1, EvidenceShape, InShape
<1>14. e \in Seq(AllSteps) /\ DOMAIN e = 1..6 /\ \A i \in 1..6 : e[i].op = Evidence[i].op
  <2>1. "try" \in Levels /\ Evidence \in Seq(PlainSteps) /\ Len(Evidence) = 6
    BY <1>1, EvidenceShape
  <2>2. /\ e \in Seq(AllSteps) /\ Len(e) = 6
        /\ \A i \in 1..6 : e[i].op = Evidence[i].op
    BY <2>1, InShape
  <2> QED
    BY <2>2
<1> HIDE DEF r, e
<1>15. Ending(r) /\ Warned(r)
  BY <1>13 DEF Ending, Warned, EndOps, Late
<1>16. Ending(e)
  BY <1>14, EvidenceShape DEF Ending, EndOps
<1>17. Failing = r \o Handler /\ EarlyReturn = (e \o r) \o Cleanup
  BY DEF Failing, EarlyReturn, r, e
<1>18. Ending(Failing) /\ Warned(Failing)
  BY <1>12, <1>13, <1>15, <1>17, ConcatEnding
<1>19. e \o r \in Seq(AllSteps) /\ Ending(e \o r)
  BY <1>13, <1>14, <1>15, <1>16, ConcatEnding, ConcatProperties
<1>20. Ending(EarlyReturn)
  BY <1>3, <1>4, <1>17, <1>19, ConcatEnding
<1> QED
  BY <1>2, <1>4, <1>12, <1>18, <1>20

\* Wherever an exception leads, it is noted before a file is written.
LEMMA RaiseOff ==
  ASSUME ScriptInv, todo # << >>, Head(todo).op # "construct", Raise
  PROVE  Ending(todo)' /\ Warned(todo)'
<1>1. Head(todo) = todo[1] /\ 1 \in DOMAIN todo /\ Head(todo) \in AllSteps
  BY TailScript DEF ScriptInv
<1>2. Head(todo).level \in {"try", "run", "handler", "cleanup"}
  BY <1>1 DEF ScriptInv, AllSteps, Levels, Constructed
<1>3. todo' \in {Handler, Failing, Cleanup, << >>}
  BY <1>2 DEF Raise
<1> QED
  BY <1>3, OffShapes

\* What is done once run() was left: nothing, a step of the evidence or the
\* cleanup, the note of the failure, or an exception.
LEMMA EndKinds ==
  ASSUME ScriptInv, Ending(todo), [Next]_vars
  PROVE  \/ UNCHANGED <<todo, gates, witness>>
         \/ /\ todo # << >> /\ Head(todo).op # "unhandled" /\ todo' = Tail(todo)
            /\ UNCHANGED <<gates, witness>>
         \/ /\ todo # << >> /\ todo' = Tail(todo)
            /\ gates' = [gates EXCEPT !["unhandled_failure"] = "FAIL"] /\ witness' = witness
         \/ todo # << >> /\ Head(todo).op # "construct" /\ Raise /\ UNCHANGED <<gates, witness>>
         \/ todo' = << >> /\ UNCHANGED <<gates, witness>>
<1>1. todo # << >> => Head(todo) = todo[1] /\ 1 \in DOMAIN todo
  BY TailScript DEF ScriptInv
<1>2. todo # << >> => Head(todo).op \in {"stop", "remove", "file", "sums", "unhandled"}
  BY <1>1 DEF Ending, EndOps, Late
<1>3. \A op : Doing(op) => op \in {"stop", "remove", "file", "sums", "unhandled"}
  BY <1>2 DEF Doing
<1>4. ~Answered /\ ~StartRaises
  BY <1>2 DEF Answered, StartRaises, ScriptInv
<1>5. /\ ~Construct /\ ~Spawn /\ ~ClientRaises /\ ~Preflight /\ ~SpawnOutage /\ ~Proceed
      /\ ~CollectRaises /\ ~ConstructRaises
  BY <1>3 DEF Construct, Spawn, ClientRaises, Preflight, SpawnOutage, Proceed,
              CollectRaises, ConstructRaises
<1>6. /\ ~Clean /\ ~Write /\ ~Verify /\ ~Isolation /\ ~Negative /\ ~Privacy /\ ~Startup
      /\ ~Cost /\ ~Clear /\ ~TtlWrite /\ ~Await /\ ~Collect
  <2>1. /\ ~Doing("clean") /\ ~Doing("verify") /\ ~Doing("isolation") /\ ~Doing("privacy")
        /\ ~Doing("startup") /\ ~Doing("cost") /\ ~Doing("await") /\ ~Doing("collect")
        /\ ~Doing("write") /\ ~Doing("negative") /\ ~Doing("clear") /\ ~Doing("ttl_write")
    BY <1>3
  <2>2. /\ ~Clean /\ ~Verify /\ ~Isolation /\ ~Privacy /\ ~Startup /\ ~Cost /\ ~Await /\ ~Collect
    BY <2>1, Zenon DEF Clean, Verify, Isolation, Privacy, Startup, Cost, Await, Collect,
                       Phase, Working
  <2>3. ~Write /\ ~Negative /\ ~Clear /\ ~TtlWrite
    BY <2>1, Zenon DEF Write, Negative, Clear, TtlWrite, Working
  <2> QED
    BY <2>2, <2>3
<1>7. \A op \in DOMAIN Awaited : ~Poll(op)
  BY <1>3 DEF Poll, Awaited
<1>8. CASE Shutdown
  BY <1>8, <1>2, <1>3 DEF Shutdown, Doing, Advance, gating
<1>9. CASE Reap
  BY <1>9 DEF Reap, ScriptInv, Advance, gating
<1>10. CASE StopRaises
  BY <1>10 DEF StopRaises, ScriptInv, gating
<1>11. CASE WriteFile \/ WriteSums \/ Remove
  BY <1>11 DEF WriteFile, WriteSums, Remove, Doing, Advance, gating
<1>12. CASE Unhandled
  BY <1>12 DEF Unhandled, Doing, Advance
<1>13. CASE FileFails
  BY <1>13 DEF FileFails, Doing, gating
<1>14. CASE \/ \E s \in DOMAIN db : TtlPasses(s)
            \/ OutageOpens \/ OutageReads \/ Return \/ Bind \/ BindFails
  BY <1>14 DEF TtlPasses, OutageOpens, OutageReads, Return, Bind, BindFails, gating, script
<1>15. CASE \/ SlowsDown \/ \E s \in DOMAIN db : StateExpires(s)
            \/ ServerDies \/ ServerHangs \/ ForeignAppears \/ Killed
  BY <1>15 DEF SlowsDown, StateExpires, ServerDies, ServerHangs, ForeignAppears, Killed,
               gating, script
<1>16. CASE UNCHANGED vars
  BY <1>16 DEF vars, script, gating
<1> QED
  BY <1>4, <1>5, <1>6, <1>7, <1>8, <1>9, <1>10, <1>11, <1>12, <1>13, <1>14, <1>15, <1>16
     DEF Next, Proceeds

\* No gate but the failure's is recorded then, and no phase comes back.
LEMMA EndStep ==
  ASSUME ScriptInv, Ending(todo), [Next]_vars
  PROVE  Ending(todo)' /\ witness' = witness
<1>0. witness' = witness
  BY EndKinds
<1>1. todo # << >> =>
        \A i \in DOMAIN Tail(todo) : i + 1 \in DOMAIN todo /\ Tail(todo)[i] = todo[i + 1]
  BY TailScript DEF ScriptInv
<1>2. CASE todo' = todo
  BY <1>0, <1>2 DEF Ending
<1>3. CASE todo # << >> /\ todo' = Tail(todo)
  BY <1>0, <1>1, <1>3, EndKinds DEF Ending
<1>4. CASE todo # << >> /\ Head(todo).op # "construct" /\ Raise
  BY <1>0, <1>4, RaiseOff
<1>5. CASE todo' = << >>
  BY <1>0, <1>5, OffShapes
<1> QED
  BY <1>2, <1>3, <1>4, <1>5, EndKinds

\* A failure stays noted, or is going to be before a file is written.
LEMMA OffStep ==
  ASSUME TypeOK, ScriptInv, Off, [Next]_vars
  PROVE  Off' /\ witness' = witness
<1>1. todo # << >> =>
        /\ \A i \in DOMAIN Tail(todo) : i + 1 \in DOMAIN todo /\ Tail(todo)[i] = todo[i + 1]
        /\ Head(todo) = todo[1] /\ DOMAIN todo = 1..Len(todo) /\ Len(todo) \in Nat
        /\ DOMAIN Tail(todo) = 1..(Len(todo) - 1)
  BY TailScript, HeadTailProperties, LenProperties DEF ScriptInv
<1>2. Ending(todo)' /\ witness' = witness
  BY EndStep DEF Off
<1>3. CASE UNCHANGED <<todo, gates>>
  BY <1>2, <1>3 DEF Off, Warned
<1>4. CASE todo # << >> /\ Head(todo).op # "unhandled" /\ todo' = Tail(todo) /\ gates' = gates
  <2>1. CASE \E g \in Gates : gates[g] = "FAIL"
    BY <1>2, <1>4, <2>1 DEF Off
  <2>2. CASE Warned(todo)
    <3>1. ASSUME NEW i \in DOMAIN Tail(todo), Tail(todo)[i].op = "file"
          PROVE  \E j \in DOMAIN Tail(todo) : j < i /\ Tail(todo)[j].op = "unhandled"
      <4>1. i + 1 \in DOMAIN todo /\ todo[i + 1].op = "file"
        BY <1>1, <1>4, <3>1
      <4>2. PICK k \in DOMAIN todo : k < i + 1 /\ todo[k].op = "unhandled"
        BY <2>2, <4>1 DEF Warned
      <4>3. k # 1
        BY <1>1, <1>4, <4>2
      <4>4. k - 1 \in DOMAIN Tail(todo) /\ k - 1 < i
        BY <1>1, <1>4, <3>1, <4>2, <4>3
      <4>5. Tail(todo)[k - 1] = todo[k]
        BY <1>1, <1>4, <4>2, <4>4
      <4> QED
        BY <4>2, <4>4, <4>5
    <3>2. Warned(todo)'
      BY <1>4, <3>1 DEF Warned
    <3> QED
      BY <1>2, <3>2 DEF Off
  <2> QED
    BY <2>1, <2>2 DEF Off
<1>5. CASE gates' = [gates EXCEPT !["unhandled_failure"] = "FAIL"]
  <2>1. "unhandled_failure" \in Gates /\ gates'["unhandled_failure"] = "FAIL"
    BY <1>5 DEF Gates, TypeOK
  <2> QED
    BY <1>2, <2>1 DEF Off
<1>6. CASE todo # << >> /\ Head(todo).op # "construct" /\ Raise
  BY <1>6, <1>2, RaiseOff DEF Off
<1>7. CASE todo' = << >>
  <2>1. Warned(todo)'
    BY <1>7, OffShapes
  <2> QED
    BY <1>2, <2>1 DEF Off
<1> QED
  BY <1>2, <1>3, <1>4, <1>5, <1>6, <1>7, EndKinds DEF Off

-----------------------------------------------------------------------------
(* The evidence of a drill that passes *)

\* Only a foreign Redis puts one on the port.
LEMMA ForeignStep ==
  ASSUME TypeOK, ScriptInv, ForeignInv, [Next]_vars
  PROVE  ForeignInv'
<1> USE DEF ForeignInv
<1>1. CASE Concluding \/ Raising \/ ReturnsEarly
  BY <1>1 DEF Concluding, Raising, ReturnsEarly
<1>2. CASE Idling
  BY <1>2 DEF Idling
<1>3. CASE Construct \/ ConstructRaises \/ Spawn \/ Answered \/ Shutdown \/ Reap
  BY <1>3 DEF Construct, ConstructRaises, Spawn, Answered, Shutdown, Reap, Trouble,
              world, servers, around
<1>4. CASE WriteFile \/ WriteSums \/ Remove \/ Return
  BY <1>4 DEF WriteFile, WriteSums, Remove, Return, world, servers, around
<1> QED
  BY <1>1, <1>2, <1>3, <1>4, StepKinds

\* An exception in run(), or an early return from it, is noted.
LEMMA LeavesOff ==
  ASSUME TypeOK, ScriptInv, WitnessInv, NEW p \in 1..44, OnInv(p),
         \/ StartRaises \/ StopRaises \/ ClientRaises \/ CollectRaises \/ FileFails
         \/ ConstructRaises \/ (Preflight /\ db[port] # Blank)
  PROVE  Off' /\ WitnessInv'
<1>1. CASE StartRaises \/ StopRaises \/ ClientRaises \/ CollectRaises \/ FileFails
  <2>1. todo # << >> /\ Head(todo).op # "construct" /\ Raise /\ witness' = witness
    BY <1>1 DEF StartRaises, StopRaises, ClientRaises, CollectRaises, FileFails, Trouble,
                Doing, ScriptInv, gating
  <2> QED
    BY <2>1, RaiseOff DEF Off, WitnessInv
<1>2. CASE ConstructRaises
  <2>1. todo' = << >> /\ witness' = witness
    BY <1>2 DEF ConstructRaises, gating
  <2>2. Ending(todo)' /\ Warned(todo)'
    BY <2>1, OffShapes
  <2> QED
    BY <2>1, <2>2 DEF Off, WitnessInv
<1>3. CASE Preflight /\ db[port] # Blank
  <2>1. Doing("preflight") /\ Conclude(FALSE) /\ todo' = EarlyReturn
    BY <1>3, Zenon DEF Preflight
  <2>2. OnScript(p) /\ GatesInv(p)
    BY DEF OnInv
  <2>3. p \in 1..43 /\ Head(todo) = Script[p] /\ Script[p].op = "preflight"
    BY <2>1, <2>2, DoingAt
  <2>4. p = 3 /\ Head(todo).of = "preflight"
    BY <2>3, Positions, PhasesIs
  <2>5. WitnessInv'
    <3>1. p \in 3..34 /\ FALSE \in BOOLEAN
      BY <2>4
    <3> QED
      BY <2>1, <2>2, <2>3, <3>1, Recording
  <2>6. "preflight" # None /\ "preflight" \in Gates
    BY NoneAssumption, PhaseGatesIs DEF GateNames, Gates
  <2>7. gates'["preflight"] = "FAIL"
    BY <2>1, <2>4, <2>6 DEF Conclude, Status, TypeOK
  <2>8. Ending(todo)'
    BY <2>1, OffShapes
  <2> QED
    BY <2>5, <2>6, <2>7, <2>8 DEF Off
<1> QED
  BY <1>1, <1>2, <1>3

\* A coordinator on its script goes on with it or leaves it.
LEMMA OnStep ==
  ASSUME TypeOK, EpochInv, ScriptInv, ForeignInv, WitnessInv,
         NEW p \in 1..44, OnInv(p), [Next]_vars
  PROVE  WitnessInv' /\ (Off' \/ \E q \in 1..44 : OnInv(q)')
<1> DEFINE Kept == WitnessInv' /\ (Off' \/ \E q \in 1..44 : OnInv(q)')
<1> SUFFICES Kept
  OBVIOUS
<1>1. OnInv(p + 1)' => \E q \in 1..44 : OnInv(q)'
  <2> SUFFICES ASSUME OnInv(p + 1)' PROVE \E q \in 1..44 : OnInv(q)'
    OBVIOUS
  <2>1. todo' \in Seq(AllSteps) /\ Len(todo') = 44 - (p + 1)
    BY DEF OnInv, OnScript
  <2>2. p + 1 \in 1..44
    BY <2>1, LenProperties
  <2> QED
    BY <2>2
<1>2. ASSUME OnInv(p + 1)' /\ WitnessInv' PROVE Kept
  BY <1>1, <1>2
<1>3. ASSUME OnInv(p)' /\ WitnessInv' PROVE Kept
  BY <1>3
<1>4. ASSUME Off' /\ WitnessInv' PROVE Kept
  BY <1>4
<1> HIDE DEF Kept
<1>5. CASE Clean \/ Isolation \/ Cost \/ Await
  <2>1. CASE Clean
    <3> DEFINE result == db[port] = Blank
    <3>1. Phase("clean", result) /\ result \in BOOLEAN
      BY <2>1 DEF Clean
    <3> HIDE DEF result
    <3> QED
      BY <1>2, <3>1, CleanOn
  <2>2. CASE Isolation
    <3> DEFINE result == Up /\ refs
    <3>1. Phase("isolation", result) /\ result \in BOOLEAN
      BY <2>2 DEF Isolation
    <3> HIDE DEF result
    <3> QED
      BY <1>2, <3>1, CleanOn
  <2>3. CASE Cost
    BY <1>2, <2>3, CleanOn DEF Cost
  <2>4. CASE Await
    <3> DEFINE result == outage \notin {"opening", "failed"}
    <3>1. Phase("await", result) /\ result \in BOOLEAN
      BY <2>4 DEF Await
    <3> HIDE DEF result
    <3> QED
      BY <1>2, <3>1, CleanOn
  <2> QED
    BY <1>5, <2>1, <2>2, <2>3, <2>4
<1>6. CASE Privacy \/ Collect \/ Startup \/ Verify \/ Write \/ Negative \/ Clear \/ TtlWrite
  BY <1>2, <1>6, PrivacyOn, CollectOn, StartupOn, VerifyOn, WriteOn, NegativeOn, ClearOn,
     TtlWriteOn
<1>7. CASE \E op \in DOMAIN Awaited : Poll(op)
  BY <1>2, <1>7, PollOn
<1>8. CASE Preflight /\ db[port] = Blank
  BY <1>2, <1>8, ReadyOn
<1>9. CASE Construct \/ SpawnOutage \/ Proceed \/ WriteFile \/ WriteSums \/ Remove
  BY <1>2, <1>9, ApartOn
<1>10. CASE Answered \/ Reap
  BY <1>2, <1>10, AnsweredOn, ReapOn
<1>11. CASE Spawn \/ Shutdown
  BY <1>2, <1>3, <1>11, SpawnOn, ShutdownOn
<1>12. CASE \/ StartRaises \/ StopRaises \/ ClientRaises \/ CollectRaises \/ FileFails
            \/ ConstructRaises \/ (Preflight /\ db[port] # Blank)
  BY <1>4, <1>12, LeavesOff
<1>13. ~Unhandled
  <2>1. OnScript(p)
    BY DEF OnInv
  <2>2. ASSUME Doing("unhandled") PROVE FALSE
    <3>1. p \in 1..43 /\ Script[p].op = "unhandled"
      BY <2>1, <2>2, DoingAt
    <3> QED
      BY <3>1, Positions
  <2> QED
    BY <2>2 DEF Unhandled
<1>14. CASE \/ \E s \in DOMAIN db : TtlPasses(s) \/ StateExpires(s)
            \/ OutageOpens \/ OutageReads \/ Return \/ Bind \/ BindFails
            \/ SlowsDown \/ ServerDies \/ ServerHangs \/ ForeignAppears \/ Killed
            \/ UNCHANGED vars
  <2>1. Around
    BY <1>14, AroundSteps
  <2>2. WitnessInv'
    BY <2>1 DEF Around, WitnessInv
  <2> QED
    BY <1>3, <2>1, <2>2, AroundOn
<1> QED
  BY <1>5, <1>6, <1>7, <1>8, <1>9, <1>10, <1>11, <1>12, <1>13, <1>14 DEF Next, Proceeds

\* A results.json that says PASS was written on the script, after everything
\* was seen; nothing recorded after it takes that back.
LEMMA ResultsStep ==
  ASSUME TypeOK, ScriptInv, EvidenceInv, WitnessInv, ResultsInv,
         Off \/ \E p \in 1..44 : OnInv(p), [Next]_vars
  PROVE  ResultsInv'
<1>1. CASE files' = files \/ (WriteFile /\ Head(todo).of # "results")
  <2>0. "results" \in DOMAIN files
    BY DEF EvidenceInv, FileNames, EvidenceFiles
  <2>1. files'["results"] = files["results"]
    BY <1>1, <2>0 DEF WriteFile
  <2> SUFFICES ASSUME files["results"] \notin {None, Earlier}, Passed(files["results"])
               PROVE  Earned(files["results"])' /\ Ending(todo)'
    BY <2>1 DEF ResultsInv
  <2>2. Earned(files["results"]) /\ Ending(todo)
    BY DEF ResultsInv
  <2>3. Ending(todo)' /\ witness' = witness
    BY <2>2, EndStep
  <2> QED
    BY <2>1, <2>2, <2>3 DEF Earned
<1>2. CASE WriteFile /\ Head(todo).of = "results"
  <2>1. "results" \in FileNames
    BY DEF FileNames, EvidenceFiles
  <2>2. /\ Doing("file") /\ files'["results"] = gates /\ todo' = Tail(todo)
        /\ gates' = gates /\ witness' = witness
    BY <1>2, <2>1 DEF WriteFile, EvidenceInv, Advance, gating
  <2> SUFFICES ASSUME Passed(gates) PROVE Earned(files["results"])' /\ Ending(todo)'
    BY <2>2 DEF ResultsInv
  <2>3. CASE Off
    <3>1. 1 \in DOMAIN todo /\ todo[1].op = "file"
      BY <2>2, TailScript DEF Doing, ScriptInv
    <3>2. ~Warned(todo)
      <4>1. \A j \in DOMAIN todo : j \in Nat /\ j >= 1
        BY DEF ScriptInv
      <4> QED
        BY <3>1, <4>1 DEF Warned
    <3> QED
      BY <2>3, <3>2 DEF Off, Passed
  <2>4. ASSUME NEW p \in 1..44, OnInv(p) PROVE Earned(files["results"])' /\ Ending(todo)'
    <3>1. OnScript(p) /\ GatesInv(p) /\ (Sound => Facts(p))
      BY <2>4 DEF OnInv
    <3>2. /\ p \in 1..43 /\ todo # << >> /\ Head(todo) = Script[p] /\ Script[p].op = "file"
          /\ Script[p].of = "results"
      BY <1>2, <2>2, <3>1, DoingAt
    <3>3. p = 37
      <4>1. p \in 36..40
        BY <3>2, Positions
      <4> QED
        BY <3>2, <4>1, Positions
    <3>4. Sound
      BY <3>1, <3>3 DEF GatesInv, Sound, Passed
    <3>5. Seen(37)
      BY <3>1, <3>3, <3>4 DEF Facts
    <3>6. \A g \in PhaseGates : gates[g] = "PASS"
      <4>1. \A g \in PhaseGates : g \in GateNames /\ Place(g) < 37 /\ g \in Gates
        BY PhaseGatesIs, PlacesAre DEF Gates
      <4>2. \A g \in PhaseGates : gates[g] # "unset" /\ gates[g] # "FAIL"
        BY <3>1, <3>3, <3>4, <4>1 DEF GatesInv, Sound
      <4> QED
        BY <4>1, <4>2 DEF TypeOK
    <3>7. Earned(gates)
      BY <3>5, <3>6 DEF Seen, Earned, OutagePhase, ReadBack
    <3>8. Earned(files["results"])'
      BY <2>2, <3>7 DEF Earned
    <3>9. OnScript(38)'
      BY <2>2, <3>1, <3>2, <3>3, NextOnScript
    <3>10. ASSUME NEW i \in DOMAIN todo' PROVE todo'[i].op \in EndOps
      <4>1. i \in 1..6 /\ todo'[i] = Script[37 + i]
        BY <3>9, <3>10 DEF OnScript
      <4> QED
        BY <4>1, Positions
    <3> QED
      BY <3>8, <3>10 DEF Ending
  <2> QED
    BY <2>3, <2>4
<1>3. \/ files' = files
      \/ WriteFile
  <2>1. CASE Concluding \/ Raising \/ Idling \/ ReturnsEarly
    BY <2>1 DEF Concluding, Raising, Idling, ReturnsEarly
  <2>2. CASE Construct \/ ConstructRaises \/ Spawn \/ Answered \/ Shutdown \/ Reap
    BY <2>2 DEF Construct, ConstructRaises, Spawn, Answered, Shutdown, Reap, output
  <2>3. CASE WriteSums \/ Remove \/ Return
    BY <2>3 DEF WriteSums, Remove, Return
  <2> QED
    BY <2>1, <2>2, <2>3, StepKinds
<1> QED
  BY <1>1, <1>2, <1>3

\* A drill begins at the first step of its script, with nothing written.
LEMMA EarnedInitial == Init => EarnedInv
<1> SUFFICES ASSUME Init PROVE EarnedInv
  OBVIOUS
<1>1. TypeOK
  BY Initial DEF IInv
<1>2. OnScript(1)
  BY ScriptIs DEF Init, OnScript
<1>3. ServerInv(1)
  BY DEF Init, ServerInv, Running
<1>4. GatesInv(1)
  BY PlacesAre, PhaseGatesIs DEF Init, GatesInv, Gates
<1>5. ~Has("drill") /\ ~Has("foreign")
  BY <1>1, DbType DEF Init, Has, Blank
<1>6. Facts(1)
  BY <1>5 DEF Init, Facts, FirstWrite, SecondWrite, Epochs, Seen, Past
<1>7. ForeignInv /\ WitnessInv
  BY DEF Init, ForeignInv, WitnessInv
<1>8. ResultsInv
  <2>1. files["results"] = Earlier
    BY DEF Init, EvidenceFiles
  <2> QED
    BY <2>1 DEF ResultsInv
<1>9. OnInv(1)
  BY <1>2, <1>3, <1>4, <1>6 DEF OnInv
<1> QED
  BY <1>7, <1>8, <1>9 DEF EarnedInv

\* Every step keeps what is known of a drill that passes.
LEMMA EarnedStep == IInv /\ EarnedInv /\ [Next]_vars => EarnedInv'
<1> SUFFICES ASSUME IInv, EarnedInv, [Next]_vars PROVE EarnedInv'
  OBVIOUS
<1>1. /\ TypeOK /\ EpochInv /\ ScriptInv /\ EvidenceInv
      /\ ForeignInv /\ WitnessInv /\ ResultsInv
      /\ Off \/ \E p \in 1..44 : OnInv(p)
  BY DEF IInv, EarnedInv
<1>2. ForeignInv' /\ ResultsInv'
  BY <1>1, ForeignStep, ResultsStep
<1>3. WitnessInv' /\ (Off' \/ \E q \in 1..44 : OnInv(q)')
  <2>1. CASE Off
    <3>1. Off' /\ witness' = witness
      BY <1>1, <2>1, OffStep
    <3> QED
      BY <1>1, <3>1 DEF WitnessInv
  <2>2. ASSUME NEW p \in 1..44, OnInv(p) PROVE WitnessInv' /\ (Off' \/ \E q \in 1..44 : OnInv(q)')
    BY <1>1, <2>2, OnStep
  <2> QED
    BY <1>1, <2>1, <2>2
<1> QED
  BY <1>2, <1>3 DEF EarnedInv

\* A results.json that says PASS is earned.
THEOREM PassEarned == Spec => []PassIsEarned
<1>1. EarnedInv => PassIsEarned
  BY DEF EarnedInv, ResultsInv, Earned, PassIsEarned
<1>2. Init => IInv /\ EarnedInv
  BY Initial, EarnedInitial
<1>3. IInv /\ EarnedInv /\ [Next]_vars => (IInv /\ EarnedInv)'
  BY Inductive, EarnedStep
<1> QED
  BY <1>1, <1>2, <1>3, PTL DEF Spec

-----------------------------------------------------------------------------
(* A drill that meets no trouble *)

\* The drill's Redis answers whenever the coordinator needs it, and nobody
\* does otherwise.
Stands(p) ==
  /\ port # "foreign"
  /\ within = "call" => IF Running(p) THEN port = "drill" ELSE port = "nobody" /\ child = "none"
  /\ within = "ping" => child = "alive"
  /\ within = "wait" => port = "nobody" /\ child = "dead"

\* Redis, the state file and the worker of the outage phase hold what the next
\* phases look for.
Holds(p) ==
  LET held == db["drill"]
  IN  /\ p > 4 => refs
      /\ p <= 4 \/ p \in 26..28 => held = Blank
      /\ p \in 5..25 \/ p \in 29..32 => \A i \in VerifyItems : held[i] = "intact"
      /\ p \in 5..14 => \A i \in Controls : held[i] = "intact"
      /\ p = 11 => held["ttl"] = "intact"
      /\ p = 12 => held["ttl"] \in {"intact", "lapsed", "tombstone"}
      /\ p = 13 => held["ttl"] \in {"tombstone", "none"}
      /\ p = 17 => outage \in {"opening", "ready"}
      /\ p \in 18..19 => outage = "ready"
      /\ p = 20 => outage \in {"ready", "unhealthy"}
      /\ p <= 19 => ~proceed
      /\ p > 41 => code = "zero"

\* The coordinator is at p of its script and nothing has failed.
CalmAt(p) == OnScript(p) /\ GatesInv(p) /\ Sound /\ Stands(p) /\ Holds(p)

CalmInv == trouble = {} => \E p \in 1..44 : CalmAt(p)

\* A phase that succeeds leaves every gate sound.
LEMMA Sounding ==
  ASSUME TypeOK, Sound, NEW result \in BOOLEAN, result, Conclude(result)
  PROVE  Sound'
<1>1. sofar' = TRUE
  BY DEF Conclude, Sound
<1>2. gates' = gates \/ gates' = [gates EXCEPT ![Head(todo).of] = "PASS"]
  BY DEF Conclude, Sound, Status
<1>3. DOMAIN gates = Gates
  BY DEF TypeOK
<1> QED
  BY <1>1, <1>2, <1>3 DEF Sound

\* It takes the coordinator from p to p + 1.
LEMMA CalmPhase ==
  ASSUME TypeOK, WitnessInv, NEW p \in 3..34, p \notin Silent, CalmAt(p),
         NEW result \in BOOLEAN, result, Moves(p, result), Holds(p + 1)'
  PROVE  CalmAt(p + 1)'
<1>1. p \in 1..44 /\ OnScript(p) /\ GatesInv(p) /\ Sound /\ Stands(p)
  BY DEF CalmAt
<1>2. Head(todo) = Script[p] /\ OnScript(p + 1)'
  BY <1>1, NextOnScript DEF Moves
<1>3. GatesInv(p + 1)'
  BY <1>1, <1>2, Recording DEF Moves
<1>4. Sound'
  BY <1>1, Sounding DEF Moves
<1>5. Stands(p + 1)'
  BY <1>1 DEF Stands, Running, Moves, Silent
<1> QED
  BY <1>2, <1>3, <1>4, <1>5 DEF CalmAt

\* So does a step that records nothing.
LEMMA CalmSilent ==
  ASSUME NEW p \in 1..43, p \in Silent, CalmAt(p), todo # << >>, todo' = Tail(todo),
         UNCHANGED gating, Stands(p + 1)', Holds(p + 1)'
  PROVE  CalmAt(p + 1)'
<1>1. p \in 1..44 /\ OnScript(p) /\ GatesInv(p) /\ Sound
  BY DEF CalmAt
<1>2. OnScript(p + 1)'
  BY <1>1, NextOnScript
<1>3. GatesInv(p + 1)' /\ Sound'
  BY <1>1, SilentGates
<1> QED
  BY <1>2, <1>3 DEF CalmAt

\* A coordinator that stays stays calm.
LEMMA CalmStay ==
  ASSUME NEW p \in 1..44, CalmAt(p), todo' = todo, UNCHANGED gating, Stands(p)', Holds(p)'
  PROVE  CalmAt(p)'
<1>1. OnScript(p)'
  BY NextOnScript DEF CalmAt
<1>2. GatesInv(p)' /\ Sound'
  BY DEF CalmAt, GatesInv, Sound, gating
<1> QED
  BY <1>1, <1>2 DEF CalmAt

\* Most phases leave what the next ones look for as it is.
LEMMA HoldsOn ==
  ASSUME NEW p \in 1..43, p \notin {4, 10, 12, 16, 17, 25, 28, 41}, Holds(p),
         db' = db, outage' = outage, proceed' = proceed, code' = code, p # 4 => refs' = refs
  PROVE  Holds(p + 1)'
  BY DEF Holds

\* A step other than a start or a stop of Redis runs while Redis stands.
LEMMA CalmCall ==
  ASSUME ScriptInv, NEW p \in 1..43, OnScript(p), p \notin {2, 7, 22, 26, 31},
         p \notin {6, 18, 24, 30, 35, 42}, TypeOK
  PROVE  within = "call"
<1>1. todo # << >> /\ Head(todo) = Script[p]
  <2>1. p \in 1..44 /\ p # 44
    OBVIOUS
  <2> QED
    BY <2>1, NextOnScript
<1>2. Script[p].op # "start" /\ Script[p].op # "stop"
  BY Positions
<1> QED
  BY <1>1, <1>2 DEF ScriptInv, TypeOK

\* The phases that only look find what they look for.
LEMMA CalmLooking ==
  ASSUME TypeOK, WitnessInv, trouble = {}, NEW p \in 1..44, CalmAt(p),
         Clean \/ Isolation \/ Privacy \/ Cost \/ Await \/ Collect \/ Startup \/ Verify
  PROVE  CalmAt(p + 1)'
<1>1. OnScript(p) /\ Stands(p) /\ Holds(p)
  BY DEF CalmAt
<1>2. ASSUME NEW op, NEW result \in BOOLEAN, Phase(op, result)
      PROVE  /\ p \in 1..43 /\ Script[p].op = op
             /\ Moves(p, result)
             /\ UNCHANGED <<db, refs, outage, proceed, code>>
             /\ IF Running(p) THEN port = "drill" ELSE port = "nobody"
  <2>1. Doing(op)
    BY <1>2 DEF Phase, Working
  <2>2. p \in 1..43 /\ Script[p].op = op /\ within = "call"
    BY <1>1, <2>1, DoingAt
  <2> QED
    BY <1>1, <1>2, <2>1, <2>2, DoingAt DEF Phase, Working, Advance, Moves, Stands, worker
<1>3. ASSUME NEW op, NEW result \in BOOLEAN, result, Phase(op, result),
             p \in {5, 8, 9, 15, 20, 21, 23, 27, 29, 32, 33, 34}
      PROVE  CalmAt(p + 1)'
  <2>1. p \in 1..43 /\ p \notin {4, 10, 12, 16, 17, 25, 28, 41}
        /\ p \in 3..34 /\ p \notin Silent
    BY <1>3 DEF Silent
  <2>2. Moves(p, result) /\ UNCHANGED <<db, refs, outage, proceed, code>>
    BY <1>2, <1>3
  <2>3. Holds(p + 1)'
    BY <1>1, <2>1, <2>2, HoldsOn
  <2> QED
    BY <1>3, <2>1, <2>2, <2>3, CalmPhase
<1>4. CASE Clean
  <2> DEFINE result == db[port] = Blank
  <2>1. Phase("clean", result) /\ result \in BOOLEAN
    BY <1>4 DEF Clean
  <2> HIDE DEF result
  <2>2. p \in {27}
    BY <1>2, <2>1, Positions
  <2>3. port = "drill"
    BY <1>2, <2>1, <2>2 DEF Running
  <2>4. result
    BY <1>1, <2>2, <2>3 DEF result, Holds
  <2> QED
    BY <1>3, <2>1, <2>2, <2>4
<1>5. CASE Isolation
  <2> DEFINE result == Up /\ refs
  <2>1. Phase("isolation", result) /\ result \in BOOLEAN
    BY <1>5 DEF Isolation, Up
  <2> HIDE DEF result
  <2>2. p \in {9}
    BY <1>2, <2>1, Positions
  <2>3. port = "drill"
    BY <1>2, <2>1, <2>2 DEF Running
  <2>4. result
    BY <1>1, <2>2, <2>3 DEF result, Holds, Up
  <2> QED
    BY <1>3, <2>1, <2>2, <2>4
<1>6. CASE Privacy
  <2> DEFINE result == Up
  <2>1. Phase("privacy", result) /\ result \in BOOLEAN
    BY <1>6 DEF Privacy, Up
  <2> HIDE DEF result
  <2>2. p \in {15, 33}
    BY <1>2, <2>1, Positions
  <2>3. port = "drill"
    BY <1>2, <2>1, <2>2 DEF Running
  <2>4. result
    BY <1>1, <2>2, <2>3 DEF result, Up
  <2> QED
    BY <1>3, <2>1, <2>2, <2>4
<1>7. CASE Cost
  <2> DEFINE result == TRUE
  <2>1. Phase("cost", result) /\ result \in BOOLEAN /\ result
    BY <1>7 DEF Cost
  <2> HIDE DEF result
  <2>2. p \in {34}
    BY <1>2, <2>1, Positions
  <2> QED
    BY <1>3, <2>1, <2>2
<1>8. CASE Await
  <2> DEFINE result == outage \notin {"opening", "failed"}
  <2>1. Phase("await", result) /\ result \in BOOLEAN
    BY <1>8 DEF Await
  <2> HIDE DEF result
  <2>2. p \in {17}
    BY <1>2, <2>1, Positions
  <2>3. result
    BY <1>1, <1>8, <2>2 DEF result, Await, Holds
  <2>4. Moves(p, result) /\ UNCHANGED <<db, refs, outage, proceed, code>>
    BY <1>2, <2>1
  <2>5. outage \in {"opening", "ready"}
    BY <1>1, <2>2 DEF Holds
  <2>6. outage = "ready"
    BY <2>3, <2>5 DEF result
  <2>7. Holds(p + 1)'
    BY <1>1, <2>2, <2>4, <2>6 DEF Holds
  <2>8. p \in 3..34 /\ p \notin Silent
    BY <2>2 DEF Silent
  <2> QED
    BY <2>1, <2>3, <2>4, <2>7, <2>8, CalmPhase
<1>9. CASE Collect
  <2> DEFINE result == outage = "unhealthy"
  <2>1. Phase("collect", result) /\ result \in BOOLEAN
    BY <1>9 DEF Collect
  <2> HIDE DEF result
  <2>2. p \in {20}
    BY <1>2, <2>1, Positions
  <2>3. result
    BY <1>1, <1>9, <2>2 DEF result, Collect, Holds
  <2> QED
    BY <1>3, <2>1, <2>2, <2>3
<1>10. CASE Startup
  <2> DEFINE result == ~Up
  <2>1. Phase("startup", result) /\ result \in BOOLEAN
    BY <1>10 DEF Startup, Up
  <2> HIDE DEF result
  <2>2. p \in {21}
    BY <1>2, <2>1, Positions
  <2>3. port = "nobody"
    BY <1>2, <2>1, <2>2 DEF Running
  <2>4. result
    BY <1>1, <2>2, <2>3 DEF result, Up
  <2> QED
    BY <1>3, <2>1, <2>2, <2>4
<1>11. CASE Verify
  <2> DEFINE result == Up /\ refs /\ \A i \in VerifyItems : db[port][i] = "intact"
  <2>1. Phase("verify", result) /\ result \in BOOLEAN
    BY <1>11 DEF Verify, Up
  <2> HIDE DEF result
  <2>2. p \in {5, 8, 23, 29, 32}
    BY <1>2, <2>1, Positions
  <2>3. port = "drill"
    BY <1>2, <2>1, <2>2 DEF Running
  <2>4. result
    BY <1>1, <2>2, <2>3 DEF result, Holds, Up
  <2> QED
    BY <1>3, <2>1, <2>2, <2>4
<1> QED
  BY <1>4, <1>5, <1>6, <1>7, <1>8, <1>9, <1>10, <1>11

\* The phases that write leave what the next ones look for.
LEMMA CalmWriting ==
  ASSUME TypeOK, WitnessInv, trouble = {}, NEW p \in 1..44, CalmAt(p),
         Write \/ Negative \/ Clear \/ TtlWrite
  PROVE  CalmAt(p + 1)'
<1>1. OnScript(p) /\ Stands(p) /\ Holds(p)
  BY DEF CalmAt
<1>2. ASSUME NEW op, NEW result \in BOOLEAN, NEW contents, Working(op, result, contents)
      PROVE  /\ p \in 1..43 /\ Script[p].op = op
             /\ Moves(p, result) /\ db' = contents
             /\ UNCHANGED <<outage, proceed, code>>
             /\ IF Running(p) THEN port = "drill" ELSE port = "nobody"
  <2>1. Doing(op)
    BY <1>2 DEF Working
  <2>2. p \in 1..43 /\ Script[p].op = op /\ within = "call"
    BY <1>1, <2>1, DoingAt
  <2> QED
    BY <1>1, <1>2, <2>1, <2>2, DoingAt DEF Working, Advance, Moves, Stands, worker
<1>3. /\ VerifyItems \subseteq Items /\ Controls \subseteq Items /\ "ttl" \in Items
      /\ "ttl" \notin VerifyItems \cup Controls /\ VerifyItems \cap Tampered = {}
      /\ DOMAIN db = {"drill", "foreign"} /\ DOMAIN db["drill"] = Items
  BY DbType DEF Items, VerifyItems, Controls, Tampered
<1>4. CASE Write
  <2> DEFINE result == Up
             contents == IF Up THEN [db EXCEPT ![port] =
                                       [i \in Items |-> IF i = "ttl" THEN @[i] ELSE "intact"]]
                               ELSE db
  <2>1. Working("write", result, contents) /\ result \in BOOLEAN /\ refs' = result
    BY <1>4 DEF Write, Up
  <2>2. port = "drill" =>
          \A i \in VerifyItems \cup Controls : contents["drill"][i] = "intact"
    BY <1>3 DEF Up
  <2>3. port = "drill" => result
    BY DEF Up
  <2> HIDE DEF result, contents
  <2>4. p \in {4, 28}
    BY <1>2, <2>1, Positions
  <2>5. port = "drill"
    BY <1>2, <2>1, <2>4 DEF Running
  <2>6. Moves(p, result) /\ db' = contents /\ UNCHANGED <<outage, proceed, code>>
    BY <1>2, <2>1
  <2>7. Holds(p + 1)'
    BY <1>1, <2>1, <2>2, <2>3, <2>4, <2>5, <2>6 DEF Holds
  <2>8. p \in 3..34 /\ p \notin Silent
    BY <2>4 DEF Silent
  <2> QED
    BY <2>1, <2>3, <2>5, <2>6, <2>7, <2>8, CalmPhase
<1>5. CASE Negative
  <2> DEFINE result == Up /\ refs /\ \A i \in Controls : db[port][i] = "intact"
             Spoilt(held) == [i \in Items |-> IF i \in Tampered THEN "damaged" ELSE held[i]]
             contents == IF result THEN [db EXCEPT ![port] = Spoilt(@)] ELSE db
  <2>1. Working("negative", result, contents) /\ result \in BOOLEAN /\ refs' = refs
    BY <1>5 DEF Negative
  <2>2. port = "drill" => \A i \in VerifyItems : contents["drill"][i] = db["drill"][i]
    BY <1>3 DEF Up
  <2> HIDE DEF result, contents
  <2>3. p \in {14}
    BY <1>2, <2>1, Positions
  <2>4. port = "drill"
    BY <1>2, <2>1, <2>3 DEF Running
  <2>5. result
    BY <1>1, <2>3, <2>4 DEF result, Holds, Up
  <2>6. Moves(p, result) /\ db' = contents /\ UNCHANGED <<outage, proceed, code>>
    BY <1>2, <2>1
  <2>7. Holds(p + 1)'
    BY <1>1, <2>1, <2>2, <2>3, <2>4, <2>6 DEF Holds
  <2>8. p \in 3..34 /\ p \notin Silent
    BY <2>3 DEF Silent
  <2> QED
    BY <2>1, <2>5, <2>6, <2>7, <2>8, CalmPhase
<1>6. CASE Clear
  <2> DEFINE result == TRUE
             contents == [db EXCEPT !["drill"] = Blank]
  <2>1. Working("clear", result, contents) /\ result \in BOOLEAN /\ result /\ refs' = refs
    BY <1>6 DEF Clear
  <2>2. contents["drill"] = Blank
    BY <1>3
  <2> HIDE DEF result, contents
  <2>3. p \in {25}
    BY <1>2, <2>1, Positions
  <2>4. Moves(p, result) /\ db' = contents /\ UNCHANGED <<outage, proceed, code>>
    BY <1>2, <2>1
  <2>5. Holds(p + 1)'
    BY <1>1, <2>1, <2>2, <2>3, <2>4 DEF Holds
  <2>6. p \in 3..34 /\ p \notin Silent
    BY <2>3 DEF Silent
  <2> QED
    BY <2>1, <2>4, <2>5, <2>6, CalmPhase
<1>7. CASE TtlWrite
  <2> DEFINE result == TRUE
             contents == IF Up THEN [db EXCEPT ![port]["ttl"] = "intact"] ELSE db
  <2>1. Working("ttl_write", result, contents) /\ result \in BOOLEAN /\ result /\ refs' = refs
    BY <1>7 DEF TtlWrite
  <2>2. port = "drill" =>
          /\ contents["drill"]["ttl"] = "intact"
          /\ \A i \in VerifyItems \cup Controls : contents["drill"][i] = db["drill"][i]
    BY <1>3 DEF Up
  <2> HIDE DEF result, contents
  <2>3. p \in {10}
    BY <1>2, <2>1, Positions
  <2>4. port = "drill"
    <3>1. Running(p)
      BY <2>3 DEF Running
    <3> QED
      BY <1>2, <2>1, <3>1
  <2>5. Moves(p, result) /\ db' = contents /\ UNCHANGED <<outage, proceed, code>>
    BY <1>2, <2>1
  <2>6. Holds(p + 1)'
    BY <1>1, <2>1, <2>2, <2>3, <2>4, <2>5 DEF Holds
  <2>7. p \in 3..34 /\ p \notin Silent
    BY <2>3 DEF Silent
  <2> QED
    BY <2>1, <2>5, <2>6, <2>7, CalmPhase
<1> QED
  BY <1>4, <1>5, <1>6, <1>7

\* Each poll finds the expiry record as it waits for it.
LEMMA CalmPoll ==
  ASSUME TypeOK, WitnessInv, trouble = {}, trouble' = {}, NEW p \in 1..44, CalmAt(p),
         NEW op \in DOMAIN Awaited, Poll(op)
  PROVE  CalmAt(p + 1)'
<1>1. OnScript(p) /\ Stands(p) /\ Holds(p)
  BY DEF CalmAt
<1>2. Doing(op) /\ op \in {"poll_found", "poll_expired", "poll_missing"}
  BY DEF Poll, Awaited
<1>3. p \in 1..43 /\ Script[p].op = op /\ within = "call"
  BY <1>1, <1>2, DoingAt
<1>4. /\ op = "poll_found" => p = 11
      /\ op = "poll_expired" => p = 12
      /\ op = "poll_missing" => p = 13
  BY <1>3, Positions
<1>5. p \in 11..13 /\ port = "drill"
  BY <1>1, <1>2, <1>3, <1>4 DEF Stands, Running
<1> DEFINE status == db["drill"]["ttl"]
           result == status \in Awaited[op] \ {"lapsed"}
<1>6. /\ Conclude(result) /\ result \in BOOLEAN /\ status \notin Pending[op]
      /\ status # "lapsed" /\ Advance
      /\ UNCHANGED <<within, refs, code, servers, outage, proceed, epoch, written>>
  BY <1>5 DEF Poll, Up, output, worker
<1>7. status = "intact" \/ p # 11
  BY <1>1, <1>5 DEF Holds
<1>8. result /\ (p = 12 => status = "tombstone")
  <2>1. CASE p = 11
    BY <1>2, <1>4, <1>7, <2>1 DEF Awaited
  <2>2. CASE p = 12
    <3>1. op = "poll_expired" /\ status \in {"intact", "lapsed", "tombstone"}
      BY <1>1, <1>2, <1>4, <2>2 DEF Holds
    <3> QED
      BY <1>6, <2>2, <3>1 DEF Awaited, Pending
  <2>3. CASE p = 13
    <3>1. op = "poll_missing" /\ status \in {"tombstone", "none"}
      BY <1>1, <1>2, <1>4, <2>3 DEF Holds
    <3> QED
      BY <1>6, <2>3, <3>1 DEF Awaited, Pending
  <2> QED
    BY <1>5, <2>1, <2>2, <2>3
<1> HIDE DEF result
<1>9. Moves(p, result)
  BY <1>2, <1>3, <1>6, DoingAt DEF Moves, Advance, servers, Doing
<1>10. Holds(p + 1)'
  BY <1>1, <1>5, <1>6, <1>8 DEF Holds, servers
<1>11. p \in 3..34 /\ p \notin Silent
  BY <1>5 DEF Silent
<1> QED
  BY <1>6, <1>8, <1>9, <1>10, <1>11, CalmPhase

\* The preflight finds an empty Redis.
LEMMA CalmPreflight ==
  ASSUME TypeOK, WitnessInv, trouble = {}, NEW p \in 1..44, CalmAt(p), Preflight
  PROVE  CalmAt(p + 1)'
<1>1. OnScript(p) /\ Stands(p) /\ Holds(p)
  BY DEF CalmAt
<1>2. Doing("preflight")
  BY DEF Preflight
<1>3. p \in 1..43 /\ Script[p].op = "preflight" /\ within = "call"
  BY <1>1, <1>2, DoingAt
<1>4. p = 3
  BY <1>3, Positions
<1>5. port = "drill"
  BY <1>1, <1>3, <1>4 DEF Stands, Running
<1>6. db[port] = Blank
  BY <1>1, <1>4, <1>5 DEF Holds
<1>7. /\ Conclude(TRUE) /\ Advance /\ UNCHANGED <<within, output, code, world>>
  BY <1>6, Zenon DEF Preflight
<1>8. Moves(p, TRUE)
  BY <1>2, <1>3, <1>7 DEF Moves, Advance, Doing, world, servers, around
<1>9. UNCHANGED <<db, refs, outage, proceed, code>>
  BY <1>7 DEF world, servers, worker, output
<1>10. Holds(p + 1)'
  BY <1>1, <1>4, <1>9 DEF Holds
<1>11. p \in 3..34 /\ p \notin Silent
  BY <1>4 DEF Silent
<1> QED
  BY <1>8, <1>10, <1>11, CalmPhase

\* The steps that do nothing to Redis.
LEMMA CalmApart ==
  ASSUME TypeOK, trouble = {}, NEW p \in 1..44, CalmAt(p),
         Construct \/ SpawnOutage \/ Proceed \/ WriteFile \/ WriteSums \/ Remove
  PROVE  CalmAt(p + 1)'
<1>1. OnScript(p) /\ Stands(p) /\ Holds(p) /\ GatesInv(p) /\ Sound
  BY DEF CalmAt
<1>2. ASSUME NEW op \in {"construct", "spawn", "proceed", "file", "sums", "remove"}, Doing(op)
      PROVE  p \in 1..43 /\ todo # << >> /\ Script[p].op = op /\ within = "call"
  BY <1>1, <1>2, DoingAt
<1>3. ASSUME p \in 1..43, p \in {1, 16, 19, 36, 37, 38, 39, 40, 41, 43}, todo # << >>,
             within = "call", Holds(p + 1)', todo' = Tail(todo),
             UNCHANGED <<gating, within, port, child>>
      PROVE  CalmAt(p + 1)'
  <2>1. p \in Silent /\ (Running(p + 1) <=> Running(p))
    BY <1>3 DEF Silent, Running
  <2>2. Stands(p + 1)'
    BY <1>1, <1>3, <2>1 DEF Stands
  <2> QED
    BY <1>3, <2>1, <2>2, CalmSilent
<1>4. CASE Construct
  <2>1. Doing("construct") /\ UNCHANGED <<within, gating, refs, code, world>> /\ todo' = Tail(todo)
    BY <1>4 DEF Construct, Advance
  <2>2. p \in 1..43 /\ todo # << >> /\ Script[p].op = "construct" /\ within = "call"
    BY <1>2, <2>1
  <2>3. p = 1
    BY <2>2, Positions
  <2>4. Holds(p + 1)'
    BY <1>1, <2>1, <2>3 DEF Holds, world, servers, worker
  <2> QED
    BY <1>3, <2>1, <2>2, <2>3, <2>4 DEF world, servers
<1>5. CASE SpawnOutage
  <2>1. /\ Doing("spawn") /\ UNCHANGED <<within, gating, output, code, servers, proceed, around>>
        /\ outage' = "opening" /\ todo' = Tail(todo)
    BY <1>5 DEF SpawnOutage, Advance
  <2>2. p \in 1..43 /\ todo # << >> /\ Script[p].op = "spawn" /\ within = "call"
    BY <1>2, <2>1
  <2>3. p = 16
    BY <2>2, Positions
  <2>4. Holds(p + 1)'
    BY <1>1, <2>1, <2>3 DEF Holds, servers, output
  <2> QED
    BY <1>3, <2>1, <2>2, <2>3, <2>4 DEF servers
<1>6. CASE Proceed
  <2>1. /\ Doing("proceed") /\ UNCHANGED <<within, gating, output, code, servers, outage, around>>
        /\ todo' = Tail(todo)
    BY <1>6 DEF Proceed, Advance
  <2>2. p \in 1..43 /\ todo # << >> /\ Script[p].op = "proceed" /\ within = "call"
    BY <1>2, <2>1
  <2>3. p = 19
    BY <2>2, Positions
  <2>4. Holds(p + 1)'
    BY <1>1, <2>1, <2>3 DEF Holds, servers, output
  <2> QED
    BY <1>3, <2>1, <2>2, <2>3, <2>4 DEF servers
<1>7. CASE WriteFile
  <2>1. /\ Doing("file") /\ UNCHANGED <<within, gating, refs, code, world>> /\ todo' = Tail(todo)
    BY <1>7 DEF WriteFile, Advance
  <2>2. p \in 1..43 /\ todo # << >> /\ Script[p].op = "file" /\ within = "call"
    BY <1>2, <2>1
  <2>3. p \in 36..40
    BY <2>2, Positions
  <2>4. Holds(p + 1)'
    <3>1. UNCHANGED <<db, refs, outage, proceed, code>>
      BY <2>1 DEF world, servers, worker
    <3> QED
      BY <1>1, <2>3, <3>1, HoldsOn
  <2> QED
    BY <1>3, <2>1, <2>2, <2>3, <2>4 DEF world, servers
<1>8. CASE WriteSums
  <2>1. /\ Doing("sums") /\ UNCHANGED <<within, gating, refs, world>> /\ todo' = Tail(todo)
        /\ code' = IF Passed(gates) THEN "zero" ELSE "one"
    BY <1>8 DEF WriteSums, Advance
  <2>2. p \in 1..43 /\ todo # << >> /\ Script[p].op = "sums" /\ within = "call"
    BY <1>2, <2>1
  <2>3. p = 41
    BY <2>2, Positions
  <2>4. Passed(gates)
    <3>1. "preflight" \in PhaseGates /\ "preflight" \in Gates /\ Place("preflight") = 3
      BY PhaseGatesIs DEF GateNames, Gates, Place
    <3>2. gates["preflight"] # "unset" /\ gates["preflight"] # "FAIL"
      BY <1>1, <2>3, <3>1 DEF GatesInv, Sound
    <3>3. gates["preflight"] = "PASS"
      BY <3>1, <3>2 DEF TypeOK
    <3> QED
      BY <1>1, <3>1, <3>3 DEF Passed, Sound
  <2>5. Holds(p + 1)'
    BY <1>1, <2>1, <2>3, <2>4 DEF Holds, world, servers, worker
  <2> QED
    BY <1>3, <2>1, <2>2, <2>3, <2>5 DEF world, servers
<1>9. CASE Remove
  <2>1. /\ Doing("remove") /\ todo' = Tail(todo)
        /\ UNCHANGED <<within, gating, refs, code, port, child, worker>>
    BY <1>9 DEF Remove, Advance
  <2>2. p \in 1..43 /\ todo # << >> /\ Script[p].op = "remove" /\ within = "call"
    BY <1>2, <2>1
  <2>3. p = 43
    BY <2>2, Positions
  <2>4. Holds(p + 1)'
    BY <1>1, <2>1, <2>3 DEF Holds, worker
  <2> QED
    BY <1>3, <2>1, <2>2, <2>3, <2>4
<1> QED
  BY <1>4, <1>5, <1>6, <1>7, <1>8, <1>9

\* The drill's Redis starts and stops when it is told to.
LEMMA CalmServer ==
  ASSUME TypeOK, ScriptInv, trouble = {}, NEW p \in 1..44, CalmAt(p),
         Spawn \/ Answered \/ Shutdown \/ Reap \/ Bind
  PROVE  CalmAt(p)' \/ CalmAt(p + 1)'
<1>1. OnScript(p) /\ Stands(p) /\ Holds(p)
  BY DEF CalmAt
<1>2. ASSUME UNCHANGED <<db, refs, outage, proceed, code>> PROVE Holds(p)'
  BY <1>1, <1>2 DEF Holds
<1>3. ASSUME NEW q \in 1..43, q = p, q \in Silent, q \notin {16, 41},
             UNCHANGED <<db, refs, outage, proceed, code>>
      PROVE  Holds(p + 1)'
  <2>1. p \in 1..43 /\ p \notin {4, 10, 12, 16, 17, 25, 28, 41}
    BY <1>3 DEF Silent
  <2> QED
    BY <1>1, <1>3, <2>1, HoldsOn
<1>4. CASE Spawn
  <2>1. /\ Doing("start") /\ child' = "alive" /\ within' = "ping" /\ todo' = todo
        /\ port' = port /\ UNCHANGED gating
        /\ UNCHANGED <<db, refs, outage, proceed, code>>
    BY <1>4 DEF Spawn, output, worker
  <2>2. Stands(p)'
    BY <1>1, <2>1 DEF Stands
  <2> QED
    BY <1>2, <2>1, <2>2, CalmStay
<1>5. CASE Answered
  <2>1. /\ todo # << >> /\ Head(todo).op = "start" /\ within = "ping"
        /\ within' = "call" /\ todo' = Tail(todo) /\ UNCHANGED gating
        /\ port # "nobody" /\ port' = port /\ child' = child
        /\ UNCHANGED <<db, refs, outage, proceed, code>>
    BY <1>5 DEF Answered, ScriptInv, Advance, Up, world, servers, worker, output
  <2>2. p \in 1..43 /\ Head(todo) = Script[p]
    BY <1>1, <2>1, NextOnScript
  <2>3. Script[p].op = "start"
    BY <2>1, <2>2
  <2>4. p \in {2, 7, 22, 26, 31}
    BY <2>2, <2>3, Positions
  <2>5. p \in Silent /\ p \notin {16, 41} /\ Running(p + 1)
    BY <2>4 DEF Silent, Running
  <2>6. port = "drill"
    BY <1>1, <2>1 DEF Stands, TypeOK
  <2>7. Stands(p + 1)'
    BY <2>1, <2>5, <2>6 DEF Stands
  <2>8. Holds(p + 1)'
    BY <1>3, <2>1, <2>2, <2>5
  <2> QED
    BY <2>1, <2>2, <2>5, <2>7, <2>8, CalmSilent
<1>6. CASE Shutdown
  <2>1. Doing("stop") /\ UNCHANGED gating /\ UNCHANGED <<db, refs, outage, proceed, code>>
    BY <1>6 DEF Shutdown, output, worker
  <2>2. p \in 1..43 /\ todo # << >> /\ Script[p].op = "stop" /\ within = "call"
    BY <1>1, <2>1, DoingAt
  <2>3. p \in {6, 18, 24, 30, 35, 42}
    BY <2>2, Positions
  <2>4. CASE child = "none"
    <3>1. todo' = Tail(todo) /\ UNCHANGED <<within, port, child>>
      BY <1>6, <2>4 DEF Shutdown, Advance
    <3>2. port # "drill"
      BY <2>4 DEF TypeOK
    <3>3. ~Running(p)
      BY <1>1, <2>2, <3>2 DEF Stands
    <3>4. p = 42
      BY <2>3, <3>3 DEF Running
    <3>5. p \in Silent /\ p \notin {16, 41} /\ ~Running(p + 1)
      BY <3>4 DEF Silent, Running
    <3>6. Stands(p + 1)'
      BY <1>1, <2>2, <3>1, <3>3, <3>5 DEF Stands
    <3>7. Holds(p + 1)'
      BY <1>3, <2>1, <2>2, <3>5
    <3> QED
      BY <2>1, <2>2, <3>1, <3>5, <3>6, <3>7, CalmSilent
  <2>5. CASE child # "none"
    <3>1. /\ within' = "wait" /\ port' = "nobody" /\ todo' = todo
          /\ child' = (IF port = "drill" THEN "dead" ELSE child)
      BY <1>6, <2>5 DEF Shutdown
    <3>2. port = "drill"
      BY <1>1, <2>2, <2>5 DEF Stands
    <3>3. Stands(p)'
      BY <3>1, <3>2 DEF Stands
    <3> QED
      BY <1>2, <2>1, <3>1, <3>3, CalmStay
  <2> QED
    BY <2>4, <2>5
<1>7. CASE Reap
  <2>1. /\ todo # << >> /\ Head(todo).op = "stop" /\ within = "wait"
        /\ within' = "call" /\ todo' = Tail(todo) /\ UNCHANGED gating
        /\ child' = "none" /\ port' = (IF port = "drill" THEN "nobody" ELSE port)
        /\ UNCHANGED <<db, refs, outage, proceed, code>>
    BY <1>7 DEF Reap, ScriptInv, Advance, output, worker
  <2>2. p \in 1..43 /\ Head(todo) = Script[p]
    BY <1>1, <2>1, NextOnScript
  <2>3. Script[p].op = "stop"
    BY <2>1, <2>2
  <2>4. p \in {6, 18, 24, 30, 35, 42}
    BY <2>2, <2>3, Positions
  <2>5. p \in Silent /\ p \notin {16, 41} /\ ~Running(p + 1)
    BY <2>4 DEF Silent, Running
  <2>6. Stands(p + 1)'
    BY <1>1, <2>1, <2>5 DEF Stands
  <2>7. Holds(p + 1)'
    BY <1>3, <2>1, <2>2, <2>5
  <2> QED
    BY <2>1, <2>2, <2>5, <2>6, <2>7, CalmSilent
<1>8. CASE Bind
  <2>1. /\ child = "alive" /\ port = "nobody" /\ port' = "drill"
        /\ UNCHANGED <<todo, within, child>>
        /\ UNCHANGED gating /\ UNCHANGED <<db, refs, outage, proceed, code>>
    BY <1>8 DEF Bind, script, output, worker
  <2>2. within = "ping"
    BY <1>1, <2>1 DEF Stands, TypeOK
  <2>3. Stands(p)'
    BY <2>1, <2>2 DEF Stands
  <2> QED
    BY <1>2, <2>1, <2>3, CalmStay
<1> QED
  BY <1>4, <1>5, <1>6, <1>7, <1>8

\* Time passes for the expiry record, and the worker of the outage phase works,
\* while the coordinator waits for them.
LEMMA CalmWaiting ==
  ASSUME TypeOK, ScriptInv, trouble = {}, NEW p \in 1..44, CalmAt(p),
         \/ \E s \in DOMAIN db : TtlPasses(s)
         \/ OutageOpens \/ OutageReads \/ Return \/ UNCHANGED vars
  PROVE  CalmAt(p)'
<1>1. OnScript(p) /\ Stands(p) /\ Holds(p)
  BY DEF CalmAt
<1>2. /\ UNCHANGED <<todo, within, port, child, refs, proceed, code>> /\ UNCHANGED gating
  BY DEF TtlPasses, OutageOpens, OutageReads, Return, vars, script, output, servers, worker,
         world
<1>3. Stands(p)'
  BY <1>1, <1>2 DEF Stands
<1> SUFFICES Holds(p)'
  BY <1>2, <1>3, CalmStay
<1>4. ASSUME NEW s \in DOMAIN db, TtlPasses(s) PROVE Holds(p)'
  <2>1. PICK now \in {"intact", "lapsed", "tombstone"} :
          /\ db[s]["ttl"] = now
          /\ (Doing("poll_expired") /\ now # "tombstone") \/ Doing("poll_missing")
          /\ db' = [db EXCEPT ![s]["ttl"] = CASE now = "intact"    -> "lapsed"
                                               [] now = "lapsed"    -> "tombstone"
                                               [] now = "tombstone" -> "none"]
    BY <1>4 DEF TtlPasses
  <2>2. outage' = outage
    BY <1>4 DEF TtlPasses, worker
  <2>3. Doing("poll_expired") => p = 12
    BY <1>1, DoingAt, Positions
  <2>4. Doing("poll_missing") => p = 13
    BY <1>1, DoingAt, Positions
  <2>5. /\ s \in {"drill", "foreign"} /\ "drill" \in DOMAIN db
        /\ DOMAIN db["drill"] = Items /\ "ttl" \in Items
        /\ "ttl" \notin VerifyItems \cup Controls
        /\ VerifyItems \cup Controls \subseteq Items
    BY DbType DEF Items, VerifyItems, Controls
  <2>6. \A i \in VerifyItems \cup Controls : db'["drill"][i] = db["drill"][i]
    BY <2>1, <2>5
  <2>7. s # "drill" => db'["drill"] = db["drill"]
    BY <2>1, <2>5
  <2>8. /\ p = 12 => db'["drill"]["ttl"] \in {"intact", "lapsed", "tombstone"}
        /\ p = 13 => db'["drill"]["ttl"] \in {"tombstone", "none"}
    <3>1. CASE s # "drill"
      BY <1>1, <2>7, <3>1 DEF Holds
    <3>2. CASE s = "drill"
      <4>1. db'["drill"]["ttl"] = CASE now = "intact"    -> "lapsed"
                                    [] now = "lapsed"    -> "tombstone"
                                    [] now = "tombstone" -> "none"
        BY <2>1, <2>5, <3>2
      <4>2. p = 12 => now \in {"intact", "lapsed"}
        BY <2>1, <2>4
      <4>3. p = 13 => now = "tombstone"
        BY <1>1, <2>1, <3>2 DEF Holds
      <4> QED
        BY <4>1, <4>2, <4>3
    <3> QED
      BY <3>1, <3>2
  <2>9. p \in {12, 13}
    BY <2>1, <2>3, <2>4
  <2> QED
    BY <1>1, <1>2, <2>2, <2>6, <2>8, <2>9 DEF Holds
<1>5. CASE OutageOpens
  <2>1. outage = "opening" /\ outage' = (IF Up THEN "ready" ELSE "failed") /\ db' = db
    BY <1>5 DEF OutageOpens, servers
  <2>2. p = 17 => Up
    <3> SUFFICES ASSUME p = 17 PROVE port = "drill"
      BY DEF Up
    <3>1. within = "call"
      BY <1>1, CalmCall
    <3> QED
      BY <1>1, <3>1 DEF Stands, Running
  <2> QED
    BY <1>1, <1>2, <2>1, <2>2 DEF Holds
<1>6. CASE OutageReads
  <2>1. /\ outage = "ready" /\ proceed /\ outage' = (IF ~Up /\ refs THEN "unhealthy" ELSE "failed")
        /\ db' = db
    BY <1>6 DEF OutageReads, servers
  <2>2. p > 19
    BY <1>1, <2>1 DEF Holds
  <2>3. p = 20 => ~Up /\ refs
    <3> SUFFICES ASSUME p = 20 PROVE port = "nobody" /\ refs
      BY DEF Up
    <3>1. within = "call"
      BY <1>1, CalmCall
    <3> QED
      BY <1>1, <3>1 DEF Stands, Running, Holds
  <2> QED
    BY <1>1, <1>2, <2>1, <2>2, <2>3 DEF Holds
<1>7. CASE Return \/ UNCHANGED vars
  <2>1. db' = db /\ outage' = outage
    BY <1>7 DEF Return, vars, world, servers, worker
  <2> QED
    BY <1>1, <1>2, <2>1 DEF Holds
<1> QED
  BY <1>4, <1>5, <1>6, <1>7

\* Nothing raises then, and nobody takes the port.
LEMMA CalmNever ==
  ASSUME TypeOK, ScriptInv, trouble = {}, NEW p \in 1..44, CalmAt(p)
  PROVE  /\ ~StartRaises /\ ~StopRaises /\ ~ClientRaises /\ ~CollectRaises /\ ~BindFails
         /\ ~Unhandled
<1>1. OnScript(p) /\ Stands(p)
  BY DEF CalmAt
<1>2. ~StartRaises /\ ~StopRaises /\ ~CollectRaises /\ ~BindFails
  BY <1>1 DEF Stands, StartRaises, NoAnswer, StopRaises, CollectRaises, BindFails
<1>3. ~ClientRaises
  <2> SUFFICES ASSUME NEW op \in {"preflight", "clean"}, Doing(op) PROVE port = "drill"
    BY DEF ClientRaises, Up
  <2>1. p \in 1..43 /\ Script[p].op = op /\ within = "call"
    BY <1>1, DoingAt
  <2>2. p \in {3, 27}
    BY <2>1, Positions
  <2>3. Running(p)
    BY <2>2 DEF Running
  <2> QED
    BY <1>1, <2>1, <2>3 DEF Stands
<1>4. ~Unhandled
  <2>1. Doing("unhandled") => p \in 1..43 /\ Script[p].op = "unhandled"
    BY <1>1, DoingAt
  <2> QED
    BY <2>1, Positions DEF Unhandled
<1> QED
  BY <1>2, <1>3, <1>4

\* A drill that has met no trouble either goes on without, or meets some.
LEMMA CalmStep ==
  ASSUME TypeOK, ScriptInv, WitnessInv, CalmInv, [Next]_vars
  PROVE  CalmInv'
<1> SUFFICES ASSUME trouble' = {} PROVE \E q \in 1..44 : CalmAt(q)'
  BY DEF CalmInv
<1>1. /\ ~SlowsDown /\ ~ServerDies /\ ~ServerHangs /\ ~ForeignAppears /\ ~ConstructRaises
      /\ ~FileFails /\ ~Killed /\ \A s : ~StateExpires(s)
  BY DEF SlowsDown, ServerDies, ServerHangs, ForeignAppears, ConstructRaises, FileFails,
         Killed, StateExpires, Trouble
<1>2. trouble = {}
  <2>1. trouble \subseteq trouble'
    <3>1. CASE Concluding \/ Raising \/ ReturnsEarly
      BY <3>1 DEF Concluding, Raising, ReturnsEarly
    <3>2. CASE Idling
      BY <3>2 DEF Idling
    <3>3. CASE Construct \/ ConstructRaises \/ Spawn \/ Answered \/ Shutdown \/ Reap
      BY <3>3 DEF Construct, ConstructRaises, Spawn, Answered, Shutdown, Reap, Trouble,
                  world, around
    <3>4. CASE WriteFile \/ WriteSums \/ Remove \/ Return
      BY <3>4 DEF WriteFile, WriteSums, Remove, Return, world, around
    <3> QED
      BY <3>1, <3>2, <3>3, <3>4, StepKinds
  <2> QED
    BY <2>1
<1>3. PICK p \in 1..44 : CalmAt(p)
  BY <1>2 DEF CalmInv
<1>4. CalmAt(p + 1)' => \E q \in 1..44 : CalmAt(q)'
  <2> SUFFICES ASSUME CalmAt(p + 1)' PROVE \E q \in 1..44 : CalmAt(q)'
    OBVIOUS
  <2>1. todo' \in Seq(AllSteps) /\ Len(todo') = 44 - (p + 1)
    BY DEF CalmAt, OnScript
  <2>2. p + 1 \in 1..44
    BY <2>1, LenProperties
  <2> QED
    BY <2>2
<1>5. CASE Clean \/ Isolation \/ Privacy \/ Cost \/ Await \/ Collect \/ Startup \/ Verify
  BY <1>2, <1>3, <1>4, <1>5, CalmLooking
<1>6. CASE Write \/ Negative \/ Clear \/ TtlWrite
  BY <1>2, <1>3, <1>4, <1>6, CalmWriting
<1>7. CASE \E op \in DOMAIN Awaited : Poll(op)
  BY <1>2, <1>3, <1>4, <1>7, CalmPoll
<1>8. CASE Preflight
  BY <1>2, <1>3, <1>4, <1>8, CalmPreflight
<1>9. CASE Construct \/ SpawnOutage \/ Proceed \/ WriteFile \/ WriteSums \/ Remove
  BY <1>2, <1>3, <1>4, <1>9, CalmApart
<1>10. CASE Spawn \/ Answered \/ Shutdown \/ Reap \/ Bind
  BY <1>2, <1>3, <1>4, <1>10, CalmServer
<1>11. CASE \/ \E s \in DOMAIN db : TtlPasses(s)
            \/ OutageOpens \/ OutageReads \/ Return \/ UNCHANGED vars
  BY <1>2, <1>3, <1>11, CalmWaiting
<1>12. /\ ~StartRaises /\ ~StopRaises /\ ~ClientRaises /\ ~CollectRaises /\ ~BindFails
       /\ ~Unhandled
  BY <1>2, <1>3, CalmNever
<1> QED
  BY <1>1, <1>5, <1>6, <1>7, <1>8, <1>9, <1>10, <1>11, <1>12 DEF Next, Proceeds

\* So it begins.
LEMMA CalmInitial == Init => CalmInv
<1> SUFFICES ASSUME Init PROVE CalmAt(1)
  BY DEF CalmInv
<1>1. OnScript(1)
  BY ScriptIs DEF Init, OnScript
<1>2. GatesInv(1)
  BY PlacesAre, PhaseGatesIs DEF Init, GatesInv, Gates
<1>3. Sound /\ Stands(1) /\ Holds(1)
  BY DEF Init, Sound, Stands, Running, Holds
<1> QED
  BY <1>1, <1>2, <1>3 DEF CalmAt

\* A drill fails only when something around it went wrong: the phases never
\* spoil one another, although each works on what the phases before it left in
\* Redis (redis_drill.py:353-460).
THEOREM FailureHasCause == Spec => []FailsOnlyInTrouble
<1>1. IInv /\ CalmInv => FailsOnlyInTrouble
  <2> SUFFICES ASSUME IInv, CalmInv, exit = "one", trouble = {} PROVE FALSE
    BY DEF FailsOnlyInTrouble
  <2>1. PICK p \in 1..44 : CalmAt(p)
    BY DEF CalmInv
  <2>2. todo = << >> /\ code = "one"
    BY DEF IInv, ExitInv
  <2>3. p = 44
    BY <2>1, <2>2, NextOnScript DEF CalmAt
  <2> QED
    BY <2>1, <2>2, <2>3 DEF CalmAt, Holds
<1>2. Init => IInv /\ EarnedInv /\ CalmInv
  BY Initial, EarnedInitial, CalmInitial
<1>3. IInv /\ EarnedInv /\ CalmInv /\ [Next]_vars => (IInv /\ EarnedInv /\ CalmInv)'
  BY Inductive, EarnedStep, CalmStep DEF IInv, EarnedInv
<1> QED
  BY <1>1, <1>2, <1>3, PTL DEF Spec
=============================================================================
