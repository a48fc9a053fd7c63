---------------------------- MODULE StatsEndpoint ----------------------------
(***************************************************************************)
(* GET /contextops/stats beside the working proxy: the handler snapshots   *)
(* the counters, then the gate, then the storage's health, each under its  *)
(* own lock, while the workers go on.  Only the part of the snapshots that *)
(* relates the two sections is kept.                                       *)
(***************************************************************************)
EXTENDS SafeProxy, Sequences

VARIABLES
  report,  \* the sections read so far by the request in progress
  asked    \* a stats request is in progress

statsVars == <<report, asked>>
allVars == <<vars, statsVars>>

\* Mutant: the gate is read before the counters.
GateFirst == <<"eligibility", "telemetry", "context_store">>

\* The order of the reads in safety_stats.
SectionOrder == <<"telemetry", "eligibility", "context_store">>

\* What one locked read sees: that budget bypasses were counted, that the
\* gate has observed the budget exceeded, that the store is healthy.
Section(s) == [section |-> s,
               claim   |-> CASE s = "telemetry"     -> tel["overbudget"] > 0
                             [] s = "eligibility"   -> BudgetObserved
                             [] s = "context_store" -> storeUp]

AskStats ==
  /\ ~asked
  /\ asked' = TRUE
  /\ report' = <<>>
  /\ UNCHANGED vars

ReadSection ==
  /\ asked
  /\ Len(report) < Len(SectionOrder)
  /\ report' = Append(report, Section(SectionOrder[Len(report) + 1]))
  /\ UNCHANGED <<vars, asked>>

ReturnStats ==
  /\ asked
  /\ Len(report) = Len(SectionOrder)
  /\ asked' = FALSE
  /\ UNCHANGED <<vars, report>>

\* A restart takes the request in progress with it.
ProxyStep ==
  \/ Next /\ ~Restart /\ UNCHANGED statsVars
  \/ Restart /\ asked' = FALSE /\ report' = <<>>

StatsInit == Init /\ report = <<>> /\ asked = FALSE

StatsNext == AskStats \/ ReadSection \/ ReturnStats \/ ProxyStep

StatsSpec == StatsInit /\ [][StatsNext]_allVars
-----------------------------------------------------------------------------
\* A report that counts bypasses for an exceeded budget also shows the gate
\* that exceeded it, although the two are read at different times while the
\* workers change both (safe_proxy.py:398-402).
ReportExplainsBypasses ==
  \A i, j \in DOMAIN report :
    (/\ report[i].section = "telemetry" /\ report[i].claim
     /\ report[j].section = "eligibility") => report[j].claim
=============================================================================
