--------------------------- MODULE SafetyBoundary ---------------------------
(***************************************************************************)
(* What the safe proxy promises for every segment it is asked to compress, *)
(* whatever its cache, its admission gate, its model and its storage do.   *)
(* A segment in flight is either answered once, with its own exact bytes   *)
(* or with a transformation of that segment, made for that query, that the *)
(* validator accepts; or it is dropped (an exception, a restart) and       *)
(* nothing is forwarded for it.                                            *)
(***************************************************************************)
CONSTANTS
  Workers,   \* threads that serve segments
  Contents,  \* segments, as their exact bytes
  Queries,   \* queries a segment can be compressed for
  Exact,     \* the answer "the segment's own bytes"
  None       \* no answer

VARIABLES
  inflight,  \* inflight[w]: w is working on a segment
  request,   \* request[w]: the segment and the query w was last given
  answer     \* answer[w]: what w forwarded for it, or None

bvars == <<inflight, request, answer>>

Requests == [content : Contents, query : Queries]

\* Every transformation: of which segment, for which query, and whether the
\* validator accepts it.
Outputs == [content : Contents, query : Queries, sound : BOOLEAN]

\* What may be forwarded for a request.
Allowed(r) ==
  {Exact} \cup {o \in Outputs : /\ o.content = r.content
                                /\ o.query = r.query
                                /\ o.sound}

Init ==
  /\ inflight = [w \in Workers |-> FALSE]
  /\ request \in [Workers -> Requests]
  /\ answer = [w \in Workers |-> None]

Accept(w) ==
  /\ ~inflight[w]
  /\ inflight' = [inflight EXCEPT ![w] = TRUE]
  /\ \E r \in Requests : request' = [request EXCEPT ![w] = r]
  /\ answer' = [answer EXCEPT ![w] = None]

Forward(w) ==
  /\ inflight[w]
  /\ inflight' = [inflight EXCEPT ![w] = FALSE]
  /\ \E a \in Allowed(request[w]) : answer' = [answer EXCEPT ![w] = a]
  /\ UNCHANGED request

\* One segment fails on its own; a restart drops all of them at once.
Drop(W) ==
  /\ W # {}
  /\ \A w \in W : inflight[w]
  /\ inflight' = [w \in Workers |-> inflight[w] /\ w \notin W]
  /\ UNCHANGED <<request, answer>>

Next ==
  \/ \E w \in Workers : Accept(w) \/ Forward(w)
  \/ \E W \in SUBSET Workers : Drop(W)

Spec == Init /\ [][Next]_bvars
=============================================================================
