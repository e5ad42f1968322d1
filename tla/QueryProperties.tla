--------------------------- MODULE QueryProperties ---------------------------
(***************************************************************************)
(* What cbs.h promises of the questions it asks pkg-config.                *)
(***************************************************************************)
EXTENDS Query

\* pcquery adds all the words of an answer or none: the whole answer of a pkg-config
\* that ended well, however it came through the pipe, and nothing of one that failed
\* or was killed in the middle of it.
AnswerWhole ==
  [][vec' # vec /\ qpc' = "ask" => status = 0 /\ vec' = vec \o wordexp(said)]_vars_query

\* A question ends, also when nobody kills the child: make neither reads for ever from a
\* pipe whose writing end is its own, nor waits for a child that waits for room in the
\* pipe; and no child is left behind.
QueryEnds == qpc = "close" ~> (qpc \in {"ask", "dead"} /\ cpc = "none")
=============================================================================
