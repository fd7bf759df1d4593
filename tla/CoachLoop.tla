----------------------------- MODULE CoachLoop ------------------------------
(***************************************************************************)
(* Practice loops: a baseline and the unassisted retries that point to it  *)
(* (cloudflare/public/coach-loop.js).  Ids are positive integers in the    *)
(* order the attempts were made; 0 stands for null.                        *)
(***************************************************************************)
EXTENDS Integers, FiniteSets

\* A summary as the loops see it, and the loop state a practice carries.
Standalone == [role |-> "standalone", loop |-> 0, base |-> 0]
\* createPracticeLoop, with the attempt that starts it for an id.
NewLoop(id) == [role |-> "baseline", loop |-> id, base |-> 0]

\* relationshipForSummary: with no loop state the attempt stands alone.
Relationship(state, id) ==
  CASE state.role = "standalone" -> Standalone
    [] state.role = "baseline"   -> [state EXCEPT !.base = id]
    [] state.role = "retry"      -> state

\* normalizeAttemptRelationship
ValidRelationship(id, summary) ==
  \/ summary.role = "standalone" /\ summary.loop = 0 /\ summary.base = 0
  \/ summary.role = "baseline" /\ summary.loop # 0 /\ summary.base = id
  \/ summary.role = "retry" /\ summary.loop # 0 /\ summary.base \notin {0, id}

\* createRetryState, of a valid baseline.
RetryOf(id, summary) == [role |-> "retry", loop |-> summary.loop, base |-> id]

\* groupPracticeLoops, given a history as a function of ids: the oldest baseline
\* of a loop is its baseline, and a retry goes with the one it points to, if the
\* two have the same setup (validateComparablePair).
BaselinesOf(history) ==
  {b \in DOMAIN history :
     /\ ValidRelationship(b, history[b]) /\ history[b].role = "baseline"
     /\ \A c \in DOMAIN history :
          (history[c].role = "baseline" /\ history[c].loop = history[b].loop) => b <= c}

Pairs(history) ==
  {p \in BaselinesOf(history) \X DOMAIN history :
     LET baseline == history[p[1]]
         retry    == history[p[2]]
     IN  /\ ValidRelationship(p[2], retry) /\ retry.role = "retry"
         /\ retry.loop = baseline.loop /\ retry.base = p[1]
         /\ retry.goal = baseline.goal}
=============================================================================
