------------------------------ MODULE MCCoachPage ------------------------------
(* What the behaviours of the run may do: two attempts with pages that change in  *)
(* between, a loop and its history, the database with time and other tabs.        *)
EXTENDS CoachPageProperties

Form(format, goal, keep, words, sync) ==
  [format |-> format, goal |-> goal, keep |-> keep, words |-> words, sync |-> sync]
Plain == Form("loop", 1, FALSE, FALSE, FALSE)
Full == Form("loop", 1, TRUE, TRUE, TRUE)
Other == Form("loop", 2, FALSE, TRUE, TRUE)

Nothing ==
  [forms |-> {}, starts |-> 0, routes |-> 0, fails |-> 0, retries |-> 0, commands |-> 0,
   others |-> 0, days |-> 0, setbacks |-> 0, old |-> FALSE]

Pages == [Nothing EXCEPT !.forms = {Plain, Full}, !.starts = 2, !.routes = 2]
Faults == [Nothing EXCEPT !.forms = {Plain, Full}, !.starts = 2, !.routes = 1, !.fails = 1, !.retries = 1]
History == [Nothing EXCEPT !.forms = {Plain, Other}, !.starts = 2, !.routes = 2, !.commands = 1]
Database == [Nothing EXCEPT !.routes = 1, !.commands = 1, !.others = 2,
                            !.days = 2, !.setbacks = 1, !.old = TRUE]
AllScopes == {Pages, Faults, History, Database}

Bytes == {1, 2}

\* One session of version 2 with any state of its artifact, summary and row.
Rows == {Row(1, 0, FALSE), Row(1, 1, TRUE), Row(3, 1, TRUE), Row(1, 9, FALSE)}
Stores2(values) == {<<>>} \cup {100 :> v : v \in values}
SomeOldDbs ==
  {[version |-> 2, summaries |-> s, artifacts |-> a, lifecycle |-> l] :
     s \in Stores2({[Summary(Standalone, 1) EXCEPT !.claims = c] : c \in BOOLEAN}),
     a \in Stores2({0, 1, 3}), l \in Stores2(Rows)}
=============================================================================
