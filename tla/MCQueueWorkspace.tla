---- MODULE MCQueueWorkspace ----
(* A small workspace: three tasks in one queue, none in the other, two rows to a page. Each   *)
(* scenario gives the user and the workers what one question needs.                           *)
EXTENDS QueueWorkspace
MCHome    == <<"a", "a", "a">>
MCGroupOf == <<"g", "g", "h">>
MCVerbs   == [retry |-> {"ARCHIVE"}, completed |-> {"DELETE"}, aggregating |-> {"DELETE"}]

Scenario(list, where, visits, acts, changes) ==
  [queue |-> "a", list |-> list, srv |-> where,
   left |-> [visits |-> visits, acts |-> acts, changes |-> changes]]
MCScenarios ==
  {\* a batch, another queue, a second batch
   Scenario("retry", <<"retry", "archived", "archived">>, 1, 2, 0),
   \* leaving for good, or coming back
   Scenario("retry", <<"retry", "archived", "archived">>, 2, 1, 0),
   \* two verbs on two rows, and a worker in between: a batch that fails in part
   Scenario("retry", <<"retry", "retry", "archived">>, 0, 2, 0),
   Scenario("retry", <<"retry", "retry", "archived">>, 0, 1, 1),
   \* two pages
   Scenario("retry", <<"retry", "retry", "retry">>, 1, 0, 1),
   \* completed tasks
   Scenario("retry", <<"completed", "completed", "archived">>, 1, 1, 0),
   \* two groups
   Scenario("aggregating", <<"aggregating", "archived", "aggregating">>, 1, 1, 0)}
====
