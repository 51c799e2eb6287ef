---- MODULE TaskReducers ----
(* The redux store of the queue workspace: the actions its thunks dispatch and the reducers  *)
(* that answer them (ui/src/actions/tasksActions.ts, ui/src/reducers). A reducer is a pure   *)
(* operator from a slice and an action to a slice; QueueWorkspace dispatches to them.        *)
(* Tasks are shown without order; wording, timestamps and payloads are left out.             *)
EXTENDS Integers, FiniteSets

CONSTANTS Queues, Tasks, Groups,
          NoGroup   \* the group of a list that has none, and of an aggregating slice not listed yet

Lists  == {"active", "pending", "scheduled", "retry", "archived", "completed", "aggregating"}
Phases == {"BEGIN", "SUCCESS", "ERROR"}

---------------------------------------------------------------------------------------------
(* Calls of api.ts. What their answers carry differs: nothing, the ids the server acted on, or *)
(* a number.                                                                                  *)
Carries(scope, counts) ==
  CASE scope = "one" -> "none" [] scope = "batch" -> "ids" [] counts -> "count" [] OTHER -> "none"
ActiveCalls(scope)          == Carries(scope, FALSE)
PendingCalls(verb, scope)   == Carries(scope, verb = "DELETE")
ScheduledCalls(verb, scope) == Carries(scope, verb = "DELETE")
RetryCalls(verb, scope)     == Carries(scope, verb = "DELETE")
ArchivedCalls(verb, scope)  == Carries(scope, verb = "DELETE")
CompletedCalls(scope)       == Carries(scope, TRUE)
\* For a group the server counts what it moved, whatever the verb.
AggregatingCalls(scope)     == Carries(scope, TRUE)
CarriedBy(verb, scope, list) ==
  CASE list = "active"      -> ActiveCalls(scope)
    [] list = "pending"     -> PendingCalls(verb, scope)
    [] list = "scheduled"   -> ScheduledCalls(verb, scope)
    [] list = "retry"       -> RetryCalls(verb, scope)
    [] list = "archived"    -> ArchivedCalls(verb, scope)
    [] list = "completed"   -> CompletedCalls(scope)
    [] list = "aggregating" -> AggregatingCalls(scope)

---------------------------------------------------------------------------------------------
(* Thunks: what can be dispatched. Each dispatches BEGIN, awaits its call and dispatches      *)
(* SUCCESS or ERROR.                                                                          *)
Thunk(verb, scope, list) == [verb |-> verb, scope |-> scope, list |-> list]
Each(verbs, scope, list) == {Thunk(v, scope, list) : v \in verbs}

CancelThunks == {Thunk("CANCEL", scope, "active") : scope \in {"one", "batch", "all"}}
SingleThunks ==
  {Thunk("RUN", "one", l) : l \in {"scheduled", "retry", "archived"}}
    \cup {Thunk("ARCHIVE", "one", l) : l \in {"pending", "scheduled", "retry"}}
PendingThunks ==
  {Thunk("DELETE", "one", "pending")} \cup Each({"DELETE", "ARCHIVE"}, "batch", "pending")
ScheduledThunks ==
  {Thunk("DELETE", "one", "scheduled")} \cup Each({"DELETE", "RUN", "ARCHIVE"}, "batch", "scheduled")
AggregatingThunks ==
  Each({"DELETE", "RUN", "ARCHIVE"}, "one", "aggregating")
    \cup Each({"DELETE", "RUN", "ARCHIVE"}, "batch", "aggregating")
WholeListThunks ==
  Each({"DELETE", "ARCHIVE"}, "all", "pending") \cup Each({"DELETE", "RUN", "ARCHIVE"}, "all", "scheduled")
WholeGroupThunks == Each({"DELETE", "RUN", "ARCHIVE"}, "all", "aggregating")
RetryThunks ==
  {Thunk("DELETE", "one", "retry")} \cup Each({"DELETE", "RUN", "ARCHIVE"}, "batch", "retry")
WholeRetryThunks == Each({"DELETE", "RUN", "ARCHIVE"}, "all", "retry")
ArchivedThunks ==
  {Thunk("DELETE", "one", "archived")} \cup Each({"DELETE", "RUN"}, "batch", "archived")
    \cup Each({"DELETE", "RUN"}, "all", "archived")
CompletedThunks == {Thunk("DELETE", scope, "completed") : scope \in {"one", "batch", "all"}}
Thunks ==
  UNION {CancelThunks, SingleThunks, PendingThunks, ScheduledThunks, AggregatingThunks,
         WholeListThunks, WholeGroupThunks, RetryThunks, WholeRetryThunks, ArchivedThunks,
         CompletedThunks}

---------------------------------------------------------------------------------------------
(* Actions: the messages of the thunks, list by list.                                         *)
Mutations(l, verbs) ==
  [verb: verbs, scope: {"one", "batch", "all"}, list: {l}, phase: Phases, queue: Queues,
   group: IF l = "aggregating" THEN Groups ELSE {NoGroup},
   ids: SUBSET Tasks, done: SUBSET Tasks, count: 0..Cardinality(Tasks), rows: {{}}]

ListActions ==
  [verb: {"LIST"}, scope: {"all"}, list: Lists, phase: Phases, queue: Queues,
   group: Groups \cup {NoGroup}, ids: {{}}, done: {{}}, count: {0}, rows: SUBSET Tasks]
ActiveActions      == Mutations("active", {"CANCEL"})
PendingActions     == Mutations("pending", {"DELETE", "ARCHIVE"})
ScheduledActions   == Mutations("scheduled", {"DELETE", "RUN", "ARCHIVE"})
RetryActions       == Mutations("retry", {"DELETE", "RUN", "ARCHIVE"})
ArchivedActions    == Mutations("archived", {"DELETE", "RUN"})
CompletedActions   == Mutations("completed", {"DELETE"})
AggregatingActions == Mutations("aggregating", {"DELETE", "RUN", "ARCHIVE"})
TaskActions ==
  UNION {ListActions, ActiveActions, PendingActions, ScheduledActions, RetryActions,
         ArchivedActions, CompletedActions, AggregatingActions}

---------------------------------------------------------------------------------------------
(* The tasks slice.                                                                           *)
Row   == [requestPending: BOOLEAN, canceling: BOOLEAN]
Slice == [loading: BOOLEAN, batchActionPending: BOOLEAN, allActionPending: BOOLEAN,
          error: BOOLEAN, group: Groups \cup {NoGroup},
          data: UNION {[T -> Row] : T \in SUBSET Tasks}]

FreshRow == [requestPending |-> FALSE, canceling |-> FALSE]

initialState ==
  [l \in Lists |-> [loading |-> FALSE, batchActionPending |-> FALSE, allActionPending |-> FALSE,
                    error |-> FALSE, group |-> NoGroup, data |-> [t \in {} |-> FreshRow]]]

Mark(s, ids, pending) ==
  [s EXCEPT !.data = [t \in DOMAIN @ |->
     IF t \in ids THEN [@[t] EXCEPT !.requestPending = pending] ELSE @[t]]]
DropRows(s, ids) == [s EXCEPT !.data = [t \in DOMAIN @ \ ids |-> @[t]]]

\* LIST_*: an answer replaces the rows, an error empties them. Only the aggregating list has a
\* group, and it takes the group of every LIST action, BEGIN included.
ReduceList(s, m) ==
  LET g == [s EXCEPT !.group = m.group] IN
  CASE m.phase = "BEGIN"   -> [g EXCEPT !.loading = TRUE]
    [] m.phase = "SUCCESS" -> [g EXCEPT !.loading = FALSE, !.error = FALSE,
                                        !.data = [t \in m.rows |-> FreshRow]]
    [] m.phase = "ERROR"   -> [g EXCEPT !.loading = FALSE, !.error = TRUE,
                                        !.data = [t \in {} |-> FreshRow]]

\* The shape the removing verbs share: one row, a whole list, a batch.
ReduceOne(s, m) ==
  CASE m.phase = "BEGIN"   -> Mark(s, m.ids, TRUE)
    [] m.phase = "SUCCESS" -> DropRows(s, m.ids)
    [] m.phase = "ERROR"   -> Mark(s, m.ids, FALSE)
ReduceAll(s, m) ==
  [s EXCEPT !.allActionPending = (m.phase = "BEGIN"),
            !.data = IF m.phase = "SUCCESS" THEN [t \in {} |-> FreshRow] ELSE @]
\* Mutant: BEGIN marks the rows and leaves the flag down.
ReduceBatchUnflagged(s, m) ==
  CASE m.phase = "BEGIN"   -> Mark(s, m.ids, TRUE)
    [] m.phase = "SUCCESS" -> DropRows(s, m.done)
    [] m.phase = "ERROR"   -> Mark(s, m.ids, FALSE)
\* Mutant: SUCCESS drops the rows that were asked for, the failed ones included.
ReduceBatchAsked(s, m) ==
  LET b == [s EXCEPT !.batchActionPending = (m.phase = "BEGIN")] IN
  CASE m.phase = "BEGIN"   -> Mark(b, m.ids, TRUE)
    [] m.phase = "SUCCESS" -> DropRows(b, m.ids)
    [] m.phase = "ERROR"   -> Mark(b, m.ids, FALSE)
ReduceBatch(s, m) ==
  LET b == [s EXCEPT !.batchActionPending = (m.phase = "BEGIN")] IN
  CASE m.phase = "BEGIN"   -> Mark(b, m.ids, TRUE)
    [] m.phase = "SUCCESS" -> DropRows(b, m.done)
    [] m.phase = "ERROR"   -> Mark(b, m.ids, FALSE)
ReduceRemoving(s, m) ==
  CASE m.scope = "one"   -> ReduceOne(s, m)
    [] m.scope = "all"   -> ReduceAll(s, m)
    [] m.scope = "batch" -> ReduceBatch(s, m)

ReducePending(s, m)   == IF m.verb \in {"ARCHIVE", "DELETE"} THEN ReduceRemoving(s, m) ELSE s
ReduceScheduled(s, m) == IF m.verb \in {"RUN", "ARCHIVE", "DELETE"} THEN ReduceRemoving(s, m) ELSE s
ReduceRetry(s, m)     == IF m.verb \in {"RUN", "ARCHIVE", "DELETE"} THEN ReduceRemoving(s, m) ELSE s
ReduceArchived(s, m)  == IF m.verb \in {"RUN", "DELETE"} THEN ReduceRemoving(s, m) ELSE s
ReduceCompleted(s, m) == IF m.verb = "DELETE" THEN ReduceRemoving(s, m) ELSE s

\* A canceled task stays listed until its worker lets go of it. Cancel all acts on every row
\* shown, and a failed batch releases every row, not only its own.
ReduceActive(s, m) ==
  LET hit == IF m.scope = "all" \/ (m.scope = "batch" /\ m.phase = "ERROR") THEN DOMAIN s.data
             ELSE m.ids
      canceled == CASE m.scope = "batch" -> m.done [] m.scope = "all" -> DOMAIN s.data
                    [] OTHER -> m.ids
      flag == [s EXCEPT !.batchActionPending = IF m.scope = "batch" THEN m.phase = "BEGIN" ELSE @,
                        !.allActionPending   = IF m.scope = "all" THEN m.phase = "BEGIN" ELSE @]
      seen == Mark(flag, hit, m.phase = "BEGIN")
  IN IF m.phase = "SUCCESS"
       THEN [seen EXCEPT !.data = [t \in DOMAIN @ |->
               IF t \in canceled THEN [@[t] EXCEPT !.canceling = TRUE] ELSE @[t]]]
       ELSE seen

\* Single rows do not look at the group; a batch of another group is ignored, answer included.
ReduceAggregating(s, m) ==
  CASE m.scope = "one"                           -> ReduceOne(s, m)
    [] m.scope = "batch" /\ m.group = s.group    -> ReduceBatch(s, m)
    [] OTHER                                     -> s
\* So is a whole-group action; its error is kept.
ReduceAggregatingAll(s, m) ==
  IF s.group # m.group THEN s
  ELSE [ReduceAll(s, m) EXCEPT !.error = IF m.phase = "ERROR" THEN TRUE ELSE @]

tasksReducer(s, m) ==
  IF m.verb = "LIST" THEN ReduceList(s, m)
  ELSE CASE m.list = "active"    -> ReduceActive(s, m)
         [] m.list = "pending"   -> ReducePending(s, m)
         [] m.list = "scheduled" -> ReduceScheduled(s, m)
         [] m.list = "retry"     -> ReduceRetry(s, m)
         [] m.list = "archived"  -> ReduceArchived(s, m)
         [] m.list = "completed" -> ReduceCompleted(s, m)
         [] m.list = "aggregating" /\ m.scope # "all" -> ReduceAggregating(s, m)
         [] m.list = "aggregating" /\ m.scope = "all" -> ReduceAggregatingAll(s, m)

---------------------------------------------------------------------------------------------
(* The queues slice: the counts a queue was last listed with, moved along by every success.   *)
Stats == [size: Int, groups: Int, count: [Lists -> Int]]

Moved(st, from, to, n) == [[st EXCEPT !.count[from] = @ - n] EXCEPT !.count[to] = @ + n]
\* Mutant: a delete forgets the size of the queue.
DroppedFromList(st, from, n) == [st EXCEPT !.count[from] = @ - n]
Dropped(st, from, n)   == [st EXCEPT !.size = @ - n, !.count[from] = @ - n]
Target(verb) == IF verb = "RUN" THEN "pending" ELSE "archived"

CountOne(st, m) ==
  IF m.verb = "DELETE" THEN Dropped(st, m.list, 1) ELSE Moved(st, m.list, Target(m.verb), 1)
CountBatch(st, m) ==
  LET n == Cardinality(m.done)
  IN IF m.verb = "DELETE" THEN Dropped(st, m.list, n) ELSE Moved(st, m.list, Target(m.verb), n)
\* Whole lists: a delete subtracts the server's number and zeroes the count it shows, a run or
\* an archive moves the count it shows.
CountAll(st, m) ==
  IF m.verb = "DELETE" THEN [st EXCEPT !.size = @ - m.count, !.count[m.list] = 0]
  ELSE Moved(st, m.list, Target(m.verb), st.count[m.list])
\* Whole groups: every verb moves the server's number.
CountGroup(st, m) ==
  LET g == [st EXCEPT !.groups = @ - 1]
  IN IF m.verb = "DELETE" THEN Dropped(g, m.list, m.count)
     ELSE Moved(g, m.list, Target(m.verb), m.count)

queuesReducer(st, m) ==
  CASE m.phase # "SUCCESS" \/ m.verb = "CANCEL"        -> st
    [] m.phase = "SUCCESS" /\ m.verb # "CANCEL" /\ m.scope = "one"   -> CountOne(st, m)
    [] m.phase = "SUCCESS" /\ m.verb # "CANCEL" /\ m.scope = "batch" -> CountBatch(st, m)
    [] m.phase = "SUCCESS" /\ m.verb # "CANCEL" /\ m.scope = "all"   ->
         IF m.list = "aggregating" THEN CountGroup(st, m) ELSE CountAll(st, m)

\* queuesSlice: the queues the store knows, each with its stats. A listing replaces the entry of
\* its queue or makes one, but that of the completed list; a listing of groups only replaces one.
ListedStats(queues, m, st) ==
  IF m.list = "completed" THEN queues
  ELSE [q \in DOMAIN queues \cup {m.queue} |-> IF q = m.queue THEN st ELSE queues[q]]
GroupedStats(queues, queue, st) ==
  [q \in DOMAIN queues |-> IF q = queue THEN st ELSE queues[q]]
CountedStats(queues, m) ==
  [q \in DOMAIN queues |-> IF q = m.queue THEN queuesReducer(queues[q], m) ELSE queues[q]]

\* groupsSlice: the groups last listed and their sizes. A failed listing keeps them.
groupsInitialState == [data |-> [g \in {} |-> 0], error |-> FALSE]
groupsReducer(s, verb, phase, sizes) ==
  CASE verb = "GROUPS" /\ phase = "SUCCESS" -> [data |-> sizes, error |-> FALSE]
    [] verb = "GROUPS" /\ phase = "ERROR"   -> [s EXCEPT !.error = TRUE]
    [] verb = "LIST"   /\ phase = "SUCCESS" -> [s EXCEPT !.data = sizes]
    [] OTHER                                -> s
====
