---- MODULE QueueWorkspace ----
(* The queue workspace of the web UI (ui/src/views/TasksView.tsx, components/TasksTable.tsx   *)
(* and the table of each list): a user, the redux store, polls and mutations in flight, and a *)
(* queue whose workers move on meanwhile. An answer arrives in any order, late or never.      *)
(* External: asynq and its HTTP handlers, reduced to which verb moves a task from where.      *)
EXTENDS TaskReducers, SequencesExt

CONSTANTS Home,         \* the queue of each task
          GroupOf,      \* and its group, were it aggregating
          Tabs,         \* the tabs the user visits
          Scenarios,    \* the address the user comes in by, where the tasks are by then, and bounds
          BulkLists,    \* the lists whose table is passed onWholeScopeVerb: no *_all requests
          Verbs,        \* the verbs the user reaches for on each tab
          PageSize,
          MaxPolled,    \* bound: requests in flight when a poll adds one
          MaxInFlight   \* bound: requests in flight

Budgets == [visits: Nat, acts: Nat, changes: Nat]
ASSUME WorkspaceAssumption ==
  /\ Tasks \subseteq Nat /\ IsFiniteSet(Tasks) /\ Home \in [Tasks -> Queues] /\ GroupOf \in [Tasks -> Groups]
  /\ Tabs \subseteq Lists /\ PageSize \in Nat \ {0}
  /\ Scenarios \subseteq [queue: Queues, list: Tabs, srv: [Tasks -> Lists \cup {"gone"}],
                          left: Budgets]

VARIABLES
  srv,      \* the server: the list each task is in, or "gone"
  now,      \* how often srv changed
  ui,       \* the route and the local state of the table: page, selection, selected group
  tasks,    \* store.tasks
  queues,   \* store.queues
  groups,   \* store.groups
  counts,   \* TasksView's counts (null counts as zeros)
  net,      \* requests in flight, in no order
  moves,    \* bounds: the steps elsewhere and the verbs the user, the changes the workers have left
  shownAt,  \* history: the instant of the listing each slice took last
  acted     \* history: the tasks a request of this tab acted on

vars == <<srv, now, ui, tasks, queues, groups, counts, net, moves, shownAt, acted>>
server == <<srv, now, acted>>

---------------------------------------------------------------------------------------------
(* The server.                                                                                *)
Content(q, l, g) == {t \in Tasks : srv[t] = l /\ Home[t] = q /\ (l = "aggregating" => GroupOf[t] = g)}
PageOf(T, p) == {t \in T : Cardinality({u \in T : u < t}) \div PageSize = p}
GroupSizes(q) ==
  LET waiting == {t \in Tasks : srv[t] = "aggregating" /\ Home[t] = q}
  IN [g \in {GroupOf[t] : t \in waiting} |-> Cardinality({t \in waiting : GroupOf[t] = g})]
StatsOf(q) ==
  [size   |-> Cardinality({t \in Tasks : Home[t] = q /\ srv[t] # "gone"}),
   groups |-> Cardinality(DOMAIN GroupSizes(q)),
   count  |-> [l \in Lists |-> Cardinality({t \in Tasks : Home[t] = q /\ srv[t] = l})]]

Accepts(verb, l) ==
  CASE verb = "CANCEL"  -> TRUE
    [] verb = "DELETE"  -> l \notin {"active", "gone"}
    [] verb = "RUN"     -> l \notin {"active", "pending", "gone"}
    [] verb = "ARCHIVE" -> l \notin {"active", "archived", "gone"}
Fate(verb, l) ==
  CASE verb = "CANCEL" -> l [] verb = "DELETE" -> "gone"
    [] verb = "RUN" -> "pending" [] verb = "ARCHIVE" -> "archived"

---------------------------------------------------------------------------------------------
(* Requests. `stale` is the per-list sequence number of the thunks: a newer listing of the    *)
(* list was asked for. `mine` says the table that sent it is still mounted.                   *)
NoStats == [size |-> 0, groups |-> 0, count |-> [l \in Lists |-> 0]]
NoSizes == [g \in {} |-> 0]
Request(kind, q) ==
  [kind |-> kind, queue |-> q, list |-> "pending", group |-> NoGroup, page |-> 0,
   verb |-> "LIST", scope |-> "all", ids |-> {}, stale |-> FALSE,
   mine |-> TRUE, awaited |-> TRUE, status |-> "sent",
   at |-> 0, rows |-> {}, done |-> {}, n |-> 0, stats |-> NoStats, sizes |-> NoSizes]

ListRequest(u, g) ==
  [Request("list", u.queue) EXCEPT !.list = u.list, !.group = g, !.page = u.page]
\* Mutant: the thunk does not compare sequence numbers.
supersedeNone(ns, l) == ns
\* Nobody reads the answer of a listing that was overtaken: when and how it comes is left open.
Overtaken(r) == [Request("list", r.queue) EXCEPT !.list = r.list, !.stale = TRUE, !.status = "ok"]
Supersede(ns, l) ==
  [i \in DOMAIN ns |-> IF ns[i].kind = "list" /\ ns[i].list = l THEN Overtaken(ns[i]) ELSE ns[i]]
SendList(ns, r) == <<r>> \o Supersede(ns, r.list)
Awaited(kind) == {i \in DOMAIN net : net[i].kind = kind /\ net[i].awaited}

Msg(r, phase) ==
  [verb |-> r.verb, scope |-> r.scope, list |-> r.list, phase |-> phase, queue |-> r.queue,
   group |-> r.group, ids |-> r.ids, done |-> r.done, count |-> r.n, rows |-> r.rows]

---------------------------------------------------------------------------------------------
(* The table on screen.                                                                       *)
\* The selected group while it is listed, or the first one.
CurrentGroup(u, gs) ==
  CASE u.list # "aggregating"  -> NoGroup
    [] u.list = "aggregating" /\ u.group \in DOMAIN gs.data -> u.group
    [] OTHER -> IF DOMAIN gs.data = {} THEN NoGroup ELSE CHOOSE g \in DOMAIN gs.data : TRUE
TableShown(u, gs) ==
  u.list = "aggregating" => ~gs.error /\ CurrentGroup(u, gs) # NoGroup
totalTaskCount(u, gs, cs) ==
  IF u.list = "aggregating" THEN gs.data[CurrentGroup(u, gs)] ELSE cs[u.list]
\* Mutant: the page of an empty list is the one before the first.
lastPageOfNone(n) == (n - 1) \div PageSize
LastPage(n) == IF n = 0 THEN 0 ELSE (n - 1) \div PageSize
\* Mutant: the tables are not keyed by the queue.
tableKeyOfList(u, gs) == <<u.list, CurrentGroup(u, gs)>>
TableKey(u, gs) == <<u.queue, u.list, CurrentGroup(u, gs)>>

\* What a commit does: a table with a new key starts over, a page past the end is clamped, both
\* drop the selection, and a new queue, page or table fetches at once.
Render(u, gs, cs, ns, ts) ==
  LET shown    == TableShown(u, gs)
      mounted  == shown /\ TableShown(ui, groups) /\ TableKey(u, gs) = TableKey(ui, groups)
      last     == IF shown THEN LastPage(totalTaskCount(u, gs, cs)) ELSE 0
      page     == CASE ~mounted -> 0 [] mounted /\ u.page > last -> last [] OTHER -> u.page
      view     == [u EXCEPT !.page = page,
                            !.selected = IF mounted /\ page = ui.page THEN u.selected ELSE {}]
      kept     == [i \in DOMAIN ns |-> [ns[i] EXCEPT !.mine = @ /\ (mounted \/ ns[i].scope # "batch")]]
      request  == ListRequest(view, CurrentGroup(u, gs))
      fetch    == shown /\ (~mounted \/ page # ui.page)
  IN /\ ui' = view
     /\ net' = IF fetch THEN SendList(kept, request) ELSE kept
     /\ tasks' = IF fetch THEN [ts EXCEPT ![u.list] = tasksReducer(@, Msg(request, "BEGIN"))] ELSE ts

---------------------------------------------------------------------------------------------
Init ==
  /\ now = 0 /\ acted = {}
  /\ \E start \in Scenarios :
     LET q == start.queue  l == start.list IN
       /\ srv = start.srv /\ moves = start.left
       /\ ui = [queue |-> q, list |-> l, group |-> NoGroup, page |-> 0, selected |-> {}]
       /\ LET core == <<Request("core", q)>>
              list == ListRequest(ui, NoGroup)
          IN IF l = "aggregating"
               THEN /\ net = core \o <<Request("groups", q)>> /\ tasks = initialState
               ELSE /\ net = Append(core, list)
                    /\ tasks = [initialState EXCEPT ![l] = tasksReducer(@, Msg(list, "BEGIN"))]
  /\ queues = [q \in {} |-> NoStats]
  /\ groups = groupsInitialState
  /\ counts = NoStats.count
  /\ shownAt = [l \in Lists |-> 0]

Spend(what) == moves[what] > 0 /\ moves' = [moves EXCEPT ![what] = @ - 1]

\* A worker, a scheduler or a producer moves a task on.
Moves ==
  {<<"pending", "active">>, <<"scheduled", "pending">>, <<"retry", "pending">>,
   <<"aggregating", "gone">>, <<"completed", "gone">>, <<"archived", "gone">>}
    \cup {<<"active", l>> : l \in {"completed", "retry", "archived", "pending", "gone"}}
    \cup {<<"gone", l>> : l \in {"pending", "scheduled", "aggregating"}}
Progress(t) ==
  /\ Spend("changes")
  /\ \E l \in Lists \cup {"gone"} : <<srv[t], l>> \in Moves /\ srv' = [srv EXCEPT ![t] = l]
  /\ now' = now + 1
  /\ UNCHANGED <<ui, tasks, queues, groups, counts, net, shownAt, acted>>

---------------------------------------------------------------------------------------------
(* Polls. usePolling skips a tick while the promise of the last one is pending: fetchCore     *)
(* returns one, the fetchTasks of a table and fetchGroups return nothing.                     *)
Quiet == Len(net) < MaxPolled
TickTable ==
  /\ Quiet /\ TableShown(ui, groups)
  /\ LET r == ListRequest(ui, CurrentGroup(ui, groups))
     IN /\ net' = SendList(net, r)
        /\ tasks' = [tasks EXCEPT ![ui.list] = tasksReducer(@, Msg(r, "BEGIN"))]
  /\ UNCHANGED <<srv, now, ui, queues, groups, counts, moves, shownAt, acted>>
TickCore ==
  /\ Quiet /\ Awaited("core") = {}
  /\ net' = Append(net, Request("core", ui.queue))
  /\ UNCHANGED <<srv, now, ui, tasks, queues, groups, counts, moves, shownAt, acted>>
TickGroups ==
  /\ Quiet /\ ui.list = "aggregating"
  /\ net' = Append(net, Request("groups", ui.queue))
  /\ UNCHANGED <<srv, now, ui, tasks, queues, groups, counts, moves, shownAt, acted>>

---------------------------------------------------------------------------------------------
(* The user.                                                                                  *)
\* What mounts with a queue or a tab: its groups are asked for, its table starts over.
Arrive(u) ==
  LET polls == (IF u.queue # ui.queue THEN <<Request("core", u.queue)>> ELSE << >>)
                 \o (IF u.list = "aggregating" THEN <<Request("groups", u.queue)>> ELSE << >>)
  IN Render(u, groups, counts, net \o polls, tasks)
Open(q) ==
  /\ Spend("visits") /\ q # ui.queue
  /\ Arrive([ui EXCEPT !.queue = q, !.group = NoGroup])
  /\ UNCHANGED <<server, queues, groups, counts, shownAt>>
openTab(l) ==
  /\ Spend("visits") /\ l # ui.list
  /\ Arrive([ui EXCEPT !.list = l, !.group = NoGroup])
  /\ UNCHANGED <<server, queues, groups, counts, shownAt>>
selectGroup(g) ==
  /\ Spend("visits") /\ ui.list = "aggregating" /\ TableShown(ui, groups) /\ g \in DOMAIN groups.data
  /\ Render([ui EXCEPT !.group = g], groups, counts, net, tasks)
  /\ UNCHANGED <<server, queues, groups, counts, shownAt>>
Usable == TableShown(ui, groups) /\ ~tasks[ui.list].error
Total  == totalTaskCount(ui, groups, counts)
goToPage(p) ==
  /\ Spend("visits") /\ Usable /\ Total > 0
  /\ p \in {ui.page - 1, ui.page + 1} /\ p >= 0 /\ p <= LastPage(Total)
  /\ Render([ui EXCEPT !.page = p], groups, counts, net, tasks)
  /\ UNCHANGED <<server, queues, groups, counts, shownAt>>
handleSelectOne(t) ==
  /\ Usable /\ t \in DOMAIN tasks[ui.list].data
  /\ ui' = [ui EXCEPT !.selected = IF t \in @ THEN @ \ {t} ELSE @ \cup {t}]
  /\ UNCHANGED <<srv, now, tasks, queues, groups, counts, net, moves, shownAt, acted>>
handleSelectAll ==
  /\ Usable /\ DOMAIN tasks[ui.list].data # {}
  /\ ui' = [ui EXCEPT !.selected = IF DOMAIN tasks[ui.list].data \subseteq @ THEN {}
                                   ELSE DOMAIN tasks[ui.list].data]
  /\ UNCHANGED <<srv, now, tasks, queues, groups, counts, net, moves, shownAt, acted>>

\* The table of each list: the verbs its rows, its toolbar and its menu offer.
Offers(one, batch, all) == [one |-> one, batch |-> batch, all |-> all]
AnyVerb == {"DELETE", "RUN", "ARCHIVE"}
ActiveTasksTable    == Offers({"CANCEL"}, {"CANCEL"}, {"CANCEL"})
PendingTasksTable   == Offers(AnyVerb \ {"RUN"}, AnyVerb \ {"RUN"}, AnyVerb \ {"RUN"})
ScheduledTasksTable == Offers(AnyVerb, AnyVerb, AnyVerb)
RetryTasksTable     == Offers(AnyVerb, AnyVerb, AnyVerb)
ArchivedTasksTable  == Offers(AnyVerb \ {"ARCHIVE"}, AnyVerb \ {"ARCHIVE"}, AnyVerb \ {"ARCHIVE"})
CompletedTasksTable == Offers({"DELETE"}, {"DELETE"}, {"DELETE"})
AggregatingTasksTableContainer == Offers(AnyVerb, AnyVerb, AnyVerb)
TableOf ==
  [active |-> ActiveTasksTable, pending |-> PendingTasksTable, scheduled |-> ScheduledTasksTable,
   retry |-> RetryTasksTable, archived |-> ArchivedTasksTable, completed |-> CompletedTasksTable,
   aggregating |-> AggregatingTasksTableContainer]

\* A thunk: BEGIN, then the request.
Dispatch(r) ==
  /\ net' = Append(net, r)
  /\ tasks' = [tasks EXCEPT ![r.list] = tasksReducer(@, Msg(r, "BEGIN"))]
  /\ UNCHANGED <<srv, now, ui, queues, groups, counts, shownAt, acted>>
Verb(verb, scope, queue, group, ids) ==
  [Request("act", queue) EXCEPT !.list = ui.list, !.group = group, !.verb = verb,
                                !.scope = scope, !.ids = ids]
Offered(verb, scope) ==
  /\ Len(net) < MaxInFlight /\ Spend("acts") /\ Usable
  /\ verb \in TableOf[ui.list][scope]
\* A row acts on the queue and the group of its task.
ActOne(verb, t) ==
  /\ Offered(verb, "one") /\ t \in DOMAIN tasks[ui.list].data
  /\ Dispatch(Verb(verb, "one", Home[t],
                   IF ui.list = "aggregating" THEN GroupOf[t] ELSE NoGroup, {t}))
\* The toolbar acts on the selection, in the queue of the route.
ActBatch(verb) ==
  /\ Offered(verb, "batch") /\ ui.selected # {} /\ ~tasks[ui.list].batchActionPending
  /\ Dispatch(Verb(verb, "batch", ui.queue, CurrentGroup(ui, groups), ui.selected))
ActAll(verb) ==
  /\ Offered(verb, "all") /\ ui.list \notin BulkLists
  /\ Total > 0 /\ ui.selected = {} /\ ~tasks[ui.list].allActionPending
  /\ Dispatch(Verb(verb, "all", ui.queue, CurrentGroup(ui, groups), {}))

---------------------------------------------------------------------------------------------
(* The server handles a request: when, and whether the tab still waits, is not known.         *)
Targets(r) ==
  CASE r.kind # "act" -> {}
    [] r.kind = "act" /\ r.scope = "all" -> Content(r.queue, r.list, r.group)
    [] OTHER -> {t \in r.ids : Home[t] = r.queue /\ Accepts(r.verb, srv[t])}
Answered(r) ==
  LET hit     == Targets(r)
      carries == CarriedBy(r.verb, r.scope, r.list)
  IN CASE r.kind = "act"    ->
            [r EXCEPT !.status = IF r.scope = "one" /\ hit = {} THEN "error" ELSE "ok",
                      !.done = IF carries = "ids" THEN hit ELSE {},
                      !.n = IF carries = "count" THEN Cardinality(hit) ELSE 0]
       [] r.kind = "core"   -> [r EXCEPT !.status = "ok", !.stats = StatsOf(r.queue)]
       [] r.kind = "groups" -> [r EXCEPT !.status = "ok", !.stats = StatsOf(r.queue),
                                         !.sizes = GroupSizes(r.queue)]
       [] r.kind = "list"   ->
            [r EXCEPT !.status = "ok", !.at = now, !.stats = StatsOf(r.queue),
                      !.rows = PageOf(Content(r.queue, r.list, r.group), r.page),
                      !.sizes = IF r.list = "aggregating" THEN GroupSizes(r.queue) ELSE NoSizes]
Handle(i) ==
  /\ net[i].status = "sent"
  /\ net' = IF net[i].awaited THEN [net EXCEPT ![i] = Answered(net[i])] ELSE RemoveAt(net, i)
  /\ srv' = [t \in Tasks |-> IF t \in Targets(net[i]) THEN Fate(net[i].verb, srv[t]) ELSE srv[t]]
  /\ now' = IF srv' = srv THEN now ELSE now + 1
  /\ acted' = acted \cup Targets(net[i])
  /\ UNCHANGED <<ui, tasks, queues, groups, counts, moves, shownAt>>
\* A request nobody waits for any more is dropped.
Lose(i) ==
  /\ ~net[i].awaited /\ net' = RemoveAt(net, i)
  /\ UNCHANGED <<srv, now, ui, tasks, queues, groups, counts, moves, shownAt, acted>>

---------------------------------------------------------------------------------------------
(* The tab takes an answer, or axios gives up on one: `rest` is what stays in flight.         *)
ReceiveList(r, phase, rest) ==
  /\ Render(ui, IF r.list = "aggregating" THEN groupsReducer(groups, "LIST", phase, r.sizes) ELSE groups,
            counts, rest, [tasks EXCEPT ![r.list] = tasksReducer(@, Msg(r, phase))])
  /\ groups' = IF r.list = "aggregating" THEN groupsReducer(groups, "LIST", phase, r.sizes) ELSE groups
  /\ queues' = IF phase = "SUCCESS" THEN ListedStats(queues, Msg(r, phase), r.stats) ELSE queues
  /\ shownAt' = IF phase = "SUCCESS" THEN [shownAt EXCEPT ![r.list] = r.at] ELSE shownAt
  /\ UNCHANGED counts
fetchCore(r, phase, rest) ==
  /\ counts' = IF phase = "SUCCESS" THEN r.stats.count ELSE counts
  /\ Render(ui, groups, counts', rest, tasks)
  /\ UNCHANGED <<queues, groups, shownAt>>
ReceiveGroups(r, phase, rest) ==
  /\ groups' = groupsReducer(groups, "GROUPS", phase, r.sizes)
  /\ Render(ui, groups', counts, rest, tasks)
  /\ queues' = IF phase = "SUCCESS" THEN GroupedStats(queues, r.queue, r.stats) ELSE queues
  /\ UNCHANGED <<counts, shownAt>>
\* The toolbar drops the selection once its request is answered, whatever the answer.
ReceiveAct(r, phase, rest) ==
  /\ Render(IF r.scope = "batch" /\ r.mine THEN [ui EXCEPT !.selected = {}] ELSE ui,
            groups, counts, rest, [tasks EXCEPT ![r.list] = tasksReducer(@, Msg(r, phase))])
  /\ queues' = CountedStats(queues, Msg(r, phase))
  /\ UNCHANGED <<groups, counts, shownAt>>
Ignore(rest) == net' = rest /\ UNCHANGED <<ui, tasks, queues, groups, counts, shownAt>>

Receive(r, phase, rest) ==
  /\ CASE r.kind = "list"   -> IF r.stale THEN Ignore(rest) ELSE ReceiveList(r, phase, rest)
       [] r.kind = "core"   -> fetchCore(r, phase, rest)
       [] r.kind = "groups" -> ReceiveGroups(r, phase, rest)
       [] r.kind = "act"    -> ReceiveAct(r, phase, rest)
  /\ UNCHANGED <<srv, now, moves, acted>>

Deliver(i) ==
  /\ net[i].awaited /\ net[i].status # "sent"
  /\ Receive(net[i], IF net[i].status = "ok" THEN "SUCCESS" ELSE "ERROR", RemoveAt(net, i))
\* The request fails (Redis away, connection lost, 15 s over). A mutation given up on may still be
\* carried out.
Fail(i) ==
  /\ net[i].awaited
  /\ Receive(net[i], "ERROR",
             IF net[i].status = "sent" /\ net[i].kind = "act" THEN [net EXCEPT ![i].awaited = FALSE, ![i].mine = FALSE]
             ELSE RemoveAt(net, i))

User ==
  \/ \E q \in Queues : Open(q)
  \/ \E l \in Tabs : openTab(l)
  \/ \E g \in Groups : selectGroup(g)
  \/ \E p \in 0..1 : goToPage(p)
  \/ \E t \in Tasks : handleSelectOne(t)
  \/ handleSelectAll
  \/ \E verb \in Verbs[ui.list] :
       ActBatch(verb) \/ ActAll(verb) \/ \E t \in Tasks : ActOne(verb, t)
Send   == User \/ TickTable \/ TickCore \/ TickGroups
Settle == \E i \in DOMAIN net : Deliver(i) \/ Fail(i)
Serve  == \E i \in DOMAIN net : Handle(i) \/ Lose(i)

Next ==
  \/ \E t \in Tasks : Progress(t)
  \/ Send /\ Len(net') <= MaxInFlight
  \/ Serve \/ Settle

Spec == Init /\ [][Next]_vars

---------------------------------------------------------------------------------------------
(* Properties.                                                                                *)

\* The state of the workspace is what the code's types say, the actions its thunks dispatch
\* included; a page is never before the first.
WorkspaceTypeOK ==
  /\ srv \in [Tasks -> Lists \cup {"gone"}] /\ now \in Nat /\ moves \in Budgets
  /\ ui.queue \in Queues /\ ui.list \in Tabs /\ ui.group \in Groups \cup {NoGroup}
  /\ ui.page \in Nat /\ ui.selected \subseteq Tasks
  /\ \A l \in Lists : /\ tasks[l].loading \in BOOLEAN /\ tasks[l].error \in BOOLEAN
                       /\ tasks[l].group \in Groups \cup {NoGroup}
                       /\ DOMAIN tasks[l].data \subseteq Tasks
                       /\ \A t \in DOMAIN tasks[l].data : tasks[l].data[t] \in Row
  /\ \A q \in DOMAIN queues : q \in Queues /\ DOMAIN queues[q].count = Lists
  /\ DOMAIN groups.data \subseteq Groups /\ counts \in [Lists -> Nat]
  /\ shownAt \in [Lists -> 0..now] /\ acted \subseteq Tasks
  /\ \A i \in DOMAIN net, phase \in Phases :
       /\ net[i].kind \in {"list", "act"} => Msg(net[i], phase) \in TaskActions
       /\ net[i].kind = "act" => Thunk(net[i].verb, net[i].scope, net[i].list) \in Thunks

\* TasksView keys its tables by queue and usePolling fetches on a key change, so that once the
\* newest listing is answered no row of another queue or group is left on screen, however the
\* answers of the queue the user left arrive.
QuietTableIsOfTheQueue ==
  LET asked == {i \in Awaited("list") : net[i].list = ui.list /\ ~net[i].stale}
  IN (TableShown(ui, groups) /\ asked = {})
       => \A t \in DOMAIN tasks[ui.list].data :
            /\ Home[t] = ui.queue
            /\ ui.list = "aggregating" => GroupOf[t] = CurrentGroup(ui, groups)

\* The toolbar is disabled while batchActionPending: a list has one batch in flight at most, over
\* navigation and time-outs too, and the flag of a list without groups is up exactly then. (A
\* batch answered while another group is shown leaves the aggregating flag up.)
OneBatchInFlight ==
  \A l \in Lists :
    LET batches == {i \in Awaited("act") : net[i].scope = "batch" /\ net[i].list = l}
    IN /\ Cardinality(batches) <= 1
       /\ batches # {} => tasks[l].batchActionPending
       /\ l # "aggregating" /\ tasks[l].batchActionPending => batches # {}

\* queuesReducer moves a queue's counts by deltas, out of order with the listings that replace
\* them, for every verb and scope a table offers: the size it shows stays the sum of its lists,
\* whatever was deleted, moved or counted in between.
SizeIsSumOfLists ==
  \A q \in DOMAIN queues : queues[q].size = SumFunctionOnSet(queues[q].count, Lists)

\* A slice never takes a listing older than the one it shows: what the sequence numbers of the
\* list thunks are for.
ShownNeverGoesBack == [][\A l \in Lists : shownAt'[l] >= shownAt[l]]_vars

\* A row that the answer to a single or a batch request takes off the screen is one the server
\* acted on: a batch that fails in part keeps the rows it failed on, and so does a time-out.
RemovedWasActedOn ==
  [][\A i \in DOMAIN net :
       net[i].kind = "act" /\ net[i].scope # "all" /\ (Deliver(i) \/ Fail(i))
         => \A l \in Lists : DOMAIN tasks[l].data \ DOMAIN tasks'[l].data \subseteq acted]_vars
====
