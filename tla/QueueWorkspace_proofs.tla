----------------------- MODULE QueueWorkspace_proofs -----------------------
(***************************************************************************)
(* Proofs about QueueWorkspace, for every set of queues, tasks and groups, *)
(* every page size and any number of changes, moves and requests in        *)
(* flight: what is on screen is of the queue on screen and never goes      *)
(* back, a list has one batch in flight, only a task that was acted on     *)
(* leaves the screen, and a queue's size is the sum of its lists.           *)
(***************************************************************************)
EXTENDS QueueWorkspace, FiniteSetTheorems, TLAPS

-----------------------------------------------------------------------------
(* The invariant *)

Sizes == UNION {[G -> 0..Cardinality(Tasks)] : G \in SUBSET Groups}
AnsweredStats == [size : Nat, groups : Nat, count : [Lists -> Nat]]
Requests ==
    [kind : {"list", "core", "groups", "act"}, queue : Queues, list : Lists,
     group : Groups \cup {NoGroup}, page : Nat,
     verb : {"LIST", "CANCEL", "DELETE", "RUN", "ARCHIVE"}, scope : {"one", "batch", "all"},
     ids : SUBSET Tasks, stale : BOOLEAN, mine : BOOLEAN, awaited : BOOLEAN,
     status : {"sent", "ok", "error"}, at : Nat, rows : SUBSET Tasks, done : SUBSET Tasks,
     n : 0..Cardinality(Tasks), stats : AnsweredStats, sizes : Sizes]
Views ==
    [queue : Queues, list : Tabs, group : Groups \cup {NoGroup}, page : Nat, selected : SUBSET Tasks]
GroupStates == [data : Sizes, error : BOOLEAN]

QueueTypes(qs) == DOMAIN qs \subseteq Queues /\ \A q \in DOMAIN qs : qs[q] \in Stats
StoreTypes ==
    /\ srv \in [Tasks -> Lists \cup {"gone"}] /\ now \in Nat /\ moves \in Budgets
    /\ ui \in Views /\ tasks \in [Lists -> Slice] /\ groups \in GroupStates
    /\ QueueTypes(queues)
    /\ counts \in [Lists -> Nat] /\ net \in Seq(Requests)
    /\ shownAt \in [Lists -> 0..now] /\ acted \subseteq Tasks

\* A request and its answer, for a listing: the tab waits for it, and the rows are of the queue
\* and the group that were asked for.
IsListing(r, n) ==
    r.kind = "list" =>
      /\ r.verb = "LIST" /\ r.scope = "all" /\ r.ids = {} /\ r.done = {} /\ r.n = 0
      /\ r.awaited = TRUE /\ r.status # "error" /\ r.at <= n
      /\ \A t \in r.rows : Home[t] = r.queue /\ (r.list = "aggregating" => GroupOf[t] = r.group)
\* For an act: the table offers it, and it is answered with tasks that were acted on (hit).
IsAct(r, hit) ==
    r.kind = "act" =>
      /\ r.verb \in TableOf[r.list][r.scope] /\ r.rows = {}
      /\ r.group \in IF r.list = "aggregating" THEN Groups ELSE {NoGroup}
      /\ r.scope = "all" => r.list \notin BulkLists
      /\ r.scope = "one" => \E t \in Tasks : r.ids = {t}
      /\ r.status = "ok" => r.done \subseteq hit /\ (r.scope = "one" => r.ids \subseteq hit)
RequestsAreSound(ns, n, hit) == \A i \in DOMAIN ns : IsListing(ns[i], n) /\ IsAct(ns[i], hit)

AtMostOne(s, X) == \A i, j \in DOMAIN s : s[i] \in X /\ s[j] \in X => i = j
Some(s, X) == \E i \in DOMAIN s : s[i] \in X
Listings(l) == {r \in Requests : r.kind = "list" /\ ~r.stale /\ r.list = l}
Batches(l) == {r \in Requests : r.kind = "act" /\ r.awaited /\ r.scope = "batch" /\ r.list = l}

\* One listing of a list counts: it is of the group its slice is waiting for, and no older than
\* the one shown.
ListsInTurn(ns, ts, shown) ==
  \A l \in Lists :
     /\ AtMostOne(ns, Listings(l))
     /\ \A i \in DOMAIN ns : ns[i] \in Listings(l) =>
           /\ ns[i].group = ts[l].group
           /\ ns[i].status = "ok" => shown[l] <= ns[i].at
\* A list has one batch in flight, and says so.
BatchesInTurn(ns, ts) ==
  \A l \in Lists :
     /\ AtMostOne(ns, Batches(l))
     /\ Some(ns, Batches(l)) => ts[l].batchActionPending
     /\ l # "aggregating" /\ ts[l].batchActionPending => Some(ns, Batches(l))
\* The table on screen waits for the listing of its queue and group, or shows one.
IsOfTable(t, u, gs) ==
  Home[t] = u.queue /\ (u.list = "aggregating" => GroupOf[t] = CurrentGroup(u, gs))
TableIsOf(u, gs, ns, ts) ==
  TableShown(u, gs) =>
     /\ ts[u.list].group = CurrentGroup(u, gs)
     /\ \A i \in DOMAIN ns : ns[i] \in Listings(u.list) =>
           ns[i].queue = u.queue /\ ns[i].group = CurrentGroup(u, gs)
     /\ Some(ns, Listings(u.list)) \/ \A t \in DOMAIN ts[u.list].data : IsOfTable(t, u, gs)

WorkspaceInv ==
    /\ StoreTypes /\ RequestsAreSound(net, now, acted) /\ ListsInTurn(net, tasks, shownAt)
    /\ BatchesInTurn(net, tasks) /\ TableIsOf(ui, groups, net, tasks)

-----------------------------------------------------------------------------
(* Sequences of requests *)

Skip(i, j) == IF j < i THEN j ELSE j + 1

LEMMA RemoveFacts ==
    ASSUME NEW S, NEW s \in Seq(S), NEW i \in DOMAIN s
    PROVE  /\ RemoveAt(s, i) \in Seq(S)
           /\ DOMAIN RemoveAt(s, i) = 1..(Len(s) - 1)
           /\ \A j \in DOMAIN RemoveAt(s, i) : RemoveAt(s, i)[j] = s[Skip(i, j)]
<1>1. i \in 1..Len(s) /\ Len(s) \in Nat
  OBVIOUS
<1> DEFINE a == SubSeq(s, 1, i - 1)
           b == SubSeq(s, i + 1, Len(s))
<1>2. a \in Seq(S) /\ Len(a) = i - 1 /\ \A j \in 1..(i - 1) : a[j] = s[j]
  BY <1>1
<1>3. b \in Seq(S) /\ Len(b) = Len(s) - i /\ \A j \in 1..(Len(s) - i) : b[j] = s[i + j]
  BY <1>1
<1>4. RemoveAt(s, i) = a \o b
  BY DEF RemoveAt
<1> HIDE DEF a, b
<1>5. a \o b \in Seq(S) /\ Len(a \o b) = Len(s) - 1
  BY <1>1, <1>2, <1>3
<1>6. \A j \in 1..(Len(s) - 1) : (a \o b)[j] = IF j <= i - 1 THEN a[j] ELSE b[j - (i - 1)]
  BY <1>1, <1>2, <1>3
<1>7. \A j \in 1..(Len(s) - 1) : (a \o b)[j] = s[Skip(i, j)]
  <2> TAKE j \in 1..(Len(s) - 1)
  <2>1. CASE j < i
    BY <1>1, <1>2, <1>6, <2>1 DEF Skip
  <2>2. CASE j >= i
    <3> DEFINE k == j - (i - 1)
    <3>1. k \in 1..(Len(s) - i) /\ i + k = j + 1 /\ ~(j < i) /\ ~(j <= i - 1)
      BY <1>1, <2>2
    <3>2. (a \o b)[j] = b[k]
      BY <1>6, <3>1
    <3>3. b[k] = s[i + k]
      BY <1>3, <3>1
    <3>4. Skip(i, j) = j + 1
      BY <3>1 DEF Skip
    <3> QED
      BY <3>1, <3>2, <3>3, <3>4
  <2>3. j < i \/ j >= i
    BY <1>1
  <2> QED
    BY <2>1, <2>2, <2>3
<1>8. DOMAIN (a \o b) = 1..(Len(s) - 1)
  BY <1>1, <1>5
<1> QED
  BY <1>4, <1>5, <1>7, <1>8

\* What stays when one request is taken out.
LEMMA Removed ==
    ASSUME NEW S, NEW s \in Seq(S), NEW i \in DOMAIN s, NEW X
    PROVE  /\ RemoveAt(s, i) \in Seq(S)
           /\ \A j \in DOMAIN RemoveAt(s, i) : \E k \in DOMAIN s \ {i} : RemoveAt(s, i)[j] = s[k]
           /\ AtMostOne(s, X) => AtMostOne(RemoveAt(s, i), X)
           /\ Some(RemoveAt(s, i), X) => Some(s, X)
           /\ AtMostOne(s, X) /\ s[i] \in X => ~Some(RemoveAt(s, i), X)
           /\ Some(s, X) /\ s[i] \notin X => Some(RemoveAt(s, i), X)
<1> DEFINE t == RemoveAt(s, i)
<1>1. i \in 1..Len(s) /\ Len(s) \in Nat /\ DOMAIN s = 1..Len(s)
  OBVIOUS
<1>2. t \in Seq(S) /\ DOMAIN t = 1..(Len(s) - 1) /\ \A j \in DOMAIN t : t[j] = s[Skip(i, j)]
  BY RemoveFacts
<1> HIDE DEF t
<1>3. \A j \in DOMAIN t : Skip(i, j) \in DOMAIN s \ {i} /\ t[j] = s[Skip(i, j)]
  BY <1>1, <1>2 DEF Skip
<1>4. \A j, k \in DOMAIN t : Skip(i, j) = Skip(i, k) => j = k
  BY <1>1, <1>2 DEF Skip
<1>5. \A k \in DOMAIN s \ {i} : \E j \in DOMAIN t : t[j] = s[k]
  <2> TAKE k \in DOMAIN s \ {i}
  <2>1. CASE k < i
    <3>1. k \in DOMAIN t /\ Skip(i, k) = k
      BY <1>1, <1>2, <2>1 DEF Skip
    <3> QED
      BY <3>1, <1>3
  <2>2. CASE k > i
    <3>1. k - 1 \in DOMAIN t /\ Skip(i, k - 1) = k
      BY <1>1, <1>2, <2>2 DEF Skip
    <3> QED
      BY <3>1, <1>3
  <2> QED
    BY <1>1, <2>1, <2>2
<1>6. AtMostOne(s, X) => AtMostOne(t, X)
  BY <1>3, <1>4 DEF AtMostOne
<1>7. Some(t, X) => Some(s, X)
  BY <1>3 DEF Some
<1>8. AtMostOne(s, X) /\ s[i] \in X => ~Some(t, X)
  BY <1>3 DEF Some, AtMostOne
<1>9. Some(s, X) /\ s[i] \notin X => Some(t, X)
  BY <1>5 DEF Some
<1> QED
  BY <1>2, <1>3, <1>6, <1>7, <1>8, <1>9 DEF t

\* What comes behind does not matter when it is not of the set.
LEMMA Joined ==
    ASSUME NEW S, NEW s \in Seq(S), NEW p \in Seq(S), NEW X, ~Some(p, X)
    PROVE  /\ s \o p \in Seq(S)
           /\ \A j \in DOMAIN (s \o p) : (\E k \in DOMAIN s : (s \o p)[j] = s[k])
                                        \/ (\E k \in DOMAIN p : (s \o p)[j] = p[k])
           /\ AtMostOne(s, X) => AtMostOne(s \o p, X)
           /\ Some(s \o p, X) <=> Some(s, X)
<1> DEFINE t == s \o p
<1>1. t \in Seq(S) /\ DOMAIN t = 1..(Len(s) + Len(p)) /\ DOMAIN s = 1..Len(s) /\ DOMAIN p = 1..Len(p)
      /\ Len(s) \in Nat /\ Len(p) \in Nat
  OBVIOUS
<1>2. /\ \A j \in DOMAIN s : j \in DOMAIN t /\ t[j] = s[j]
      /\ \A j \in DOMAIN t \ DOMAIN s : j - Len(s) \in DOMAIN p /\ t[j] = p[j - Len(s)]
  BY <1>1
<1> HIDE DEF t
<1>3. \A j \in DOMAIN t : t[j] \in X => j \in DOMAIN s
  BY <1>2 DEF Some
<1>4. AtMostOne(s, X) => AtMostOne(t, X)
  BY <1>2, <1>3 DEF AtMostOne
<1>5. Some(t, X) <=> Some(s, X)
  BY <1>2, <1>3 DEF Some
<1>6. \A j \in DOMAIN t : (\E k \in DOMAIN s : t[j] = s[k]) \/ (\E k \in DOMAIN p : t[j] = p[k])
  BY <1>2
<1> QED
  BY <1>1, <1>4, <1>5, <1>6 DEF t

\* Changing requests one by one adds none to a set that each was in before.
LEMMA Mapped ==
    ASSUME NEW s, NEW t, NEW X, DOMAIN t = DOMAIN s, \A i \in DOMAIN s : t[i] \in X => s[i] \in X
    PROVE  /\ AtMostOne(s, X) => AtMostOne(t, X)
           /\ Some(t, X) => Some(s, X)
BY DEF AtMostOne, Some

-----------------------------------------------------------------------------
(* Requests *)

LEMMA RequestFields ==
    ASSUME NEW r \in Requests
    PROVE  /\ r.kind \in {"list", "core", "groups", "act"} /\ r.queue \in Queues /\ r.list \in Lists
           /\ r.group \in Groups \cup {NoGroup} /\ r.page \in Nat
           /\ r.verb \in {"LIST", "CANCEL", "DELETE", "RUN", "ARCHIVE"}
           /\ r.scope \in {"one", "batch", "all"} /\ r.ids \subseteq Tasks
           /\ r.stale \in BOOLEAN /\ r.mine \in BOOLEAN /\ r.awaited \in BOOLEAN
           /\ r.status \in {"sent", "ok", "error"} /\ r.at \in Nat /\ r.rows \subseteq Tasks
           /\ r.done \subseteq Tasks /\ r.n \in 0..Cardinality(Tasks)
           /\ r.stats \in AnsweredStats /\ r.sizes \in Sizes
BY DEF Requests

LEMMA NothingKnown == NoStats \in AnsweredStats /\ NoSizes \in Sizes
<1>1. NoStats \in AnsweredStats
  BY DEF NoStats, AnsweredStats
<1>2. NoSizes \in [{} -> 0..Cardinality(Tasks)]
  BY DEF NoSizes
<1> QED
  BY <1>1, <1>2 DEF Sizes

\* What two requests that differ in who waits for them have in common.
Alike(x, r) ==
    /\ x.kind = r.kind /\ x.queue = r.queue /\ x.list = r.list /\ x.group = r.group
    /\ x.verb = r.verb /\ x.scope = r.scope /\ x.ids = r.ids /\ x.stale = r.stale
    /\ x.status = r.status /\ x.at = r.at /\ x.rows = r.rows /\ x.done = r.done /\ x.n = r.n
    /\ x.stats = r.stats

LEMMA MineFacts ==
    ASSUME NEW r \in Requests, NEW b \in BOOLEAN, NEW x, x = [r EXCEPT !.mine = b]
    PROVE  x \in Requests /\ Alike(x, r) /\ x.awaited = r.awaited
BY DEF Requests, Alike

LEMMA GivenUpFacts ==
    ASSUME NEW r \in Requests, NEW x, x = [r EXCEPT !.awaited = FALSE, !.mine = FALSE]
    PROVE  x \in Requests /\ Alike(x, r) /\ x.awaited = FALSE
BY DEF Requests, Alike

\* A request as it is made.
Fresh(r, kind, q) ==
    /\ r \in Requests /\ r.kind = kind /\ r.queue = q /\ r.status = "sent" /\ r.rows = {}
    /\ r.done = {} /\ r.n = 0 /\ r.stats = NoStats /\ r.awaited = TRUE /\ r.at = 0 /\ r.stale = FALSE

LEMMA CallFacts ==
    ASSUME NEW kind \in {"list", "core", "groups", "act"}, NEW q \in Queues
    PROVE  /\ Fresh(Request(kind, q), kind, q)
           /\ Request(kind, q).verb = "LIST" /\ Request(kind, q).scope = "all"
           /\ Request(kind, q).ids = {}
<1>1. 0 \in 0..Cardinality(Tasks)
  BY FS_CardinalityType, WorkspaceAssumption
<1> QED
  BY <1>1, NothingKnown DEF Request, Requests, Lists, Fresh

LEMMA ListRequestFacts ==
    ASSUME NEW u, u.queue \in Queues, u.list \in Lists, u.page \in Nat,
           NEW g \in Groups \cup {NoGroup}, NEW r, r = ListRequest(u, g)
    PROVE  /\ Fresh(r, "list", u.queue) /\ r.list = u.list /\ r.group = g /\ r.page = u.page
           /\ r.verb = "LIST" /\ r.scope = "all" /\ r.ids = {}
<1> DEFINE c == Request("list", u.queue)
<1>1. "list" \in {"list", "core", "groups", "act"}
  OBVIOUS
<1>2. Fresh(c, "list", u.queue) /\ c.verb = "LIST" /\ c.scope = "all" /\ c.ids = {}
  BY <1>1, CallFacts
<1> DEFINE d == [c EXCEPT !.list = u.list, !.group = g]
<1>3. r = [d EXCEPT !.page = u.page]
  BY DEF ListRequest
<1> HIDE DEF c
<1>4. /\ Fresh(d, "list", u.queue) /\ d.list = u.list /\ d.group = g
      /\ d.verb = "LIST" /\ d.scope = "all" /\ d.ids = {}
  BY ZenonT(40), <1>2 DEF Requests, Fresh
<1> HIDE DEF d
<1> QED
  BY ZenonT(40), <1>3, <1>4 DEF Requests, Fresh

LEMMA OvertakenFacts ==
    ASSUME NEW r \in Requests, NEW x, x = Overtaken(r)
    PROVE  /\ x \in Requests /\ x.kind = "list" /\ x.stale = TRUE /\ x.status = "ok" /\ x.rows = {}
           /\ x.verb = "LIST" /\ x.scope = "all" /\ x.ids = {} /\ x.done = {} /\ x.n = 0
           /\ x.awaited = TRUE /\ x.at = 0 /\ x.stats = NoStats
<1> DEFINE c == Request("list", r.queue)
<1>1. "list" \in {"list", "core", "groups", "act"} /\ r.queue \in Queues /\ r.list \in Lists
  BY RequestFields
<1>2. Fresh(c, "list", r.queue) /\ c.verb = "LIST" /\ c.scope = "all" /\ c.ids = {}
  BY <1>1, CallFacts
<1> DEFINE d == [c EXCEPT !.list = r.list]
<1>3. x = [d EXCEPT !.stale = TRUE, !.status = "ok"]
  BY DEF Overtaken
<1> HIDE DEF c
<1>4. Fresh(d, "list", r.queue) /\ d.verb = "LIST" /\ d.scope = "all" /\ d.ids = {}
  BY ZenonT(40), <1>1, <1>2 DEF Requests, Fresh
<1> HIDE DEF d
<1> QED
  BY ZenonT(40), <1>3, <1>4 DEF Requests, Fresh

LEMMA VerbFacts ==
    ASSUME NEW verb \in {"CANCEL", "DELETE", "RUN", "ARCHIVE"}, NEW scope \in {"one", "batch", "all"},
           NEW q \in Queues, NEW g \in Groups \cup {NoGroup}, NEW ids \in SUBSET Tasks,
           ui.list \in Lists, NEW r, r = Verb(verb, scope, q, g, ids)
    PROVE  /\ Fresh(r, "act", q) /\ r.list = ui.list /\ r.group = g
           /\ r.verb = verb /\ r.scope = scope /\ r.ids = ids
<1> DEFINE c == Request("act", q)
<1>1. "act" \in {"list", "core", "groups", "act"}
  OBVIOUS
<1>2. Fresh(c, "act", q)
  BY <1>1, CallFacts
<1>3. r = [c EXCEPT !.list = ui.list, !.group = g, !.verb = verb, !.scope = scope, !.ids = ids]
  BY DEF Verb
<1> HIDE DEF c
<1> DEFINE d == [c EXCEPT !.list = ui.list, !.group = g]
           e == [d EXCEPT !.verb = verb, !.scope = scope]
<1>4. Fresh(d, "act", q) /\ d.list = ui.list /\ d.group = g
  BY ZenonT(40), <1>2 DEF Requests, Fresh
<1>5. r = [e EXCEPT !.ids = ids]
  BY <1>3
<1> HIDE DEF d
<1>6. Fresh(e, "act", q) /\ e.list = ui.list /\ e.group = g /\ e.verb = verb /\ e.scope = scope
  BY ZenonT(40), <1>4 DEF Requests, Fresh
<1> HIDE DEF e
<1> QED
  BY ZenonT(40), <1>5, <1>6 DEF Requests, Fresh

-----------------------------------------------------------------------------
(* The slice of a list *)

Data == UNION {[T -> Row] : T \in SUBSET Tasks}

LEMMA DataFacts ==
    /\ \A d \in Data : DOMAIN d \subseteq Tasks /\ \A t \in DOMAIN d : d[t] \in Row
    /\ \A T \in SUBSET Tasks : [T -> Row] \subseteq Data
BY DEF Data

LEMMA SliceFields ==
    ASSUME NEW s \in Slice
    PROVE  /\ s.loading \in BOOLEAN /\ s.batchActionPending \in BOOLEAN
           /\ s.allActionPending \in BOOLEAN /\ s.error \in BOOLEAN
           /\ s.group \in Groups \cup {NoGroup} /\ s.data \in Data
BY DEF Slice, Data

\* A row changes in two fields only.
LEMMA RowFacts ==
    ASSUME NEW row \in Row, NEW b \in BOOLEAN
    PROVE  [row EXCEPT !.requestPending = b] \in Row /\ [row EXCEPT !.canceling = b] \in Row
BY DEF Row

\* A slice with other rows, group and batch flag apart.
Rest(x, s) == x \in Slice /\ x.group = s.group /\ x.batchActionPending = s.batchActionPending

LEMMA MarkFacts ==
    ASSUME NEW s \in Slice, NEW ids, NEW b \in BOOLEAN
    PROVE  Rest(Mark(s, ids, b), s) /\ DOMAIN Mark(s, ids, b).data = DOMAIN s.data
<1> DEFINE d == [t \in DOMAIN s.data |->
                   IF t \in ids THEN [s.data[t] EXCEPT !.requestPending = b] ELSE s.data[t]]
<1>1. DOMAIN s.data \in SUBSET Tasks /\ \A t \in DOMAIN s.data : s.data[t] \in Row
  BY DataFacts, SliceFields
<1>2. d \in [DOMAIN s.data -> Row]
  BY <1>1, RowFacts
<1>3. d \in Data /\ DOMAIN d = DOMAIN s.data
  BY <1>1, <1>2, DataFacts
<1>4. Mark(s, ids, b) = [s EXCEPT !.data = d]
  BY DEF Mark
<1> HIDE DEF d
<1> QED
  BY <1>3, <1>4 DEF Slice, Data, Rest

LEMMA DropFacts ==
    ASSUME NEW s \in Slice, NEW ids
    PROVE  Rest(DropRows(s, ids), s) /\ DOMAIN DropRows(s, ids).data = DOMAIN s.data \ ids
<1> DEFINE d == [t \in DOMAIN s.data \ ids |-> s.data[t]]
<1>1. DOMAIN s.data \in SUBSET Tasks /\ \A t \in DOMAIN s.data : s.data[t] \in Row
  BY DataFacts, SliceFields
<1>2. d \in [DOMAIN s.data \ ids -> Row] /\ DOMAIN s.data \ ids \in SUBSET Tasks
  BY <1>1
<1>3. d \in Data /\ DOMAIN d = DOMAIN s.data \ ids
  BY <1>2, DataFacts
<1>4. DropRows(s, ids) = [s EXCEPT !.data = d]
  BY DEF DropRows
<1> HIDE DEF d
<1> QED
  BY <1>3, <1>4 DEF Slice, Data, Rest

\* Replacing the rows.
LEMMA FreshFacts ==
    ASSUME NEW T \in SUBSET Tasks
    PROVE  [t \in T |-> FreshRow] \in Data /\ DOMAIN [t \in T |-> FreshRow] = T
<1>1. FreshRow \in Row
  BY DEF FreshRow, Row
<1>2. [t \in T |-> FreshRow] \in [T -> Row]
  BY <1>1
<1> QED
  BY <1>2, DataFacts

\* What a message changes of the rows that are shown: a row goes away only with the request for
\* it or the answer that names it, or with the whole list.
Leaves(x, s, m) ==
    /\ DOMAIN x.data \subseteq DOMAIN s.data
    /\ m.scope # "all" =>
         \A t \in DOMAIN s.data \ DOMAIN x.data :
            m.phase = "SUCCESS" /\ (m.scope = "one" => t \in m.ids) /\ (m.scope = "batch" => t \in m.done)

LEMMA ListFacts ==
    ASSUME NEW s \in Slice, NEW m, m.phase \in Phases, m.group \in Groups \cup {NoGroup},
           m.rows \subseteq Tasks, NEW x, x = ReduceList(s, m)
    PROVE  /\ x \in Slice /\ x.group = m.group /\ x.batchActionPending = s.batchActionPending
           /\ m.phase = "BEGIN" => DOMAIN x.data = DOMAIN s.data
           /\ m.phase = "SUCCESS" => DOMAIN x.data = m.rows
           /\ m.phase = "ERROR" => DOMAIN x.data = {}
<1> DEFINE g == [s EXCEPT !.group = m.group]
<1>1. g \in Slice /\ g.group = m.group /\ g.batchActionPending = s.batchActionPending /\ g.data = s.data
  BY DEF Slice
<1>2. CASE m.phase = "BEGIN"
  <2>1. x = [g EXCEPT !.loading = TRUE]
    BY <1>2 DEF ReduceList
  <2> HIDE DEF g
  <2> QED
    BY <1>1, <1>2, <2>1 DEF Slice
<1>3. CASE m.phase = "SUCCESS"
  <2> DEFINE d == [t \in m.rows |-> FreshRow]
  <2>1. x = [g EXCEPT !.loading = FALSE, !.error = FALSE, !.data = d]
    BY <1>3 DEF ReduceList
  <2>2. d \in Data /\ DOMAIN d = m.rows
    BY FreshFacts
  <2> HIDE DEF g, d
  <2> QED
    BY <1>1, <1>3, <2>1, <2>2 DEF Slice, Data
<1>4. CASE m.phase = "ERROR"
  <2> DEFINE d == [t \in {} |-> FreshRow]
  <2>1. x = [g EXCEPT !.loading = FALSE, !.error = TRUE, !.data = d]
    BY <1>4 DEF ReduceList
  <2>2. d \in Data /\ DOMAIN d = {}
    BY FreshFacts
  <2> HIDE DEF g, d
  <2> QED
    BY <1>1, <1>4, <2>1, <2>2 DEF Slice, Data
<1> QED
  BY <1>2, <1>3, <1>4 DEF Phases

\* The verbs that remove: one row, a whole list, a batch.
LEMMA OneFacts ==
    ASSUME NEW s \in Slice, NEW m, m.phase \in Phases, m.scope = "one", NEW x, x = ReduceOne(s, m)
    PROVE  Rest(x, s) /\ Leaves(x, s, m)
<1>1. CASE m.phase = "BEGIN"
  BY <1>1, MarkFacts DEF ReduceOne, Leaves
<1>2. CASE m.phase = "SUCCESS"
  BY <1>2, DropFacts DEF ReduceOne, Leaves
<1>3. CASE m.phase = "ERROR"
  BY <1>3, MarkFacts DEF ReduceOne, Leaves
<1> QED
  BY <1>1, <1>2, <1>3 DEF Phases

LEMMA AllFacts ==
    ASSUME NEW s \in Slice, NEW m, m.scope = "all", NEW x, x = ReduceAll(s, m)
    PROVE  Rest(x, s) /\ Leaves(x, s, m)
<1> DEFINE d == IF m.phase = "SUCCESS" THEN [t \in {} |-> FreshRow] ELSE s.data
           b == m.phase = "BEGIN"
<1>1. d \in Data /\ DOMAIN d \subseteq DOMAIN s.data
  BY FreshFacts, SliceFields
<1>2. x = [s EXCEPT !.allActionPending = b, !.data = d]
  BY DEF ReduceAll
<1>3. b \in BOOLEAN
  OBVIOUS
<1> HIDE DEF d, b
<1> QED
  BY <1>1, <1>2, <1>3 DEF Slice, Data, Rest, Leaves

LEMMA BatchFacts ==
    ASSUME NEW s \in Slice, NEW m, m.phase \in Phases, m.scope = "batch", NEW x, x = ReduceBatch(s, m)
    PROVE  /\ x \in Slice /\ x.group = s.group /\ x.batchActionPending = (m.phase = "BEGIN")
           /\ Leaves(x, s, m)
<1> DEFINE f == m.phase = "BEGIN"
           b == [s EXCEPT !.batchActionPending = f]
<1>1. f \in BOOLEAN
  OBVIOUS
<1>2. b \in Slice /\ b.group = s.group /\ b.batchActionPending = f /\ b.data = s.data
  <2> HIDE DEF f
  <2> QED
    BY <1>1 DEF Slice
<1>3. x = CASE m.phase = "BEGIN"   -> Mark(b, m.ids, TRUE)
            [] m.phase = "SUCCESS" -> DropRows(b, m.done)
            [] m.phase = "ERROR"   -> Mark(b, m.ids, FALSE)
  BY DEF ReduceBatch
<1> HIDE DEF b
<1> SUFFICES x \in Slice /\ x.group = s.group /\ x.batchActionPending = f /\ Leaves(x, s, m)
  OBVIOUS
<1>4. CASE m.phase = "BEGIN"
  <2>1. x = Mark(b, m.ids, TRUE)
    BY <1>3, <1>4
  <2>2. Rest(x, b) /\ DOMAIN x.data = DOMAIN b.data
    <3> HIDE DEF f
    <3> QED
      BY <1>2, <2>1, MarkFacts
  <2> HIDE DEF f
  <2> QED
    BY <1>2, <1>4, <2>2 DEF Rest, Leaves
<1>5. CASE m.phase = "SUCCESS"
  <2>1. x = DropRows(b, m.done)
    BY <1>3, <1>5
  <2>2. Rest(x, b) /\ DOMAIN x.data = DOMAIN b.data \ m.done
    BY <1>2, <2>1, DropFacts
  <2> HIDE DEF f
  <2> QED
    BY ZenonT(40), <1>2, <1>5, <2>2 DEF Rest, Leaves
<1>6. CASE m.phase = "ERROR"
  <2>1. x = Mark(b, m.ids, FALSE)
    BY <1>3, <1>6
  <2>2. Rest(x, b) /\ DOMAIN x.data = DOMAIN b.data
    <3> HIDE DEF f
    <3> QED
      BY <1>2, <2>1, MarkFacts
  <2> HIDE DEF f
  <2> QED
    BY <1>2, <1>6, <2>2 DEF Rest, Leaves
<1> QED
  BY <1>4, <1>5, <1>6 DEF Phases

\* The flag of the toolbar after a message.
Flag(s, m) ==
    IF m.scope = "batch" /\ (m.list = "aggregating" => m.group = s.group)
      THEN m.phase = "BEGIN" ELSE s.batchActionPending

LEMMA ActiveFacts ==
    ASSUME NEW s \in Slice, NEW m, m.phase \in Phases, m.scope \in {"one", "batch", "all"},
           m.list = "active", NEW x, x = ReduceActive(s, m)
    PROVE  /\ x \in Slice /\ x.group = s.group /\ x.batchActionPending = Flag(s, m)
           /\ Leaves(x, s, m)
<1> DEFINE hit == IF m.scope = "all" \/ (m.scope = "batch" /\ m.phase = "ERROR") THEN DOMAIN s.data
                  ELSE m.ids
           canceled == CASE m.scope = "batch" -> m.done [] m.scope = "all" -> DOMAIN s.data
                         [] OTHER -> m.ids
           f == IF m.scope = "batch" THEN m.phase = "BEGIN" ELSE s.batchActionPending
           a == IF m.scope = "all" THEN m.phase = "BEGIN" ELSE s.allActionPending
           p == m.phase = "BEGIN"
           flag == [s EXCEPT !.batchActionPending = f, !.allActionPending = a]
           seen == Mark(flag, hit, p)
           d == [t \in DOMAIN seen.data |->
                   IF t \in canceled THEN [seen.data[t] EXCEPT !.canceling = TRUE] ELSE seen.data[t]]
<1>1. f \in BOOLEAN /\ a \in BOOLEAN /\ p \in BOOLEAN
  BY SliceFields
<1>2. f = Flag(s, m)
  BY DEF Flag
<1>3. x = IF m.phase = "SUCCESS" THEN [seen EXCEPT !.data = d] ELSE seen
  BY DEF ReduceActive
<1>4. flag \in Slice /\ flag.group = s.group /\ flag.batchActionPending = f /\ flag.data = s.data
  <2> HIDE DEF f, a
  <2> QED
    BY <1>1 DEF Slice
<1>5. Rest(seen, flag) /\ DOMAIN seen.data = DOMAIN flag.data
  <2> HIDE DEF flag, hit, p
  <2> QED
    BY <1>1, <1>4, MarkFacts
<1>6. seen \in Slice /\ seen.group = s.group /\ seen.batchActionPending = f
      /\ DOMAIN seen.data = DOMAIN s.data
  <2> HIDE DEF seen, flag, f
  <2> QED
    BY <1>4, <1>5 DEF Rest
<1> HIDE DEF seen, flag, f, hit, a, p
<1>7. d \in Data /\ DOMAIN d = DOMAIN s.data
  <2>1. DOMAIN seen.data \in SUBSET Tasks /\ \A t \in DOMAIN seen.data : seen.data[t] \in Row
    BY <1>6, SliceFields, DataFacts
  <2>2. d \in [DOMAIN seen.data -> Row]
    <3> HIDE DEF canceled
    <3> QED
      BY <2>1, RowFacts
  <2> QED
    BY <1>6, <2>1, <2>2, DataFacts
<1> HIDE DEF d
<1>8. x \in Slice /\ x.group = s.group /\ x.batchActionPending = f /\ DOMAIN x.data = DOMAIN s.data
  BY <1>3, <1>6, <1>7 DEF Slice, Data
<1> QED
  BY <1>2, <1>8 DEF Leaves

LEMMA RemovingFacts ==
    ASSUME NEW s \in Slice, NEW m, m.phase \in Phases, m.scope \in {"one", "batch", "all"},
           m.list = "aggregating" => m.group = s.group,
           NEW x, x = ReduceRemoving(s, m)
    PROVE  /\ x \in Slice /\ x.group = s.group /\ x.batchActionPending = Flag(s, m)
           /\ Leaves(x, s, m)
<1>1. CASE m.scope = "one"
  BY <1>1, OneFacts DEF ReduceRemoving, Rest, Flag
<1>2. CASE m.scope = "all"
  BY <1>2, AllFacts DEF ReduceRemoving, Rest, Flag
<1>3. CASE m.scope = "batch"
  <2>1. x = ReduceBatch(s, m)
    BY <1>3 DEF ReduceRemoving
  <2>2. Flag(s, m) = (m.phase = "BEGIN")
    BY <1>3 DEF Flag
  <2> QED
    BY <1>3, <2>1, <2>2, BatchFacts
<1> QED
  BY <1>1, <1>2, <1>3

LEMMA SameFacts ==
    ASSUME NEW s, NEW m
    PROVE  Leaves(s, s, m)
BY DEF Leaves

LEMMA AggregatingFacts ==
    ASSUME NEW s \in Slice, NEW m, m.phase \in Phases, m.scope \in {"one", "batch"},
           m.list = "aggregating", NEW x, x = ReduceAggregating(s, m)
    PROVE  /\ x \in Slice /\ x.group = s.group /\ x.batchActionPending = Flag(s, m)
           /\ Leaves(x, s, m)
<1>1. CASE m.scope = "one"
  BY <1>1, OneFacts DEF ReduceAggregating, Rest, Flag
<1>2. CASE m.scope = "batch" /\ m.group = s.group
  <2>1. x = ReduceBatch(s, m)
    BY <1>2 DEF ReduceAggregating
  <2>2. Flag(s, m) = (m.phase = "BEGIN")
    BY <1>2 DEF Flag
  <2> QED
    BY <1>2, <2>1, <2>2, BatchFacts
<1>3. CASE m.scope = "batch" /\ m.group # s.group
  <2>1. x = s
    BY <1>3 DEF ReduceAggregating
  <2>2. Flag(s, m) = s.batchActionPending
    BY <1>3 DEF Flag
  <2> QED
    BY <2>1, <2>2, SameFacts
<1> QED
  BY <1>1, <1>2, <1>3

LEMMA AggregatingAllFacts ==
    ASSUME NEW s \in Slice, NEW m, m.phase \in Phases, m.scope = "all", NEW x,
           x = ReduceAggregatingAll(s, m)
    PROVE  Rest(x, s) /\ Leaves(x, s, m)
<1>1. CASE s.group # m.group
  <2>1. x = s
    BY <1>1 DEF ReduceAggregatingAll
  <2> QED
    BY <2>1, SameFacts DEF Rest
<1>2. CASE s.group = m.group
  <2> DEFINE y == ReduceAll(s, m)
             e == IF m.phase = "ERROR" THEN TRUE ELSE y.error
  <2>1. x = [y EXCEPT !.error = e]
    BY <1>2 DEF ReduceAggregatingAll
  <2>2. Rest(y, s) /\ Leaves(y, s, m)
    BY AllFacts
  <2>3. y \in Slice
    BY <2>2 DEF Rest
  <2> HIDE DEF y
  <2>4. e \in BOOLEAN
    BY <2>3, SliceFields
  <2> HIDE DEF e
  <2>5. x \in Slice /\ x.group = y.group /\ x.batchActionPending = y.batchActionPending
        /\ x.data = y.data
    BY <2>1, <2>3, <2>4 DEF Slice
  <2> QED
    BY <2>2, <2>5 DEF Rest, Leaves
<1> QED
  BY <1>1, <1>2

\* What a table offers, list by list.
Removers ==
    [pending |-> {"ARCHIVE", "DELETE"}, scheduled |-> {"RUN", "ARCHIVE", "DELETE"},
     retry |-> {"RUN", "ARCHIVE", "DELETE"}, archived |-> {"RUN", "DELETE"}, completed |-> {"DELETE"},
     aggregating |-> {"RUN", "ARCHIVE", "DELETE"}, active |-> {"CANCEL"}]
LEMMA OfferFacts ==
    ASSUME NEW l \in Lists, NEW scope \in {"one", "batch", "all"}
    PROVE  TableOf[l][scope] = Removers[l]
<1> USE DEF TableOf, Removers, Offers, AnyVerb, ActiveTasksTable, PendingTasksTable,
            ScheduledTasksTable, RetryTasksTable, ArchivedTasksTable, CompletedTasksTable,
            AggregatingTasksTableContainer
<1>1. CASE l = "active"
  BY <1>1
<1>2. CASE l = "pending"
  BY <1>2
<1>3. CASE l = "scheduled"
  BY <1>3
<1>4. CASE l = "retry"
  BY <1>4
<1>5. CASE l = "archived"
  BY <1>5
<1>6. CASE l = "completed"
  BY <1>6
<1>7. CASE l = "aggregating"
  BY <1>7
<1> QED
  BY <1>1, <1>2, <1>3, <1>4, <1>5, <1>6, <1>7 DEF Lists

\* A message of an act that the table of its list offers.
LEMMA ActFacts ==
    ASSUME NEW s \in Slice, NEW m, m.phase \in Phases, m.scope \in {"one", "batch", "all"},
           m.list \in Lists, m.verb \in TableOf[m.list][m.scope], NEW x, x = tasksReducer(s, m)
    PROVE  /\ x \in Slice /\ x.group = s.group /\ x.batchActionPending = Flag(s, m)
           /\ Leaves(x, s, m)
<1>1. m.verb \in Removers[m.list]
  BY OfferFacts
<1>2. m.verb # "LIST"
  BY <1>1 DEF Removers, Lists
<1>3. CASE m.list = "active"
  BY <1>2, <1>3, ActiveFacts DEF tasksReducer
<1>4. CASE m.list \in {"pending", "scheduled", "retry", "archived", "completed"}
  <2>1. x = ReduceRemoving(s, m)
    BY <1>1, <1>2, <1>4 DEF tasksReducer, Removers, ReducePending, ReduceScheduled, ReduceRetry,
                            ReduceArchived, ReduceCompleted
  <2> QED
    BY <1>4, <2>1, RemovingFacts
<1>5. CASE m.list = "aggregating" /\ m.scope # "all"
  <2>1. x = ReduceAggregating(s, m)
    BY <1>2, <1>5 DEF tasksReducer
  <2> QED
    BY <1>5, <2>1, AggregatingFacts
<1>6. CASE m.list = "aggregating" /\ m.scope = "all"
  <2>1. x = ReduceAggregatingAll(s, m)
    BY <1>2, <1>6 DEF tasksReducer
  <2> QED
    BY <1>6, <2>1, AggregatingAllFacts DEF Rest, Flag
<1> QED
  BY <1>3, <1>4, <1>5, <1>6 DEF Lists

-----------------------------------------------------------------------------
(* The counts of a queue *)

\* What the lists of a queue add up to.
Altogether(c) ==
    c["active"] + c["pending"] + c["scheduled"] + c["retry"]
      + c["archived"] + c["completed"] + c["aggregating"]
AddsUp(st) == st.size = Altogether(st.count)

Bumped(d, c, k) ==
    d \in [Lists -> Int] /\ Altogether(c) \in Int /\ Altogether(d) = Altogether(c) + k

LEMMA BumpFacts ==
    ASSUME NEW c \in [Lists -> Int], NEW l \in Lists, NEW k \in Int, NEW d, d = [c EXCEPT ![l] = @ + k]
    PROVE  Bumped(d, c, k)
<1>1. d \in [Lists -> Int] /\ d[l] = c[l] + k /\ \A j \in Lists \ {l} : d[j] = c[j]
  OBVIOUS
<1>2. \A j \in Lists : c[j] \in Int /\ d[j] \in Int
  BY <1>1
<1>3. Altogether(c) \in Int
  BY <1>2 DEF Altogether, Lists
<1>4. Altogether(d) = Altogether(c) + k
  <2>1. CASE l = "active"
    BY <1>1, <1>2, <2>1 DEF Altogether, Lists
  <2>2. CASE l = "pending"
    BY <1>1, <1>2, <2>2 DEF Altogether, Lists
  <2>3. CASE l = "scheduled"
    BY <1>1, <1>2, <2>3 DEF Altogether, Lists
  <2>4. CASE l = "retry"
    BY <1>1, <1>2, <2>4 DEF Altogether, Lists
  <2>5. CASE l = "archived"
    BY <1>1, <1>2, <2>5 DEF Altogether, Lists
  <2>6. CASE l = "completed"
    BY <1>1, <1>2, <2>6 DEF Altogether, Lists
  <2>7. CASE l = "aggregating"
    BY <1>1, <1>2, <2>7 DEF Altogether, Lists
  <2> QED
    BY <2>1, <2>2, <2>3, <2>4, <2>5, <2>6, <2>7 DEF Lists
<1> QED
  BY <1>1, <1>3, <1>4 DEF Bumped

LEMMA MovedFacts ==
    ASSUME NEW st \in Stats, NEW from \in Lists, NEW to \in Lists, NEW n \in Int, NEW x, x = Moved(st, from, to, n)
    PROVE  /\ x \in Stats
           /\ AddsUp(st) => AddsUp(x)
<1> DEFINE c == [st.count EXCEPT ![from] = @ + (-n)]
           d == [c EXCEPT ![to] = @ + n]
<1>1. st.count \in [Lists -> Int] /\ st.size \in Int /\ -n \in Int
  BY DEF Stats
<1>2. Bumped(c, st.count, -n)
  BY <1>1, BumpFacts
<1>3. Bumped(d, c, n)
  <2>1. c \in [Lists -> Int]
    BY <1>2 DEF Bumped
  <2>2. d = [c EXCEPT ![to] = @ + n]
    OBVIOUS
  <2> HIDE DEF c, d
  <2> QED
    BY <2>1, <2>2, BumpFacts
<1>4. x \in Stats /\ x.size = st.size /\ x.count = d
  <2> DEFINE y == [st EXCEPT !.count[from] = @ - n]
  <2>1. x = [y EXCEPT !.count[to] = @ + n]
    BY DEF Moved
  <2>2. y = [st EXCEPT !.count = c]
    <3>1. \A l \in Lists : st.count[l] \in Int
      BY <1>1
    <3>2. c = [st.count EXCEPT ![from] = @ - n]
      BY <1>1, <3>1
    <3> HIDE DEF c
    <3> QED
      BY <3>2
  <2>3. y \in Stats /\ y.size = st.size /\ y.count = c
    <3> HIDE DEF c, y
    <3> QED
      BY <1>2, <2>2 DEF Stats, Bumped
  <2>4. x = [y EXCEPT !.count = [y.count EXCEPT ![to] = @ + n]]
    BY <2>1
  <2>5. x = [y EXCEPT !.count = d]
    <3> HIDE DEF c, y
    <3> QED
      BY <2>3, <2>4
  <2> HIDE DEF c, d, y
  <2> QED
    BY <1>3, <2>3, <2>5 DEF Stats, Bumped
<1> HIDE DEF c, d
<1> QED
  BY <1>1, <1>2, <1>3, <1>4 DEF AddsUp, Bumped

LEMMA DroppedFacts ==
    ASSUME NEW st \in Stats, NEW from \in Lists, NEW n \in Nat, NEW x, x = Dropped(st, from, n)
    PROVE  x \in Stats /\ (AddsUp(st) => AddsUp(x))
<1> DEFINE c == [st.count EXCEPT ![from] = @ + (-n)]
           z == st.size - n
<1>1. st.count \in [Lists -> Int] /\ st.size \in Int /\ -n \in Int /\ z \in Int
  BY DEF Stats
<1>2. Bumped(c, st.count, -n)
  BY <1>1, BumpFacts
<1>3. x = [st EXCEPT !.size = z, !.count = c]
  <2>1. \A l \in Lists : st.count[l] \in Int
    BY <1>1
  <2>2. c = [st.count EXCEPT ![from] = @ - n]
    BY <1>1, <2>1
  <2> HIDE DEF c
  <2>3. x = [st EXCEPT !.size = z, !.count = [st.count EXCEPT ![from] = @ - n]]
    BY DEF Dropped, Stats
  <2> QED
    BY <2>2, <2>3
<1>4. AddsUp(st) => z = Altogether(c)
  <2> HIDE DEF c
  <2> QED
    BY <1>1, <1>2 DEF AddsUp, Bumped
<1> HIDE DEF c, z
<1>5. x \in Stats /\ x.size = z /\ x.count = c
  BY <1>1, <1>2, <1>3 DEF Stats, Bumped
<1> QED
  BY <1>4, <1>5 DEF AddsUp

\* The answer to an act moves counts between the lists. Only a delete of a whole list, which no
\* table of a bulk list sends, takes off the size another number than it takes off the list.
LEMMA CountFacts ==
    ASSUME NEW st \in Stats, NEW m, m.phase \in Phases, m.scope \in {"one", "batch", "all"},
           m.list \in Lists, m.verb \in TableOf[m.list][m.scope], m.done \subseteq Tasks, m.count \in Nat,
           NEW x, x = queuesReducer(st, m)
    PROVE  /\ x \in Stats
           /\ AddsUp(st) /\ (m.scope = "all" => m.list = "aggregating") => AddsUp(x)
<1>1. m.verb \in Removers[m.list]
  BY OfferFacts
<1>2. m.verb \in {"CANCEL", "DELETE", "RUN", "ARCHIVE"}
  BY <1>1 DEF Removers, Lists
<1>3. Target(m.verb) \in Lists
  BY DEF Target, Lists
<1>4. CASE m.phase # "SUCCESS" \/ m.verb = "CANCEL"
  BY <1>4 DEF queuesReducer
<1>5. CASE m.phase = "SUCCESS" /\ m.verb # "CANCEL" /\ m.scope = "one"
  <2>1. x = CountOne(st, m)
    BY <1>5 DEF queuesReducer
  <2>2. CASE m.verb = "DELETE"
    <3>1. x = Dropped(st, m.list, 1) /\ 1 \in Nat
      BY <2>1, <2>2 DEF CountOne
    <3> QED
      BY <3>1, DroppedFacts
  <2>3. CASE m.verb # "DELETE"
    <3>1. x = Moved(st, m.list, Target(m.verb), 1) /\ 1 \in Int
      BY <2>1, <2>3 DEF CountOne
    <3> QED
      BY <1>2, <1>3, <1>5, <2>3, <3>1, MovedFacts
  <2> QED
    BY <2>2, <2>3
<1>6. CASE m.phase = "SUCCESS" /\ m.verb # "CANCEL" /\ m.scope = "batch"
  <2> DEFINE n == Cardinality(m.done)
  <2>1. x = CountBatch(st, m)
    BY <1>6 DEF queuesReducer
  <2>2. n \in Nat
    BY FS_Subset, FS_CardinalityType, WorkspaceAssumption
  <2>3. CASE m.verb = "DELETE"
    <3>1. x = Dropped(st, m.list, n)
      BY <2>1, <2>3 DEF CountBatch
    <3> HIDE DEF n
    <3> QED
      BY <2>2, <3>1, DroppedFacts
  <2>4. CASE m.verb # "DELETE"
    <3>1. x = Moved(st, m.list, Target(m.verb), n)
      BY <2>1, <2>4 DEF CountBatch
    <3> HIDE DEF n
    <3>2. n \in Int
      BY <2>2
    <3> QED
      BY <1>2, <1>3, <1>6, <2>4, <3>1, <3>2, MovedFacts
  <2> QED
    BY <2>3, <2>4
<1>7. CASE m.phase = "SUCCESS" /\ m.verb # "CANCEL" /\ m.scope = "all" /\ m.list # "aggregating"
  <2>1. x = CountAll(st, m)
    BY <1>7 DEF queuesReducer
  <2>2. st.count \in [Lists -> Int] /\ st.size \in Int /\ st.count[m.list] \in Int
    BY DEF Stats
  <2>3. CASE m.verb = "DELETE"
    <3> DEFINE z == st.size - m.count
               c == [st.count EXCEPT ![m.list] = 0]
    <3>1. x = [st EXCEPT !.size = z, !.count = c]
      BY <2>1, <2>3 DEF CountAll, Stats
    <3>2. z \in Int /\ c \in [Lists -> Int]
      BY <2>2
    <3> HIDE DEF z, c
    <3>3. x \in Stats
      BY <3>1, <3>2 DEF Stats
    <3> QED
      BY <1>7, <3>3
  <2>4. CASE m.verb # "DELETE"
    <3>1. x = Moved(st, m.list, Target(m.verb), st.count[m.list])
      BY <2>1, <2>4 DEF CountAll
    <3>2. x \in Stats
      BY <1>3, <2>2, <3>1, MovedFacts
    <3> QED
      BY <1>7, <3>2
  <2> QED
    BY <2>3, <2>4
<1>8. CASE m.phase = "SUCCESS" /\ m.verb # "CANCEL" /\ m.scope = "all" /\ m.list = "aggregating"
  <2> DEFINE z == st.groups - 1
             g == [st EXCEPT !.groups = z]
  <2>1. x = IF m.verb = "DELETE" THEN Dropped(g, m.list, m.count)
            ELSE Moved(g, m.list, Target(m.verb), m.count)
    BY <1>8 DEF queuesReducer, CountGroup
  <2>2. z \in Int
    BY DEF Stats
  <2>3. g \in Stats /\ (AddsUp(st) => AddsUp(g))
    <3> HIDE DEF z
    <3> QED
      BY <2>2 DEF Stats, AddsUp
  <2> HIDE DEF g
  <2>4. CASE m.verb = "DELETE"
    BY <2>1, <2>3, <2>4, DroppedFacts
  <2>5. CASE m.verb # "DELETE"
    <3>1. x = Moved(g, m.list, Target(m.verb), m.count) /\ m.count \in Int
      BY <2>1, <2>5
    <3> QED
      BY <1>3, <1>8, <2>3, <3>1, MovedFacts
  <2> QED
    BY <2>4, <2>5
<1> QED
  BY <1>4, <1>5, <1>6, <1>7, <1>8

-----------------------------------------------------------------------------
(* What a commit does to the requests in flight *)

\* The requests of a table that goes away are nobody's.
Kept(ns, m) == [i \in DOMAIN ns |-> [ns[i] EXCEPT !.mine = @ /\ (m \/ ns[i].scope # "batch")]]

LEMMA KeptFacts ==
    ASSUME NEW ns \in Seq(Requests), NEW m \in BOOLEAN
    PROVE  /\ Kept(ns, m) \in Seq(Requests) /\ DOMAIN Kept(ns, m) = DOMAIN ns
           /\ \A i \in DOMAIN ns : Alike(Kept(ns, m)[i], ns[i]) /\ Kept(ns, m)[i].awaited = ns[i].awaited
<1>1. /\ DOMAIN Kept(ns, m) = DOMAIN ns /\ DOMAIN ns = 1..Len(ns) /\ Len(ns) \in Nat
      /\ \A i \in DOMAIN ns : ns[i] \in Requests
  BY DEF Kept
<1>2. \A i \in DOMAIN ns : Kept(ns, m)[i] \in Requests /\ Alike(Kept(ns, m)[i], ns[i])
                           /\ Kept(ns, m)[i].awaited = ns[i].awaited
  <2> TAKE i \in DOMAIN ns
  <2> DEFINE b == ns[i].mine /\ (m \/ ns[i].scope # "batch")
  <2>1. Kept(ns, m)[i] = [ns[i] EXCEPT !.mine = b]
    BY DEF Kept
  <2>2. b \in BOOLEAN
    BY <1>1, RequestFields
  <2> HIDE DEF b
  <2> QED
    BY <1>1, <2>1, <2>2, MineFacts
<1>3. Kept(ns, m) \in [1..Len(ns) -> Requests]
  BY <1>1, <1>2 DEF Kept
<1> QED
  BY <1>1, <1>2, <1>3

LEMMA SupersedeFacts ==
    ASSUME NEW ns \in Seq(Requests), NEW l
    PROVE  /\ Supersede(ns, l) \in Seq(Requests) /\ DOMAIN Supersede(ns, l) = DOMAIN ns
           /\ \A i \in DOMAIN ns :
                \/ Supersede(ns, l)[i] = ns[i] /\ ~(ns[i].kind = "list" /\ ns[i].list = l)
                \/ Supersede(ns, l)[i] = Overtaken(ns[i])
<1>1. DOMAIN ns = 1..Len(ns) /\ Len(ns) \in Nat /\ \A i \in DOMAIN ns : ns[i] \in Requests
  OBVIOUS
<1>2. \A i \in DOMAIN ns : Overtaken(ns[i]) \in Requests
  BY <1>1, OvertakenFacts
<1>3. Supersede(ns, l) \in [1..Len(ns) -> Requests] /\ DOMAIN Supersede(ns, l) = DOMAIN ns
  BY <1>1, <1>2 DEF Supersede
<1> QED
  BY <1>1, <1>3 DEF Supersede

LEMMA Fronted ==
    ASSUME NEW S, NEW s \in Seq(S), NEW r \in S, NEW X
    PROVE  /\ <<r>> \o s \in Seq(S)
           /\ \A j \in DOMAIN (<<r>> \o s) : (<<r>> \o s)[j] = r \/ \E k \in DOMAIN s : (<<r>> \o s)[j] = s[k]
           /\ AtMostOne(s, X) /\ (r \in X => ~Some(s, X)) => AtMostOne(<<r>> \o s, X)
           /\ Some(<<r>> \o s, X) <=> r \in X \/ Some(s, X)
<1> DEFINE t == <<r>> \o s
<1>1. t \in Seq(S) /\ DOMAIN t = 1..(Len(s) + 1) /\ DOMAIN s = 1..Len(s) /\ Len(s) \in Nat
  OBVIOUS
<1>2. /\ t[1] = r /\ 1 \in DOMAIN t
      /\ \A j \in DOMAIN s : j + 1 \in DOMAIN t /\ t[j + 1] = s[j]
      /\ \A j \in DOMAIN t \ {1} : j - 1 \in DOMAIN s /\ t[j] = s[j - 1]
  BY <1>1
<1> HIDE DEF t
<1>3. \A j \in DOMAIN t : t[j] = r \/ \E k \in DOMAIN s : t[j] = s[k]
  BY <1>2
<1>4. ASSUME AtMostOne(s, X), r \in X => ~Some(s, X), NEW j \in DOMAIN t, NEW k \in DOMAIN t,
             t[j] \in X, t[k] \in X
      PROVE  j = k
  <2>1. CASE j = 1 \/ k = 1
    BY <1>2, <1>4, <2>1 DEF Some
  <2>2. CASE j # 1 /\ k # 1
    <3>1. j - 1 = k - 1
      BY <1>2, <1>4, <2>2 DEF AtMostOne
    <3> QED
      BY <1>1, <3>1
  <2> QED
    BY <2>1, <2>2
<1>5. Some(t, X) <=> r \in X \/ Some(s, X)
  BY <1>2 DEF Some
<1> QED
  BY <1>1, <1>3, <1>4, <1>5 DEF t, AtMostOne

-----------------------------------------------------------------------------
(* A commit *)

LEMMA GroupFacts ==
    ASSUME NEW u \in Views, NEW gs \in GroupStates
    PROVE  /\ CurrentGroup(u, gs) \in Groups \cup {NoGroup}
           /\ u.list # "aggregating" => CurrentGroup(u, gs) = NoGroup /\ TableShown(u, gs)
           /\ u.list = "aggregating" /\ TableShown(u, gs) =>
                CurrentGroup(u, gs) \in Groups /\ CurrentGroup(u, gs) \in DOMAIN gs.data
<1>1. DOMAIN gs.data \subseteq Groups
  BY DEF GroupStates, Sizes
<1>2. CASE u.list # "aggregating"
  BY <1>2 DEF CurrentGroup, TableShown
<1>3. CASE u.list = "aggregating" /\ u.group \in DOMAIN gs.data
  BY <1>1, <1>3 DEF CurrentGroup
<1>4. CASE u.list = "aggregating" /\ u.group \notin DOMAIN gs.data
  <2>1. CurrentGroup(u, gs) = IF DOMAIN gs.data = {} THEN NoGroup ELSE CHOOSE g \in DOMAIN gs.data : TRUE
    BY <1>4 DEF CurrentGroup
  <2>2. DOMAIN gs.data # {} => CurrentGroup(u, gs) \in DOMAIN gs.data
    BY <2>1
  <2>3. DOMAIN gs.data = {} => CurrentGroup(u, gs) = NoGroup
    BY <2>1
  <2> QED
    BY <1>1, <1>4, <2>2, <2>3 DEF TableShown
<1> QED
  BY <1>2, <1>3, <1>4

LEMMA Quotient ==
    ASSUME NEW a \in Nat, NEW b \in Nat \ {0}
    PROVE  a \div b \in Nat
OBVIOUS

LEMMA TotalFacts ==
    ASSUME NEW u \in Views, NEW gs \in GroupStates, NEW cs \in [Lists -> Nat], TableShown(u, gs)
    PROVE  totalTaskCount(u, gs, cs) \in Nat /\ LastPage(totalTaskCount(u, gs, cs)) \in Nat
<1>1. totalTaskCount(u, gs, cs) \in Nat
  <2>1. CASE u.list = "aggregating"
    <3>1. PICK G \in SUBSET Groups : gs.data \in [G -> 0..Cardinality(Tasks)]
      BY DEF GroupStates, Sizes
    <3>2. CurrentGroup(u, gs) \in G
      BY <2>1, <3>1, GroupFacts
    <3>3. 0..Cardinality(Tasks) \subseteq Nat
      BY FS_CardinalityType, WorkspaceAssumption
    <3> QED
      BY <2>1, <3>1, <3>2, <3>3 DEF totalTaskCount
  <2>2. CASE u.list # "aggregating"
    <3>1. u.list \in Lists
      BY WorkspaceAssumption DEF Views
    <3> QED
      BY <2>2, <3>1 DEF totalTaskCount
  <2> QED
    BY <2>1, <2>2
<1>2. \A n \in Nat : LastPage(n) \in Nat
  <2> TAKE n \in Nat
  <2>1. CASE n = 0
    BY <2>1 DEF LastPage
  <2>2. CASE n # 0
    <3>1. n - 1 \in Nat /\ PageSize \in Nat \ {0}
      BY <2>2, WorkspaceAssumption
    <3> QED
      BY <2>2, <3>1, Quotient DEF LastPage
  <2> QED
    BY <2>1, <2>2
<1> QED
  BY <1>1, <1>2

\* The table stays: it is on screen, was before, and is of the same queue, list and group.
Stays(u, gs) ==
    /\ TableShown(u, gs) /\ TableShown(ui, groups)
    /\ u.queue = ui.queue /\ u.list = ui.list /\ CurrentGroup(u, gs) = CurrentGroup(ui, groups)

\* The listing that is asked for when the table u, gs is drawn.
Asks(r, u, gs) ==
    /\ Fresh(r, "list", u.queue) /\ r.list = u.list /\ r.group = CurrentGroup(u, gs)
    /\ r.verb = "LIST" /\ r.scope = "all" /\ r.ids = {}
Fetches(r, l, ns, ts) ==
    /\ net' = SendList(ns, r)
    /\ tasks' = [ts EXCEPT ![l] = tasksReducer(@, Msg(r, "BEGIN"))]

\* A commit keeps a table that stays, and otherwise asks for its rows anew.
Draws(u, gs, ns, ts) ==
    /\ ui' \in Views /\ ui'.queue = u.queue /\ ui'.list = u.list /\ ui'.group = u.group
    /\ \E m \in BOOLEAN :
         \/ (Stays(u, gs) \/ ~TableShown(u, gs)) /\ net' = Kept(ns, m) /\ tasks' = ts
         \/ TableShown(u, gs) /\ \E r : Asks(r, u, gs) /\ Fetches(r, u.list, Kept(ns, m), ts)

LEMMA SameView ==
    ASSUME NEW u, NEW v, NEW gs, v.queue = u.queue, v.list = u.list, v.group = u.group
    PROVE  CurrentGroup(v, gs) = CurrentGroup(u, gs) /\ TableShown(v, gs) = TableShown(u, gs)
<1>1. CurrentGroup(v, gs) = CurrentGroup(u, gs)
  BY DEF CurrentGroup
<1> QED
  BY <1>1 DEF TableShown

LEMMA RenderFacts ==
    ASSUME ui \in Views, NEW u \in Views, NEW gs \in GroupStates, NEW cs \in [Lists -> Nat],
           NEW ns, NEW ts, Render(u, gs, cs, ns, ts)
    PROVE  Draws(u, gs, ns, ts)
<1> DEFINE shown    == TableShown(u, gs)
           mounted  == shown /\ TableShown(ui, groups) /\ TableKey(u, gs) = TableKey(ui, groups)
           last     == IF shown THEN LastPage(totalTaskCount(u, gs, cs)) ELSE 0
           page     == CASE ~mounted -> 0 [] mounted /\ u.page > last -> last [] OTHER -> u.page
           selected == IF mounted /\ page = ui.page THEN u.selected ELSE {}
           view     == [u EXCEPT !.page = page, !.selected = selected]
           request  == ListRequest(view, CurrentGroup(u, gs))
           fetch    == shown /\ (~mounted \/ page # ui.page)
<1>1. /\ ui' = view
      /\ net' = IF fetch THEN SendList(Kept(ns, mounted), request) ELSE Kept(ns, mounted)
      /\ tasks' = IF fetch THEN [ts EXCEPT ![u.list] = tasksReducer(@, Msg(request, "BEGIN"))] ELSE ts
  BY DEF Render, Kept
<1>2. mounted \in BOOLEAN
  OBVIOUS
<1>3. mounted => Stays(u, gs)
  BY DEF Stays, TableKey
<1>4. page \in Nat
  <2>1. last \in Nat
    BY TotalFacts
  <2>2. u.page \in Nat
    BY DEF Views
  <2> HIDE DEF last, mounted
  <2> QED
    BY <2>1, <2>2
<1>5. selected \in SUBSET Tasks
  <2>1. u.selected \in SUBSET Tasks
    BY DEF Views
  <2> HIDE DEF page, mounted
  <2> QED
    BY <2>1
<1>6. view \in Views /\ view.queue = u.queue /\ view.list = u.list /\ view.group = u.group
  <2> HIDE DEF page, selected
  <2> QED
    BY <1>4, <1>5 DEF Views
<1>7. Asks(request, u, gs)
  <2>1. view.queue \in Queues /\ view.list \in Lists /\ view.page \in Nat
    BY <1>6, WorkspaceAssumption DEF Views
  <2>2. CurrentGroup(u, gs) \in Groups \cup {NoGroup}
    BY GroupFacts
  <2> HIDE DEF view
  <2> QED
    BY <1>6, <2>1, <2>2, ListRequestFacts DEF Asks
<1>8. ~fetch => Stays(u, gs) \/ ~TableShown(u, gs)
  BY <1>3
<1>9. fetch => TableShown(u, gs)
  OBVIOUS
<1> HIDE DEF view, request, fetch, mounted, page, selected, last
<1>10. CASE fetch
  <2>1. Fetches(request, u.list, Kept(ns, mounted), ts)
    BY <1>1, <1>10 DEF Fetches
  <2> QED
    BY <1>1, <1>2, <1>6, <1>7, <1>9, <1>10, <2>1 DEF Draws
<1>11. CASE ~fetch
  BY <1>1, <1>2, <1>6, <1>8, <1>11 DEF Draws
<1> QED
  BY <1>10, <1>11

\* The store after a message of a listing.
Listed(new, old, l, r, phase) ==
    /\ new \in [Lists -> Slice] /\ new[l].group = r.group
    /\ phase = "BEGIN" => DOMAIN new[l].data = DOMAIN old[l].data
    /\ phase = "SUCCESS" => DOMAIN new[l].data = r.rows
    /\ phase = "ERROR" => DOMAIN new[l].data = {}
    /\ \A k \in Lists : new[k].batchActionPending = old[k].batchActionPending
    /\ \A k \in Lists \ {l} : new[k] = old[k]

LEMMA ListedFacts ==
    ASSUME NEW r, r.verb = "LIST", r.group \in Groups \cup {NoGroup}, r.rows \subseteq Tasks,
           NEW l \in Lists, NEW old \in [Lists -> Slice], NEW phase \in Phases, NEW new,
           new = [old EXCEPT ![l] = tasksReducer(@, Msg(r, phase))]
    PROVE  Listed(new, old, l, r, phase)
<1> DEFINE m == Msg(r, phase)
           x == ReduceList(old[l], m)
<1>1. m.phase = phase /\ m.group = r.group /\ m.rows = r.rows /\ m.verb = "LIST"
  BY DEF Msg
<1>2. tasksReducer(old[l], m) = x
  <2> HIDE DEF m
  <2> QED
    BY <1>1 DEF tasksReducer
<1>3. old[l] \in Slice
  OBVIOUS
<1>4. /\ x \in Slice /\ x.group = r.group /\ x.batchActionPending = old[l].batchActionPending
      /\ phase = "BEGIN" => DOMAIN x.data = DOMAIN old[l].data
      /\ phase = "SUCCESS" => DOMAIN x.data = r.rows
      /\ phase = "ERROR" => DOMAIN x.data = {}
  <2> HIDE DEF m
  <2> QED
    BY <1>1, <1>3, ListFacts
<1>5. new = [old EXCEPT ![l] = x]
  BY <1>2
<1> HIDE DEF x, m
<1> QED
  BY <1>4, <1>5 DEF Listed

\* A table that stays: nothing but the owner of a request changes.
LEMMA KeptInvariants ==
    ASSUME NEW ns \in Seq(Requests), NEW m \in BOOLEAN, NEW ts, NEW shown, NEW n, NEW hit, NEW u, NEW gs,
           u.list \in Lists
    PROVE  /\ RequestsAreSound(ns, n, hit) => RequestsAreSound(Kept(ns, m), n, hit)
           /\ ListsInTurn(ns, ts, shown) => ListsInTurn(Kept(ns, m), ts, shown)
           /\ BatchesInTurn(ns, ts) => BatchesInTurn(Kept(ns, m), ts)
           /\ TableIsOf(u, gs, ns, ts) => TableIsOf(u, gs, Kept(ns, m), ts)
<1> DEFINE ks == Kept(ns, m)
<1>1. /\ ks \in Seq(Requests) /\ DOMAIN ks = DOMAIN ns
      /\ \A i \in DOMAIN ns : Alike(ks[i], ns[i]) /\ ks[i].awaited = ns[i].awaited
  BY KeptFacts
<1> HIDE DEF ks
<1>2. \A i \in DOMAIN ns : ns[i] \in Requests /\ ks[i] \in Requests
  BY <1>1
<1>3. \A l \in Lists : \A i \in DOMAIN ns : (ks[i] \in Listings(l) <=> ns[i] \in Listings(l))
                                            /\ (ks[i] \in Batches(l) <=> ns[i] \in Batches(l))
  BY <1>1, <1>2 DEF Alike, Listings, Batches
<1>4. \A l \in Lists : /\ AtMostOne(ns, Listings(l)) => AtMostOne(ks, Listings(l))
                       /\ AtMostOne(ns, Batches(l)) => AtMostOne(ks, Batches(l))
                       /\ Some(ns, Listings(l)) <=> Some(ks, Listings(l))
                       /\ Some(ns, Batches(l)) <=> Some(ks, Batches(l))
  BY <1>1, <1>3 DEF AtMostOne, Some
<1>5. RequestsAreSound(ns, n, hit) => RequestsAreSound(ks, n, hit)
  <2> SUFFICES ASSUME RequestsAreSound(ns, n, hit), NEW i \in DOMAIN ns
               PROVE  IsListing(ks[i], n) /\ IsAct(ks[i], hit)
    BY <1>1 DEF RequestsAreSound
  <2>1. IsListing(ns[i], n) /\ IsAct(ns[i], hit)
    BY DEF RequestsAreSound
  <2>2. Alike(ks[i], ns[i]) /\ ks[i].awaited = ns[i].awaited
    BY <1>1
  <2>3. IsListing(ks[i], n)
    BY <2>1, <2>2 DEF IsListing, Alike
  <2>4. IsAct(ks[i], hit)
    BY <2>1, <2>2 DEF IsAct, Alike
  <2> QED
    BY <2>3, <2>4
<1>6. ListsInTurn(ns, ts, shown) => ListsInTurn(ks, ts, shown)
  BY <1>1, <1>3, <1>4 DEF ListsInTurn, Alike
<1>7. BatchesInTurn(ns, ts) => BatchesInTurn(ks, ts)
  BY <1>4 DEF BatchesInTurn
<1>8. TableIsOf(u, gs, ns, ts) => TableIsOf(u, gs, ks, ts)
  BY <1>1, <1>3, <1>4 DEF TableIsOf, Alike
<1> QED
  BY <1>5, <1>6, <1>7, <1>8 DEF ks

\* Asking for the rows: older listings of the list do not count any more.
LEMMA FetchFacts ==
    ASSUME NEW ks \in Seq(Requests), NEW ts \in [Lists -> Slice], NEW u \in Views, NEW gs \in GroupStates,
           NEW r, Asks(r, u, gs), Fetches(r, u.list, ks, ts)
    PROVE  /\ net' \in Seq(Requests) /\ tasks' \in [Lists -> Slice] /\ u.list \in Lists
           /\ tasks'[u.list].group = CurrentGroup(u, gs)
           /\ \A l \in Lists : tasks'[l].batchActionPending = ts[l].batchActionPending
           /\ \A l \in Lists \ {u.list} : tasks'[l] = ts[l]
           /\ \A j \in DOMAIN net' : \/ net'[j] = r
                                     \/ \E i \in DOMAIN ks : net'[j] = ks[i] \/ net'[j] = Overtaken(ks[i])
           /\ \A j \in DOMAIN net' : net'[j] \in Listings(u.list) => net'[j] = r
           /\ Some(net', Listings(u.list)) /\ AtMostOne(net', Listings(u.list))
           /\ \A l \in Lists \ {u.list} : AtMostOne(ks, Listings(l)) => AtMostOne(net', Listings(l))
           /\ \A l \in Lists : AtMostOne(ks, Batches(l)) => AtMostOne(net', Batches(l))
           /\ \A l \in Lists : Some(net', Batches(l)) <=> Some(ks, Batches(l))
<1>1. /\ r \in Requests /\ r.kind = "list" /\ r.stale = FALSE /\ r.list = u.list
      /\ r.verb = "LIST" /\ r.rows \subseteq Tasks
  BY DEF Asks, Fresh
<1>2. u.list \in Lists /\ r.group = CurrentGroup(u, gs) /\ r.group \in Groups \cup {NoGroup}
  BY <1>1, GroupFacts, WorkspaceAssumption DEF Asks, Views
<1> DEFINE sup == Supersede(ks, u.list)
<1>3. net' = <<r>> \o sup /\ tasks' = [ts EXCEPT ![u.list] = tasksReducer(@, Msg(r, "BEGIN"))]
  BY <1>1 DEF Fetches, SendList
<1>4. /\ tasks' \in [Lists -> Slice] /\ tasks'[u.list].group = r.group
      /\ \A l \in Lists : tasks'[l].batchActionPending = ts[l].batchActionPending
      /\ \A l \in Lists \ {u.list} : tasks'[l] = ts[l]
  <2>1. "BEGIN" \in Phases
    BY DEF Phases
  <2>2. Listed(tasks', ts, u.list, r, "BEGIN")
    BY <1>1, <1>2, <1>3, <2>1, ListedFacts
  <2> QED
    BY <2>2 DEF Listed
<1>5. /\ sup \in Seq(Requests) /\ DOMAIN sup = DOMAIN ks
      /\ \A i \in DOMAIN ks : \/ sup[i] = ks[i] /\ ~(ks[i].kind = "list" /\ ks[i].list = u.list)
                              \/ sup[i] = Overtaken(ks[i])
  BY SupersedeFacts
<1> HIDE DEF sup
<1>6. \A i \in DOMAIN ks : ks[i] \in Requests
  OBVIOUS
<1>7. \A i \in DOMAIN ks : Overtaken(ks[i]).kind = "list" /\ Overtaken(ks[i]).stale = TRUE
  BY <1>6, OvertakenFacts
<1>8. ~Some(sup, Listings(u.list))
  BY <1>5, <1>7 DEF Some, Listings
<1>9. AtMostOne(sup, Listings(u.list))
  BY <1>8 DEF Some, AtMostOne
<1>10. r \in Listings(u.list) /\ \A l \in Lists : (l # u.list => r \notin Listings(l)) /\ r \notin Batches(l)
  BY <1>1 DEF Listings, Batches
<1>11. \A l \in Lists : \A i \in DOMAIN ks : /\ sup[i] \in Listings(l) => ks[i] \in Listings(l)
                                             /\ sup[i] \in Batches(l) => ks[i] \in Batches(l)
  BY <1>5, <1>7 DEF Listings, Batches
<1>12. \A l \in Lists : \A i \in DOMAIN ks : ks[i] \in Batches(l) => sup[i] \in Batches(l)
  <2> SUFFICES ASSUME NEW l \in Lists, NEW i \in DOMAIN ks, ks[i] \in Batches(l)
               PROVE  sup[i] = ks[i]
    OBVIOUS
  <2>1. Supersede(ks, u.list)[i] = ks[i]
    BY DEF Supersede, Batches
  <2> QED
    BY <2>1 DEF sup
<1>13. \A l \in Lists : /\ AtMostOne(ks, Listings(l)) => AtMostOne(sup, Listings(l))
                        /\ AtMostOne(ks, Batches(l)) => AtMostOne(sup, Batches(l))
                        /\ Some(ks, Batches(l)) <=> Some(sup, Batches(l))
  BY <1>5, <1>11, <1>12 DEF AtMostOne, Some
<1>14. net' \in Seq(Requests)
  BY <1>1, <1>3, <1>5, Fronted
<1>15. \A j \in DOMAIN net' : net'[j] = r \/ \E i \in DOMAIN sup : net'[j] = sup[i]
  BY <1>1, <1>3, <1>5, Fronted
<1>16. \A X : /\ AtMostOne(sup, X) /\ (r \in X => ~Some(sup, X)) => AtMostOne(net', X)
              /\ Some(net', X) <=> r \in X \/ Some(sup, X)
  BY <1>1, <1>3, <1>5, Fronted
<1>17. \A j \in DOMAIN net' : net'[j] \in Listings(u.list) => net'[j] = r
  BY <1>8, <1>15 DEF Some
<1>18. AtMostOne(net', Listings(u.list)) /\ Some(net', Listings(u.list))
  BY <1>8, <1>9, <1>10, <1>16
<1>19. \A l \in Lists \ {u.list} : AtMostOne(ks, Listings(l)) => AtMostOne(net', Listings(l))
  BY <1>10, <1>13, <1>16
<1>20. \A l \in Lists : /\ AtMostOne(ks, Batches(l)) => AtMostOne(net', Batches(l))
                        /\ Some(net', Batches(l)) <=> Some(ks, Batches(l))
  BY <1>10, <1>13, <1>16
<1> QED
  BY <1>2, <1>4, <1>5, <1>14, <1>15, <1>17, <1>18, <1>19, <1>20

LEMMA FetchInvariants ==
    ASSUME NEW ks \in Seq(Requests), NEW ts \in [Lists -> Slice], NEW u \in Views, NEW gs \in GroupStates,
           NEW r, Asks(r, u, gs), Fetches(r, u.list, ks, ts), NEW shown, NEW n \in Nat, NEW hit
    PROVE  /\ RequestsAreSound(ks, n, hit) => RequestsAreSound(net', n, hit)
           /\ ListsInTurn(ks, ts, shown) => ListsInTurn(net', tasks', shown)
           /\ BatchesInTurn(ks, ts) => BatchesInTurn(net', tasks')
           /\ TableIsOf(u, gs, net', tasks')
<1>1. \A j \in DOMAIN net' : \/ net'[j] = r
                             \/ \E i \in DOMAIN ks : net'[j] = ks[i] \/ net'[j] = Overtaken(ks[i])
  BY FetchFacts
<1>2. \A i \in DOMAIN ks : ks[i] \in Requests
  OBVIOUS
<1>3. RequestsAreSound(ks, n, hit) => RequestsAreSound(net', n, hit)
  <2>1. IsListing(r, n) /\ IsAct(r, hit)
    BY DEF Asks, Fresh, IsListing, IsAct
  <2>2. ASSUME NEW x \in Requests
        PROVE  IsListing(Overtaken(x), n) /\ IsAct(Overtaken(x), hit)
    <3> DEFINE y == Overtaken(x)
    <3>1. /\ y.kind = "list" /\ y.status = "ok" /\ y.rows = {} /\ y.verb = "LIST" /\ y.scope = "all"
          /\ y.ids = {} /\ y.done = {} /\ y.n = 0 /\ y.awaited = TRUE /\ y.at = 0
      BY OvertakenFacts
    <3> HIDE DEF y
    <3>2. IsListing(y, n) /\ IsAct(y, hit)
      BY <3>1 DEF IsListing, IsAct
    <3> QED
      BY <3>2 DEF y
  <2> QED
    BY <1>1, <1>2, <2>1, <2>2 DEF RequestsAreSound
<1>4. ListsInTurn(ks, ts, shown) => ListsInTurn(net', tasks', shown)
  <2> SUFFICES ASSUME ListsInTurn(ks, ts, shown), NEW l \in Lists
               PROVE  /\ AtMostOne(net', Listings(l))
                      /\ \A j \in DOMAIN net' : net'[j] \in Listings(l) =>
                            /\ net'[j].group = tasks'[l].group
                            /\ net'[j].status = "ok" => shown[l] <= net'[j].at
    BY DEF ListsInTurn
  <2>1. CASE l = u.list
    <3>1. AtMostOne(net', Listings(l)) /\ tasks'[l].group = CurrentGroup(u, gs)
          /\ \A j \in DOMAIN net' : net'[j] \in Listings(l) => net'[j] = r
      BY <2>1, FetchFacts
    <3>2. r.group = CurrentGroup(u, gs) /\ r.status = "sent"
      BY DEF Asks, Fresh
    <3> QED
      BY <3>1, <3>2
  <2>2. CASE l # u.list
    <3>1. tasks'[l] = ts[l] /\ AtMostOne(net', Listings(l))
      BY <2>2, FetchFacts DEF ListsInTurn
    <3>2. \A x \in Requests : Overtaken(x) \notin Listings(l)
      BY OvertakenFacts DEF Listings
    <3>3. r \notin Listings(l)
      BY <2>2 DEF Listings, Asks
    <3> QED
      BY <1>1, <1>2, <3>1, <3>2, <3>3 DEF ListsInTurn
  <2> QED
    BY <2>1, <2>2
<1>5. BatchesInTurn(ks, ts) => BatchesInTurn(net', tasks')
  <2> SUFFICES ASSUME BatchesInTurn(ks, ts), NEW l \in Lists
               PROVE  /\ AtMostOne(net', Batches(l))
                      /\ Some(net', Batches(l)) => tasks'[l].batchActionPending
                      /\ l # "aggregating" /\ tasks'[l].batchActionPending => Some(net', Batches(l))
    BY DEF BatchesInTurn
  <2>1. /\ AtMostOne(ks, Batches(l)) => AtMostOne(net', Batches(l))
        /\ Some(net', Batches(l)) <=> Some(ks, Batches(l))
        /\ tasks'[l].batchActionPending = ts[l].batchActionPending
    BY FetchFacts
  <2> QED
    BY <2>1 DEF BatchesInTurn
<1>6. TableIsOf(u, gs, net', tasks')
  <2>1. /\ tasks'[u.list].group = CurrentGroup(u, gs) /\ Some(net', Listings(u.list))
        /\ \A j \in DOMAIN net' : net'[j] \in Listings(u.list) => net'[j] = r
    BY FetchFacts
  <2>2. r.queue = u.queue /\ r.group = CurrentGroup(u, gs)
    BY DEF Asks, Fresh
  <2> QED
    BY <2>1, <2>2 DEF TableIsOf
<1> QED
  BY <1>3, <1>4, <1>5, <1>6

\* What a commit keeps: each part of the invariant for the requests and the slices it is made
\* of. Of the table, the invariant with the view and the groups on screen before.
LEMMA DrawInvariants ==
    ASSUME NEW u \in Views, NEW gs \in GroupStates, ui \in Views, NEW ns \in Seq(Requests),
           NEW ts \in [Lists -> Slice], Draws(u, gs, ns, ts), NEW shown, NEW n \in Nat, NEW hit
    PROVE  /\ ui' \in Views /\ ui'.list = u.list /\ net' \in Seq(Requests) /\ tasks' \in [Lists -> Slice]
           /\ RequestsAreSound(ns, n, hit) => RequestsAreSound(net', n, hit)
           /\ ListsInTurn(ns, ts, shown) => ListsInTurn(net', tasks', shown)
           /\ BatchesInTurn(ns, ts) => BatchesInTurn(net', tasks')
           /\ TableIsOf(ui, groups, ns, ts) => TableIsOf(ui', gs, net', tasks')
<1>1. ui' \in Views /\ ui'.queue = u.queue /\ ui'.list = u.list /\ ui'.group = u.group
  BY DEF Draws
<1>2. u.list \in Lists /\ ui.list \in Lists
  BY WorkspaceAssumption DEF Views
<1>3. CurrentGroup(ui', gs) = CurrentGroup(u, gs) /\ TableShown(ui', gs) = TableShown(u, gs)
  BY <1>1, SameView
<1>4. TableIsOf(u, gs, net', tasks') => TableIsOf(ui', gs, net', tasks')
  BY <1>1, <1>3 DEF TableIsOf, IsOfTable
<1>5. PICK m \in BOOLEAN :
        \/ (Stays(u, gs) \/ ~TableShown(u, gs)) /\ net' = Kept(ns, m) /\ tasks' = ts
        \/ TableShown(u, gs) /\ \E r : Asks(r, u, gs) /\ Fetches(r, u.list, Kept(ns, m), ts)
  BY DEF Draws
<1>6. CASE (Stays(u, gs) \/ ~TableShown(u, gs)) /\ net' = Kept(ns, m) /\ tasks' = ts
  <2>1. net' \in Seq(Requests) /\ tasks' \in [Lists -> Slice]
    BY <1>6, KeptFacts
  <2>2. /\ RequestsAreSound(ns, n, hit) => RequestsAreSound(net', n, hit)
        /\ ListsInTurn(ns, ts, shown) => ListsInTurn(net', tasks', shown)
        /\ BatchesInTurn(ns, ts) => BatchesInTurn(net', tasks')
        /\ TableIsOf(ui, groups, ns, ts) => TableIsOf(ui, groups, net', tasks')
    BY <1>2, <1>6, KeptInvariants
  <2>3. CASE Stays(u, gs)
    <3>1. TableIsOf(ui, groups, net', tasks') => TableIsOf(u, gs, net', tasks')
      BY <2>3 DEF Stays, TableIsOf, IsOfTable
    <3> QED
      BY <1>1, <1>4, <2>1, <2>2, <3>1
  <2>4. CASE ~TableShown(u, gs)
    <3>1. TableIsOf(u, gs, net', tasks')
      BY <2>4 DEF TableIsOf
    <3> QED
      BY <1>1, <1>4, <2>1, <2>2, <3>1
  <2> QED
    BY <1>6, <2>3, <2>4
<1>7. CASE TableShown(u, gs) /\ \E r : Asks(r, u, gs) /\ Fetches(r, u.list, Kept(ns, m), ts)
  <2>1. PICK r : Asks(r, u, gs) /\ Fetches(r, u.list, Kept(ns, m), ts)
    BY <1>7
  <2>2. Kept(ns, m) \in Seq(Requests)
    BY KeptFacts
  <2>3. /\ RequestsAreSound(ns, n, hit) => RequestsAreSound(Kept(ns, m), n, hit)
        /\ ListsInTurn(ns, ts, shown) => ListsInTurn(Kept(ns, m), ts, shown)
        /\ BatchesInTurn(ns, ts) => BatchesInTurn(Kept(ns, m), ts)
    BY <1>2, KeptInvariants
  <2>4. net' \in Seq(Requests) /\ tasks' \in [Lists -> Slice]
    BY <2>1, <2>2, FetchFacts
  <2>5. /\ RequestsAreSound(Kept(ns, m), n, hit) => RequestsAreSound(net', n, hit)
        /\ ListsInTurn(Kept(ns, m), ts, shown) => ListsInTurn(net', tasks', shown)
        /\ BatchesInTurn(Kept(ns, m), ts) => BatchesInTurn(net', tasks')
        /\ TableIsOf(u, gs, net', tasks')
    BY <2>1, <2>2, FetchInvariants
  <2> QED
    BY <1>1, <1>4, <2>3, <2>4, <2>5
<1> QED
  BY <1>5, <1>6, <1>7

-----------------------------------------------------------------------------
(* Initially *)

\* A scenario of the run says where the user comes in.
LEMMA InitFacts ==
    ASSUME Init
    PROVE  \E q \in Queues, l \in Tabs :
             /\ srv \in [Tasks -> Lists \cup {"gone"}] /\ moves \in Budgets
             /\ ui = [queue |-> q, list |-> l, group |-> NoGroup, page |-> 0, selected |-> {}]
             /\ IF l = "aggregating"
                  THEN net = <<Request("core", q)>> \o <<Request("groups", q)>> /\ tasks = initialState
                  ELSE /\ net = Append(<<Request("core", q)>>, ListRequest(ui, NoGroup))
                       /\ tasks = [initialState EXCEPT ![l] = tasksReducer(@, Msg(ListRequest(ui, NoGroup), "BEGIN"))]
<1>1. PICK start \in Scenarios :
        LET q == start.queue  l == start.list IN
          /\ srv = start.srv /\ moves = start.left
          /\ ui = [queue |-> q, list |-> l, group |-> NoGroup, page |-> 0, selected |-> {}]
          /\ IF l = "aggregating"
               THEN net = <<Request("core", q)>> \o <<Request("groups", q)>> /\ tasks = initialState
               ELSE /\ net = Append(<<Request("core", q)>>, ListRequest(ui, NoGroup))
                    /\ tasks = [initialState EXCEPT ![l] = tasksReducer(@, Msg(ListRequest(ui, NoGroup), "BEGIN"))]
  BY DEF Init
<1>2. /\ start.queue \in Queues /\ start.list \in Tabs /\ start.srv \in [Tasks -> Lists \cup {"gone"}]
      /\ start.left \in Budgets
  BY WorkspaceAssumption
<1> QED
  BY <1>1, <1>2

LEMMA WorkspaceInit ==
    ASSUME Init
    PROVE  WorkspaceInv
<1>1. PICK q \in Queues, l \in Tabs :
        /\ srv \in [Tasks -> Lists \cup {"gone"}] /\ moves \in Budgets
        /\ ui = [queue |-> q, list |-> l, group |-> NoGroup, page |-> 0, selected |-> {}]
        /\ IF l = "aggregating"
             THEN net = <<Request("core", q)>> \o <<Request("groups", q)>> /\ tasks = initialState
             ELSE /\ net = Append(<<Request("core", q)>>, ListRequest(ui, NoGroup))
                  /\ tasks = [initialState EXCEPT ![l] = tasksReducer(@, Msg(ListRequest(ui, NoGroup), "BEGIN"))]
  BY InitFacts
<1>2. l \in Lists
  BY WorkspaceAssumption
<1>3. ui \in Views /\ ui.list = l /\ ui.queue = q /\ ui.page = 0 /\ ui.group = NoGroup
  BY <1>1 DEF Views
<1>4. groups \in GroupStates /\ DOMAIN groups.data = {}
  <2>1. [g \in {} |-> 0] \in [{} -> 0..Cardinality(Tasks)] /\ DOMAIN [g \in {} |-> 0] = {}
    OBVIOUS
  <2>2. groups = [data |-> [g \in {} |-> 0], error |-> FALSE]
    BY DEF Init, groupsInitialState
  <2> QED
    BY <2>1, <2>2 DEF GroupStates, Sizes
<1>5. initialState \in [Lists -> Slice]
      /\ \A k \in Lists : /\ DOMAIN initialState[k].data = {} /\ initialState[k].group = NoGroup
                          /\ initialState[k].batchActionPending = FALSE
  <2> DEFINE d == [t \in {} |-> FreshRow]
             s == [loading |-> FALSE, batchActionPending |-> FALSE, allActionPending |-> FALSE,
                   error |-> FALSE, group |-> NoGroup, data |-> d]
  <2>1. d \in Data /\ DOMAIN d = {}
    BY FreshFacts
  <2> HIDE DEF d
  <2>2. s \in Slice /\ s.data = d /\ s.group = NoGroup /\ s.batchActionPending = FALSE
    BY <2>1 DEF Slice, Data
  <2>3. initialState = [k \in Lists |-> s]
    BY DEF initialState, d
  <2> HIDE DEF s
  <2> QED
    BY <2>1, <2>2, <2>3
<1>6. /\ Request("core", q) \in Requests /\ Request("core", q).kind = "core"
      /\ Request("groups", q) \in Requests /\ Request("groups", q).kind = "groups"
  <2>1. Fresh(Request("core", q), "core", q) /\ Fresh(Request("groups", q), "groups", q)
    BY CallFacts
  <2> QED
    BY <2>1 DEF Fresh
<1> DEFINE Good == /\ net \in Seq(Requests) /\ tasks \in [Lists -> Slice]
                   /\ RequestsAreSound(net, now, acted) /\ ListsInTurn(net, tasks, shownAt)
                   /\ BatchesInTurn(net, tasks) /\ TableIsOf(ui, groups, net, tasks)
<1>7. ASSUME l = "aggregating" PROVE Good
  <2>1. /\ net \in Seq(Requests) /\ tasks = initialState
        /\ \A i \in DOMAIN net : net[i].kind \in {"core", "groups"}
    <3> DEFINE c == Request("core", q)
               g == Request("groups", q)
    <3>1. net = <<c>> \o <<g>> /\ tasks = initialState
      BY <1>1, <1>7
    <3> HIDE DEF c, g
    <3>2. c \in Requests /\ c.kind = "core" /\ g \in Requests /\ g.kind = "groups"
      BY <1>6 DEF c, g
    <3>3. /\ <<c>> \in Seq(Requests) /\ Len(<<c>>) = 1 /\ <<c>>[1] = c
          /\ <<g>> \in Seq(Requests) /\ Len(<<g>>) = 1 /\ <<g>>[1] = g
      BY <3>2
    <3> DEFINE a == <<c>>
               b == <<g>>
    <3> HIDE DEF a, b
    <3>4. a \o b \in Seq(Requests) /\ \A i \in DOMAIN (a \o b) : (a \o b)[i] = c \/ (a \o b)[i] = g
      BY <3>3 DEF a, b
    <3> QED
      BY <3>1, <3>2, <3>4 DEF a, b
  <2>2. ~TableShown(ui, groups)
    BY <1>3, <1>4, <1>7 DEF TableShown, CurrentGroup
  <2>3. RequestsAreSound(net, now, acted)
    BY <2>1 DEF RequestsAreSound, IsListing, IsAct
  <2>4. ListsInTurn(net, tasks, shownAt) /\ BatchesInTurn(net, tasks)
    BY <1>5, <2>1 DEF ListsInTurn, BatchesInTurn, AtMostOne, Some, Listings, Batches
  <2>5. TableIsOf(ui, groups, net, tasks)
    BY <2>2 DEF TableIsOf
  <2> QED
    BY <1>5, <2>1, <2>3, <2>4, <2>5
<1>8. ASSUME l # "aggregating" PROVE Good
  <2> DEFINE c == Request("core", q)
             r == ListRequest(ui, NoGroup)
  <2>1. /\ Fresh(r, "list", q) /\ r.list = l /\ r.group = NoGroup
        /\ r.verb = "LIST" /\ r.scope = "all" /\ r.ids = {}
    BY <1>2, <1>3, ListRequestFacts
  <2>2. /\ net = <<c, r>> /\ net \in Seq(Requests) /\ DOMAIN net = {1, 2}
        /\ net[1].kind = "core" /\ net[2] = r
    <3> HIDE DEF r
    <3>1. net = <<c, r>> /\ c \in Requests /\ r \in Requests
      BY <1>1, <1>6, <1>8, <2>1 DEF Fresh, r
    <3> QED
      BY <1>6, <3>1
  <2>3. tasks = [initialState EXCEPT ![l] = tasksReducer(@, Msg(r, "BEGIN"))]
    BY <1>1, <1>8
  <2> HIDE DEF c, r
  <2>4. Listed(tasks, initialState, l, r, "BEGIN")
    <3>1. "BEGIN" \in Phases /\ r.group \in Groups \cup {NoGroup} /\ r.rows \subseteq Tasks
      BY <2>1 DEF Phases, Fresh
    <3> QED
      BY <1>2, <1>5, <2>1, <2>3, <3>1, ListedFacts
  <2>5. RequestsAreSound(net, now, acted)
    <3>1. now = 0
      BY DEF Init
    <3>2. IsListing(r, now) /\ IsAct(r, acted)
      BY <2>1, <3>1 DEF Fresh, IsListing, IsAct
    <3>3. IsListing(net[1], now) /\ IsAct(net[1], acted)
      BY <2>2 DEF IsListing, IsAct
    <3> QED
      BY <2>2, <3>2, <3>3 DEF RequestsAreSound
  <2>6. \A k \in Lists : \A i \in DOMAIN net : /\ net[i] \in Listings(k) => k = l /\ i = 2
                                               /\ net[i] \notin Batches(k)
    BY <2>1, <2>2 DEF Listings, Batches, Fresh
  <2>7. ListsInTurn(net, tasks, shownAt)
    BY <2>1, <2>2, <2>4, <2>6 DEF ListsInTurn, AtMostOne, Listed, Fresh
  <2>8. BatchesInTurn(net, tasks)
    BY <1>5, <2>4, <2>6 DEF BatchesInTurn, AtMostOne, Some, Listed
  <2>9. TableIsOf(ui, groups, net, tasks)
    <3>1. CurrentGroup(ui, groups) = NoGroup
      BY <1>3, <1>4, <1>8, GroupFacts
    <3>2. \A i \in DOMAIN net : net[i] \in Listings(l) => net[i].queue = q /\ net[i].group = NoGroup
      BY <2>1, <2>2, <2>6, <1>2 DEF Fresh
    <3>3. tasks[l].group = NoGroup /\ DOMAIN tasks[l].data = {}
      BY <1>2, <1>5, <2>1, <2>4 DEF Listed
    <3> QED
      BY <1>3, <3>1, <3>2, <3>3 DEF TableIsOf
  <2> QED
    BY <2>2, <2>4, <2>5, <2>7, <2>8, <2>9 DEF Listed
<1>9. Good
  BY <1>7, <1>8
<1>10. /\ now = 0 /\ acted = {} /\ queues = [k \in {} |-> NoStats]
       /\ counts = NoStats.count /\ shownAt = [k \in Lists |-> 0]
  BY DEF Init
<1>11. counts \in [Lists -> Nat]
  BY <1>10, NothingKnown DEF AnsweredStats
<1>12. srv \in [Tasks -> Lists \cup {"gone"}] /\ moves \in Budgets
  BY <1>1
<1> QED
  BY <1>3, <1>4, <1>9, <1>10, <1>11, <1>12, WorkspaceAssumption DEF WorkspaceInv, StoreTypes, QueueTypes

-----------------------------------------------------------------------------
(* The steps of the tab *)

\* Requests that are no listing and no act are of no consequence to the invariant.
LEMMA ExtraInvariants ==
    ASSUME NEW ns \in Seq(Requests), NEW p \in Seq(Requests), \A i \in DOMAIN p : p[i].kind \in {"core", "groups"},
           NEW ts, NEW shown, NEW n, NEW hit, NEW u, NEW gs, u.list \in Lists
    PROVE  /\ ns \o p \in Seq(Requests)
           /\ RequestsAreSound(ns, n, hit) => RequestsAreSound(ns \o p, n, hit)
           /\ ListsInTurn(ns, ts, shown) => ListsInTurn(ns \o p, ts, shown)
           /\ BatchesInTurn(ns, ts) => BatchesInTurn(ns \o p, ts)
           /\ TableIsOf(u, gs, ns, ts) => TableIsOf(u, gs, ns \o p, ts)
<1> DEFINE t == ns \o p
<1>1. /\ t \in Seq(Requests)
      /\ \A j \in DOMAIN t : (\E k \in DOMAIN ns : t[j] = ns[k]) \/ (\E k \in DOMAIN p : t[j] = p[k])
  <2>1. ~Some(p, {})
    BY DEF Some
  <2> QED
    BY <2>1, Joined
<1>2. \A l \in Lists : ~Some(p, Listings(l)) /\ ~Some(p, Batches(l))
  BY DEF Some, Listings, Batches
<1>3. \A l \in Lists : /\ AtMostOne(ns, Listings(l)) => AtMostOne(t, Listings(l))
                       /\ AtMostOne(ns, Batches(l)) => AtMostOne(t, Batches(l))
                       /\ Some(t, Listings(l)) <=> Some(ns, Listings(l))
                       /\ Some(t, Batches(l)) <=> Some(ns, Batches(l))
  BY <1>2, Joined
<1> HIDE DEF t
<1>4. \A l \in Lists : \A j \in DOMAIN t :
        t[j] \in Listings(l) => \E k \in DOMAIN ns : t[j] = ns[k] /\ ns[k] \in Listings(l)
  BY <1>1, <1>2 DEF Some
<1>5. RequestsAreSound(ns, n, hit) => RequestsAreSound(t, n, hit)
  <2>1. \A k \in DOMAIN p : IsListing(p[k], n) /\ IsAct(p[k], hit)
    BY DEF IsListing, IsAct
  <2> QED
    BY <1>1, <2>1 DEF RequestsAreSound
<1>6. ListsInTurn(ns, ts, shown) => ListsInTurn(t, ts, shown)
  BY <1>3, <1>4 DEF ListsInTurn
<1>7. BatchesInTurn(ns, ts) => BatchesInTurn(t, ts)
  BY <1>3 DEF BatchesInTurn
<1>8. TableIsOf(u, gs, ns, ts) => TableIsOf(u, gs, t, ts)
  BY <1>3, <1>4 DEF TableIsOf
<1> QED
  BY <1>1, <1>5, <1>6, <1>7, <1>8 DEF t

\* A request that leaves takes nothing with it, unless it is the listing or the batch that counts.
LEMMA RemoveInvariants ==
    ASSUME NEW ns \in Seq(Requests), NEW i \in DOMAIN ns, NEW ts, NEW shown, NEW n, NEW hit, NEW u, NEW gs,
           u.list \in Lists
    PROVE  /\ RemoveAt(ns, i) \in Seq(Requests)
           /\ RequestsAreSound(ns, n, hit) => RequestsAreSound(RemoveAt(ns, i), n, hit)
           /\ ListsInTurn(ns, ts, shown) => ListsInTurn(RemoveAt(ns, i), ts, shown)
           /\ BatchesInTurn(ns, ts) /\ (\A l \in Lists : ns[i] \notin Batches(l))
                => BatchesInTurn(RemoveAt(ns, i), ts)
           /\ TableIsOf(u, gs, ns, ts) /\ ns[i] \notin Listings(u.list) => TableIsOf(u, gs, RemoveAt(ns, i), ts)
<1> DEFINE t == RemoveAt(ns, i)
<1>1. t \in Seq(Requests) /\ \A j \in DOMAIN t : \E k \in DOMAIN ns \ {i} : t[j] = ns[k]
  BY Removed
<1>2. \A l \in Lists : /\ AtMostOne(ns, Listings(l)) => AtMostOne(t, Listings(l))
                       /\ AtMostOne(ns, Batches(l)) => AtMostOne(t, Batches(l))
                       /\ Some(ns, Listings(l)) /\ ns[i] \notin Listings(l) => Some(t, Listings(l))
                       /\ Some(t, Batches(l)) => Some(ns, Batches(l))
                       /\ Some(ns, Batches(l)) /\ ns[i] \notin Batches(l) => Some(t, Batches(l))
  BY Removed
<1> HIDE DEF t
<1>3. RequestsAreSound(ns, n, hit) => RequestsAreSound(t, n, hit)
  BY <1>1 DEF RequestsAreSound
<1>4. ListsInTurn(ns, ts, shown) => ListsInTurn(t, ts, shown)
  BY <1>1, <1>2 DEF ListsInTurn
<1>5. BatchesInTurn(ns, ts) /\ (\A l \in Lists : ns[i] \notin Batches(l)) => BatchesInTurn(t, ts)
  BY <1>2 DEF BatchesInTurn
<1>6. TableIsOf(u, gs, ns, ts) /\ ns[i] \notin Listings(u.list) => TableIsOf(u, gs, t, ts)
  BY <1>1, <1>2 DEF TableIsOf
<1> QED
  BY <1>1, <1>3, <1>4, <1>5, <1>6 DEF t

LEMMA TaskCounts ==
    \A T \in SUBSET Tasks : IsFiniteSet(T) /\ Cardinality(T) \in Nat /\ Cardinality(T) \in 0..Cardinality(Tasks)
<1> TAKE T \in SUBSET Tasks
<1>1. IsFiniteSet(Tasks)
  BY WorkspaceAssumption
<1>2. IsFiniteSet(T) /\ Cardinality(T) <= Cardinality(Tasks)
  BY <1>1, FS_Subset
<1>3. Cardinality(T) \in Nat /\ Cardinality(Tasks) \in Nat
  BY <1>1, <1>2, FS_CardinalityType
<1> QED
  BY <1>2, <1>3

\* What the server answers with.
LEMMA ServerFacts ==
    ASSUME NEW q
    PROVE  /\ GroupSizes(q) \in Sizes /\ StatsOf(q) \in AnsweredStats
           /\ \A l, g, p : /\ PageOf(Content(q, l, g), p) \subseteq Tasks
                           /\ \A t \in PageOf(Content(q, l, g), p) :
                                Home[t] = q /\ (l = "aggregating" => GroupOf[t] = g)
<1> DEFINE waiting == {t \in Tasks : srv[t] = "aggregating" /\ Home[t] = q}
           G == {GroupOf[t] : t \in waiting}
           size == Cardinality({t \in Tasks : Home[t] = q /\ srv[t] # "gone"})
           count == [l \in Lists |-> Cardinality({t \in Tasks : Home[t] = q /\ srv[t] = l})]
<1>1. waiting \in SUBSET Tasks /\ G \in SUBSET Groups
  BY WorkspaceAssumption
<1>2. GroupSizes(q) = [g \in G |-> Cardinality({t \in waiting : GroupOf[t] = g})]
  BY DEF GroupSizes
<1>3. GroupSizes(q) \in [G -> 0..Cardinality(Tasks)] /\ DOMAIN GroupSizes(q) = G
  <2>1. \A g \in G : {t \in waiting : GroupOf[t] = g} \in SUBSET Tasks
    BY <1>1
  <2> HIDE DEF waiting, G
  <2>2. \A g \in G : Cardinality({t \in waiting : GroupOf[t] = g}) \in 0..Cardinality(Tasks)
    BY <2>1, TaskCounts
  <2> QED
    BY <1>2, <2>2
<1>4. Cardinality(G) \in Nat
  <2> DEFINE f == [t \in waiting |-> GroupOf[t]]
  <2>1. f \in Surjection(waiting, G)
    BY DEF Surjection
  <2>2. IsFiniteSet(waiting)
    BY <1>1, TaskCounts
  <2> HIDE DEF f, waiting, G
  <2>3. IsFiniteSet(G)
    BY <2>1, <2>2, FS_Surjection
  <2> QED
    BY <2>3, FS_CardinalityType
<1>5. size \in Nat /\ count \in [Lists -> Nat]
  BY TaskCounts
<1>6. StatsOf(q) = [size |-> size, groups |-> Cardinality(DOMAIN GroupSizes(q)), count |-> count]
  BY DEF StatsOf
<1>7. StatsOf(q) \in AnsweredStats
  <2> HIDE DEF size, count
  <2> QED
    BY <1>3, <1>4, <1>5, <1>6 DEF AnsweredStats
<1>8. GroupSizes(q) \in Sizes
  <2> HIDE DEF G
  <2> QED
    BY <1>1, <1>3 DEF Sizes
<1> QED
  BY <1>7, <1>8 DEF PageOf, Content

\* An answer is an answer to the request.
LEMMA AnswerFacts ==
    ASSUME now \in Nat, NEW r \in Requests, r.status = "sent", IsListing(r, now), IsAct(r, acted), NEW x,
           x = Answered(r)
    PROVE  /\ x \in Requests /\ x.kind = r.kind /\ x.list = r.list /\ x.queue = r.queue /\ x.group = r.group
           /\ x.stale = r.stale /\ x.scope = r.scope /\ x.awaited = r.awaited
           /\ x.kind = "list" => x.at = now /\ Targets(r) = {}
           /\ IsListing(x, now) /\ IsAct(x, acted \cup Targets(r))
<1>1. Targets(r) \subseteq Tasks
  <2>1. r.ids \subseteq Tasks /\ Content(r.queue, r.list, r.group) \subseteq Tasks
    BY RequestFields DEF Content
  <2>2. Targets(r) = {} \/ Targets(r) = Content(r.queue, r.list, r.group) \/ Targets(r) \subseteq r.ids
    BY DEF Targets
  <2> QED
    BY <2>1, <2>2
<1>2. CASE r.kind = "act"
  <2> DEFINE s == IF r.scope = "one" /\ Targets(r) = {} THEN "error" ELSE "ok"
             d == IF CarriedBy(r.verb, r.scope, r.list) = "ids" THEN Targets(r) ELSE {}
             n == IF CarriedBy(r.verb, r.scope, r.list) = "count" THEN Cardinality(Targets(r)) ELSE 0
  <2>1. x = [r EXCEPT !.status = s, !.done = d, !.n = n]
    BY <1>2 DEF Answered
  <2>2. s \in {"ok", "error"} /\ d \subseteq Targets(r) /\ n \in 0..Cardinality(Tasks)
    BY <1>1, TaskCounts, 0 \in 0..Cardinality(Tasks)
  <2>3. s = "ok" /\ r.scope = "one" => r.ids \subseteq Targets(r)
    <3> SUFFICES ASSUME s = "ok", r.scope = "one" PROVE r.ids \subseteq Targets(r)
      OBVIOUS
    <3>1. Targets(r) # {} /\ Targets(r) \subseteq r.ids
      BY <1>2 DEF Targets
    <3>2. PICK t \in Tasks : r.ids = {t}
      BY <1>2 DEF IsAct
    <3> QED
      BY <3>1, <3>2
  <2> HIDE DEF s, d, n
  <2>4. /\ x \in Requests /\ x.kind = r.kind /\ x.list = r.list /\ x.queue = r.queue /\ x.group = r.group
        /\ x.stale = r.stale /\ x.scope = r.scope /\ x.awaited = r.awaited /\ x.verb = r.verb
        /\ x.ids = r.ids /\ x.rows = r.rows /\ x.status = s /\ x.done = d
    BY ZenonT(40), <1>1, <2>1, <2>2 DEF Requests
  <2>5. IsListing(x, now)
    BY <1>2, <2>4 DEF IsListing
  <2>6. IsAct(x, acted \cup Targets(r))
    BY <1>2, <2>2, <2>3, <2>4 DEF IsAct
  <2> QED
    BY <1>2, <2>4, <2>5, <2>6
<1>3. CASE r.kind = "core"
  <2> DEFINE st == StatsOf(r.queue)
  <2>1. x = [r EXCEPT !.status = "ok", !.stats = st]
    BY <1>3 DEF Answered
  <2>2. st \in AnsweredStats
    BY ServerFacts
  <2> HIDE DEF st
  <2>3. /\ x \in Requests /\ x.kind = r.kind /\ x.list = r.list /\ x.queue = r.queue /\ x.group = r.group
        /\ x.stale = r.stale /\ x.scope = r.scope /\ x.awaited = r.awaited
    BY <2>1, <2>2 DEF Requests
  <2> QED
    BY <1>3, <2>3 DEF IsListing, IsAct
<1>4. CASE r.kind = "groups"
  <2> DEFINE st == StatsOf(r.queue)
             z == GroupSizes(r.queue)
  <2>1. x = [r EXCEPT !.status = "ok", !.stats = st, !.sizes = z]
    BY <1>4 DEF Answered
  <2>2. st \in AnsweredStats /\ z \in Sizes
    BY ServerFacts
  <2> HIDE DEF st, z
  <2>3. /\ x \in Requests /\ x.kind = r.kind /\ x.list = r.list /\ x.queue = r.queue /\ x.group = r.group
        /\ x.stale = r.stale /\ x.scope = r.scope /\ x.awaited = r.awaited
    BY <2>1, <2>2 DEF Requests
  <2> QED
    BY <1>4, <2>3 DEF IsListing, IsAct
<1>5. CASE r.kind = "list"
  <2> DEFINE st == StatsOf(r.queue)
             rs == PageOf(Content(r.queue, r.list, r.group), r.page)
             z == IF r.list = "aggregating" THEN GroupSizes(r.queue) ELSE NoSizes
  <2>1. x = [r EXCEPT !.status = "ok", !.at = now, !.stats = st, !.rows = rs, !.sizes = z]
    BY <1>5 DEF Answered
  <2>2. st \in AnsweredStats /\ z \in Sizes /\ rs \subseteq Tasks
        /\ \A t \in rs : Home[t] = r.queue /\ (r.list = "aggregating" => GroupOf[t] = r.group)
    BY ServerFacts, NothingKnown
  <2> HIDE DEF st, z, rs
  <2>3. /\ x \in Requests /\ x.kind = r.kind /\ x.list = r.list /\ x.queue = r.queue /\ x.group = r.group
        /\ x.stale = r.stale /\ x.scope = r.scope /\ x.awaited = r.awaited /\ x.verb = r.verb
        /\ x.ids = r.ids /\ x.done = r.done /\ x.n = r.n /\ x.at = now /\ x.rows = rs /\ x.status = "ok"
    BY ZenonT(40), <2>1, <2>2 DEF Requests
  <2>4. Targets(r) = {}
    BY <1>5 DEF Targets
  <2>5. IsListing(x, now)
    BY <1>5, <2>2, <2>3 DEF IsListing
  <2>6. IsAct(x, acted \cup Targets(r))
    BY <1>5, <2>3 DEF IsAct
  <2> QED
    BY <2>3, <2>4, <2>5, <2>6
<1> QED
  BY <1>2, <1>3, <1>4, <1>5, RequestFields

-----------------------------------------------------------------------------
(* The user and the polls *)

\* A step of the tab: the requests and the slices it leaves are drawn.
LEMMA CommitStep ==
    ASSUME WorkspaceInv, NEW u \in Views, NEW gs \in GroupStates, NEW cs \in [Lists -> Nat],
           NEW ns \in Seq(Requests), NEW ts \in [Lists -> Slice], Render(u, gs, cs, ns, ts), groups' = gs,
           UNCHANGED <<srv, now, acted>>, moves' \in Budgets, counts' \in [Lists -> Nat],
           QueueTypes(queues'), shownAt' \in [Lists -> 0..now],
           RequestsAreSound(ns, now, acted), ListsInTurn(ns, ts, shownAt'), BatchesInTurn(ns, ts),
           TableIsOf(ui, groups, ns, ts)
    PROVE  WorkspaceInv'
<1>1. ui \in Views /\ now \in Nat
  BY DEF WorkspaceInv, StoreTypes
<1>2. Draws(u, gs, ns, ts)
  BY <1>1, RenderFacts
<1>3. ui' \in Views /\ net' \in Seq(Requests) /\ tasks' \in [Lists -> Slice]
  BY <1>1, <1>2, DrawInvariants
<1>4. /\ RequestsAreSound(net', now, acted) /\ ListsInTurn(net', tasks', shownAt')
      /\ BatchesInTurn(net', tasks') /\ TableIsOf(ui', groups', net', tasks')
  BY <1>1, <1>2, DrawInvariants
<1>5. StoreTypes'
  BY <1>3 DEF WorkspaceInv, StoreTypes
<1> QED
  BY <1>4, <1>5 DEF WorkspaceInv

LEMMA SpendFacts ==
    ASSUME WorkspaceInv, NEW what \in {"visits", "acts", "changes"}, Spend(what)
    PROVE  moves' \in Budgets
<1>1. moves \in Budgets
  BY DEF WorkspaceInv, StoreTypes
<1>2. moves[what] \in Nat /\ moves[what] > 0 /\ moves' = [moves EXCEPT ![what] = @ - 1]
  BY <1>1 DEF Spend, Budgets
<1>3. moves[what] - 1 \in Nat
  BY <1>2
<1>4. moves' = [visits |-> moves'.visits, acts |-> moves'.acts, changes |-> moves'.changes]
  BY <1>1, <1>2 DEF Budgets
<1>5. moves'.visits \in Nat /\ moves'.acts \in Nat /\ moves'.changes \in Nat
  BY <1>1, <1>2, <1>3 DEF Budgets
<1> QED
  BY <1>4, <1>5 DEF Budgets

LEMMA InvTypes ==
    ASSUME WorkspaceInv
    PROVE  /\ ui \in Views /\ ui.list \in Lists /\ now \in Nat /\ net \in Seq(Requests)
           /\ tasks \in [Lists -> Slice] /\ groups \in GroupStates /\ counts \in [Lists -> Nat]
           /\ QueueTypes(queues) /\ shownAt \in [Lists -> 0..now] /\ moves \in Budgets
           /\ acted \subseteq Tasks
BY WorkspaceAssumption DEF WorkspaceInv, StoreTypes, Views

\* What mounts asks for the counts and the groups, and is drawn.
Arrives(u) ==
    \E p \in Seq(Requests) : /\ \A i \in DOMAIN p : p[i].kind \in {"core", "groups"} /\ p[i].stats = NoStats
                            /\ Render(u, groups, counts, net \o p, tasks)

LEMMA ArriveFacts ==
    ASSUME NEW u \in Views, Arrive(u)
    PROVE  Arrives(u)
<1> DEFINE a == IF u.queue # ui.queue THEN <<Request("core", u.queue)>> ELSE << >>
           b == IF u.list = "aggregating" THEN <<Request("groups", u.queue)>> ELSE << >>
           p == a \o b
           Poll(x) == x.kind \in {"core", "groups"} /\ x.stats = NoStats
<1>1. u.queue \in Queues
  BY DEF Views
<1>2. Fresh(Request("core", u.queue), "core", u.queue) /\ Fresh(Request("groups", u.queue), "groups", u.queue)
  BY <1>1, CallFacts
<1>3. /\ a \in Seq(Requests) /\ \A i \in DOMAIN a : Poll(a[i])
      /\ b \in Seq(Requests) /\ \A i \in DOMAIN b : Poll(b[i])
  <2> DEFINE c == Request("core", u.queue)
             g == Request("groups", u.queue)
  <2>1. c \in Requests /\ Poll(c) /\ g \in Requests /\ Poll(g)
    BY <1>2 DEF Fresh
  <2> HIDE DEF c, g, Poll
  <2>2. <<c>> \in Seq(Requests) /\ \A i \in DOMAIN <<c>> : Poll(<<c>>[i])
    BY <2>1
  <2>3. <<g>> \in Seq(Requests) /\ \A i \in DOMAIN <<g>> : Poll(<<g>>[i])
    BY <2>1
  <2>4. << >> \in Seq(Requests) /\ DOMAIN << >> = {}
    OBVIOUS
  <2> QED
    BY <2>2, <2>3, <2>4 DEF c, g
<1> HIDE DEF a, b
<1>4. p \in Seq(Requests) /\ \A i \in DOMAIN p : Poll(p[i])
  <2> HIDE DEF Poll
  <2> QED
    BY <1>3
<1>5. Render(u, groups, counts, net \o p, tasks)
  BY DEF Arrive, a, b
<1> HIDE DEF p
<1> QED
  BY <1>4, <1>5 DEF Arrives

LEMMA ArriveStep ==
    ASSUME WorkspaceInv, NEW u \in Views, Arrive(u), groups' = groups, UNCHANGED <<srv, now, acted>>,
           moves' \in Budgets, UNCHANGED <<counts, queues, shownAt>>
    PROVE  WorkspaceInv'
<1>1. Arrives(u)
  BY ArriveFacts
<1>2. PICK p \in Seq(Requests) : /\ \A i \in DOMAIN p : p[i].kind \in {"core", "groups"}
                                /\ Render(u, groups, counts, net \o p, tasks)
  BY <1>1 DEF Arrives
<1>3. /\ net \o p \in Seq(Requests) /\ RequestsAreSound(net \o p, now, acted)
      /\ ListsInTurn(net \o p, tasks, shownAt) /\ BatchesInTurn(net \o p, tasks)
      /\ TableIsOf(ui, groups, net \o p, tasks)
  BY <1>2, InvTypes, ExtraInvariants DEF WorkspaceInv
<1> QED
  BY <1>2, <1>3, InvTypes, CommitStep

LEMMA OpenStep ==
    ASSUME WorkspaceInv, NEW q \in Queues, Open(q)
    PROVE  WorkspaceInv'
<1> DEFINE u == [ui EXCEPT !.queue = q, !.group = NoGroup]
<1>1. u \in Views
  BY InvTypes DEF Views
<1>2. Arrive(u) /\ Spend("visits") /\ UNCHANGED <<server, queues, groups, counts, shownAt>>
  BY DEF Open
<1> HIDE DEF u
<1> QED
  BY <1>1, <1>2, ArriveStep, SpendFacts DEF server

LEMMA openTabStep ==
    ASSUME WorkspaceInv, NEW l \in Tabs, openTab(l)
    PROVE  WorkspaceInv'
<1> DEFINE u == [ui EXCEPT !.list = l, !.group = NoGroup]
<1>1. u \in Views
  BY InvTypes DEF Views
<1>2. Arrive(u) /\ Spend("visits") /\ UNCHANGED <<server, queues, groups, counts, shownAt>>
  BY DEF openTab
<1> HIDE DEF u
<1> QED
  BY <1>1, <1>2, ArriveStep, SpendFacts DEF server

LEMMA selectGroupStep ==
    ASSUME WorkspaceInv, NEW g \in Groups, selectGroup(g)
    PROVE  WorkspaceInv'
<1> DEFINE u == [ui EXCEPT !.group = g]
<1>1. u \in Views
  BY InvTypes DEF Views
<1>2. Render(u, groups, counts, net, tasks) /\ Spend("visits") /\ UNCHANGED <<server, queues, groups, counts, shownAt>>
  BY DEF selectGroup
<1> HIDE DEF u
<1>3. /\ RequestsAreSound(net, now, acted) /\ ListsInTurn(net, tasks, shownAt) /\ BatchesInTurn(net, tasks)
      /\ TableIsOf(ui, groups, net, tasks)
  BY DEF WorkspaceInv
<1> QED
  BY <1>1, <1>2, <1>3, InvTypes, CommitStep, SpendFacts DEF server

LEMMA goToPageStep ==
    ASSUME WorkspaceInv, NEW p \in 0..1, goToPage(p)
    PROVE  WorkspaceInv'
<1> DEFINE u == [ui EXCEPT !.page = p]
<1>1. u \in Views
  <2>1. p \in Nat
    OBVIOUS
  <2> QED
    BY <2>1, InvTypes DEF Views
<1>2. Render(u, groups, counts, net, tasks) /\ Spend("visits") /\ UNCHANGED <<server, queues, groups, counts, shownAt>>
  BY DEF goToPage
<1> HIDE DEF u
<1>3. /\ RequestsAreSound(net, now, acted) /\ ListsInTurn(net, tasks, shownAt) /\ BatchesInTurn(net, tasks)
      /\ TableIsOf(ui, groups, net, tasks)
  BY DEF WorkspaceInv
<1> QED
  BY <1>1, <1>2, <1>3, InvTypes, CommitStep, SpendFacts DEF server

\* Ticking rows changes the selection only.
LEMMA SelectStep ==
    ASSUME WorkspaceInv, NEW S \in SUBSET Tasks, ui' = [ui EXCEPT !.selected = S],
           UNCHANGED <<srv, now, tasks, queues, groups, counts, net, moves, shownAt, acted>>
    PROVE  WorkspaceInv'
<1>1. ui' \in Views /\ ui'.queue = ui.queue /\ ui'.list = ui.list /\ ui'.group = ui.group
  BY InvTypes DEF Views
<1>2. CurrentGroup(ui', groups) = CurrentGroup(ui, groups) /\ TableShown(ui', groups) = TableShown(ui, groups)
  BY <1>1, SameView
<1>3. TableIsOf(ui', groups, net, tasks)
  BY <1>1, <1>2 DEF WorkspaceInv, TableIsOf, IsOfTable
<1>4. StoreTypes'
  BY <1>1 DEF WorkspaceInv, StoreTypes
<1> QED
  BY <1>3, <1>4 DEF WorkspaceInv

LEMMA RowsAreTasks ==
    ASSUME WorkspaceInv
    PROVE  \A l \in Lists : DOMAIN tasks[l].data \subseteq Tasks
<1> TAKE l \in Lists
<1>1. tasks[l] \in Slice
  BY InvTypes
<1> QED
  BY <1>1, SliceFields, DataFacts

LEMMA handleSelectOneStep ==
    ASSUME WorkspaceInv, NEW t \in Tasks, handleSelectOne(t)
    PROVE  WorkspaceInv'
<1> DEFINE S == IF t \in ui.selected THEN ui.selected \ {t} ELSE ui.selected \cup {t}
<1>1. S \in SUBSET Tasks
  BY InvTypes DEF Views
<1>2. ui' = [ui EXCEPT !.selected = S]
  BY DEF handleSelectOne
<1> HIDE DEF S
<1> QED
  BY <1>1, <1>2, SelectStep DEF handleSelectOne

LEMMA handleSelectAllStep ==
    ASSUME WorkspaceInv, handleSelectAll
    PROVE  WorkspaceInv'
<1> DEFINE S == IF DOMAIN tasks[ui.list].data \subseteq ui.selected THEN {} ELSE DOMAIN tasks[ui.list].data
<1>1. S \in SUBSET Tasks
  BY InvTypes, RowsAreTasks
<1>2. ui' = [ui EXCEPT !.selected = S]
  BY DEF handleSelectAll
<1> HIDE DEF S
<1> QED
  BY <1>1, <1>2, SelectStep DEF handleSelectAll

LEMMA TableAsks ==
    ASSUME WorkspaceInv
    PROVE  Asks(ListRequest(ui, CurrentGroup(ui, groups)), ui, groups)
<1>1. ui.queue \in Queues /\ ui.list \in Lists /\ ui.page \in Nat
  BY InvTypes DEF Views
<1>2. CurrentGroup(ui, groups) \in Groups \cup {NoGroup}
  BY InvTypes, GroupFacts
<1> QED
  BY <1>1, <1>2, ListRequestFacts DEF Asks

LEMMA TickTableStep ==
    ASSUME WorkspaceInv, TickTable
    PROVE  WorkspaceInv'
<1> DEFINE r == ListRequest(ui, CurrentGroup(ui, groups))
<1>1. Asks(r, ui, groups)
  BY TableAsks
<1>2. Fetches(r, ui.list, net, tasks) /\ UNCHANGED <<srv, now, ui, queues, groups, counts, moves, shownAt, acted>>
  BY DEF TickTable, Fetches
<1> HIDE DEF r
<1>3. net' \in Seq(Requests) /\ tasks' \in [Lists -> Slice]
  BY <1>1, <1>2, InvTypes, FetchFacts
<1>4. /\ RequestsAreSound(net', now, acted) /\ ListsInTurn(net', tasks', shownAt)
      /\ BatchesInTurn(net', tasks') /\ TableIsOf(ui, groups, net', tasks')
  BY <1>1, <1>2, InvTypes, FetchInvariants DEF WorkspaceInv
<1>5. StoreTypes'
  BY <1>2, <1>3 DEF WorkspaceInv, StoreTypes
<1> QED
  BY <1>2, <1>4, <1>5 DEF WorkspaceInv

LEMMA Appended ==
    ASSUME NEW S, NEW s \in Seq(S), NEW r \in S, NEW X
    PROVE  /\ Append(s, r) \in Seq(S)
           /\ \A j \in DOMAIN Append(s, r) : Append(s, r)[j] = r \/ \E k \in DOMAIN s : Append(s, r)[j] = s[k]
           /\ AtMostOne(s, X) /\ (r \in X => ~Some(s, X)) => AtMostOne(Append(s, r), X)
           /\ Some(Append(s, r), X) <=> r \in X \/ Some(s, X)
<1> DEFINE t == Append(s, r)
           k == Len(s) + 1
<1>1. t \in Seq(S) /\ DOMAIN t = 1..k /\ DOMAIN s = 1..Len(s) /\ Len(s) \in Nat
  OBVIOUS
<1>2. /\ t[k] = r /\ k \in DOMAIN t
      /\ \A j \in DOMAIN s : j \in DOMAIN t /\ t[j] = s[j]
      /\ \A j \in DOMAIN t \ {k} : j \in DOMAIN s
  BY <1>1
<1> HIDE DEF t, k
<1>3. AtMostOne(s, X) /\ (r \in X => ~Some(s, X)) => AtMostOne(t, X)
  BY <1>2 DEF AtMostOne, Some
<1>4. Some(t, X) <=> r \in X \/ Some(s, X)
  BY <1>2 DEF Some
<1> QED
  BY <1>1, <1>2, <1>3, <1>4 DEF t

LEMMA PollStep ==
    ASSUME WorkspaceInv, NEW r, NEW kind \in {"core", "groups"}, r = Request(kind, ui.queue),
           net' = Append(net, r),
           UNCHANGED <<srv, now, ui, tasks, queues, groups, counts, moves, shownAt, acted>>
    PROVE  WorkspaceInv'
<1>1. r \in Requests /\ r.kind = kind
  <2>1. ui.queue \in Queues
    BY InvTypes DEF Views
  <2>2. Fresh(r, kind, ui.queue)
    BY <2>1, CallFacts
  <2> QED
    BY <2>2 DEF Fresh
<1>2. /\ net' \in Seq(Requests)
      /\ \A j \in DOMAIN net' : net'[j] = r \/ \E k \in DOMAIN net : net'[j] = net[k]
  BY <1>1, InvTypes, Appended
<1>3. \A l \in Lists : r \notin Listings(l) /\ r \notin Batches(l)
  BY <1>1 DEF Listings, Batches
<1>4. \A l \in Lists : /\ AtMostOne(net, Listings(l)) => AtMostOne(net', Listings(l))
                       /\ AtMostOne(net, Batches(l)) => AtMostOne(net', Batches(l))
                       /\ Some(net', Listings(l)) <=> Some(net, Listings(l))
                       /\ Some(net', Batches(l)) <=> Some(net, Batches(l))
  BY <1>1, <1>3, InvTypes, Appended
<1>5. RequestsAreSound(net', now, acted)
  <2>1. IsListing(r, now) /\ IsAct(r, acted)
    BY <1>1 DEF IsListing, IsAct
  <2> QED
    BY <1>2, <2>1 DEF WorkspaceInv, RequestsAreSound
<1>6. ListsInTurn(net', tasks, shownAt)
  BY <1>2, <1>3, <1>4 DEF WorkspaceInv, ListsInTurn
<1>7. BatchesInTurn(net', tasks)
  BY <1>4 DEF WorkspaceInv, BatchesInTurn
<1>8. TableIsOf(ui, groups, net', tasks)
  BY <1>2, <1>3, <1>4, InvTypes DEF WorkspaceInv, TableIsOf
<1>9. StoreTypes'
  BY <1>2 DEF WorkspaceInv, StoreTypes
<1> QED
  BY <1>5, <1>6, <1>7, <1>8, <1>9 DEF WorkspaceInv

LEMMA TickCoreStep ==
    ASSUME WorkspaceInv, TickCore
    PROVE  WorkspaceInv'
<1>1. "core" \in {"core", "groups"}
  OBVIOUS
<1> QED
  BY <1>1, PollStep DEF TickCore

LEMMA TickGroupsStep ==
    ASSUME WorkspaceInv, TickGroups
    PROVE  WorkspaceInv'
<1>1. "groups" \in {"core", "groups"}
  OBVIOUS
<1> QED
  BY <1>1, PollStep DEF TickGroups

\* The store after a message of an act.
Reduced(new, old, m) ==
    /\ new \in [Lists -> Slice] /\ Leaves(new[m.list], old[m.list], m)
    /\ new[m.list].batchActionPending = Flag(old[m.list], m)
    /\ \A k \in Lists : new[k].group = old[k].group
    /\ \A k \in Lists \ {m.list} : new[k] = old[k]

LEMMA ReducedFacts ==
    ASSUME NEW old \in [Lists -> Slice], NEW m, m.phase \in Phases, m.scope \in {"one", "batch", "all"},
           m.list \in Lists, m.verb \in TableOf[m.list][m.scope], NEW new,
           new = [old EXCEPT ![m.list] = tasksReducer(@, m)]
    PROVE  Reduced(new, old, m)
<1> DEFINE x == tasksReducer(old[m.list], m)
<1>1. old[m.list] \in Slice
  OBVIOUS
<1>2. /\ x \in Slice /\ x.group = old[m.list].group /\ x.batchActionPending = Flag(old[m.list], m)
      /\ Leaves(x, old[m.list], m)
  BY <1>1, ActFacts
<1>3. new = [old EXCEPT ![m.list] = x]
  OBVIOUS
<1> HIDE DEF x
<1>4. new \in [Lists -> Slice] /\ new[m.list] = x /\ \A k \in Lists \ {m.list} : new[k] = old[k]
  BY <1>2, <1>3
<1> QED
  BY <1>2, <1>4 DEF Reduced

LEMMA MsgFacts ==
    ASSUME NEW r, NEW phase
    PROVE  /\ Msg(r, phase).verb = r.verb /\ Msg(r, phase).scope = r.scope /\ Msg(r, phase).list = r.list
           /\ Msg(r, phase).phase = phase /\ Msg(r, phase).queue = r.queue /\ Msg(r, phase).group = r.group
           /\ Msg(r, phase).ids = r.ids /\ Msg(r, phase).done = r.done /\ Msg(r, phase).count = r.n
           /\ Msg(r, phase).rows = r.rows
BY DEF Msg

\* An act is sent: a batch only while its list has none, and of the group that is shown.
LEMMA DispatchStep ==
    ASSUME WorkspaceInv, NEW r, NEW q, Fresh(r, "act", q), r.list = ui.list,
           IsAct(r, acted), r.scope \in {"one", "batch", "all"},
           TableShown(ui, groups),
           r.scope = "batch" => ~tasks[ui.list].batchActionPending /\ r.group = CurrentGroup(ui, groups),
           Dispatch(r), moves' \in Budgets
    PROVE  WorkspaceInv'
<1> DEFINE m == Msg(r, "BEGIN")
           l == ui.list
<1>1. /\ r \in Requests /\ r.kind = "act" /\ r.list = l /\ l \in Lists /\ r.awaited = TRUE
      /\ r.verb \in TableOf[l][r.scope]
  BY InvTypes DEF Fresh, IsAct
<1>2. net' = Append(net, r) /\ tasks' = [tasks EXCEPT ![l] = tasksReducer(@, m)]
      /\ UNCHANGED <<srv, now, ui, queues, groups, counts, shownAt, acted>>
  BY <1>1 DEF Dispatch
<1>3. /\ m.phase = "BEGIN" /\ m.scope = r.scope /\ m.list = l /\ m.verb = r.verb /\ m.group = r.group
      /\ "BEGIN" \in Phases
  BY <1>1, MsgFacts DEF Phases
<1> HIDE DEF m
<1>4. Reduced(tasks', tasks, m)
  BY <1>1, <1>2, <1>3, InvTypes, ReducedFacts
<1>5. /\ tasks' \in [Lists -> Slice] /\ \A k \in Lists : tasks'[k].group = tasks[k].group
      /\ DOMAIN tasks'[l].data \subseteq DOMAIN tasks[l].data
      /\ tasks'[l].batchActionPending = Flag(tasks[l], m)
      /\ \A k \in Lists \ {l} : tasks'[k] = tasks[k]
  BY <1>3, <1>4 DEF Reduced, Leaves
<1>6. /\ net' \in Seq(Requests)
      /\ \A j \in DOMAIN net' : net'[j] = r \/ \E k \in DOMAIN net : net'[j] = net[k]
      /\ \A X : /\ AtMostOne(net, X) /\ (r \in X => ~Some(net, X)) => AtMostOne(net', X)
                /\ Some(net', X) <=> r \in X \/ Some(net, X)
  BY <1>1, <1>2, InvTypes, Appended
<1>7. \A k \in Lists : r \notin Listings(k) /\ (r \in Batches(k) <=> r.scope = "batch" /\ k = l)
  BY <1>1 DEF Listings, Batches
<1>8. RequestsAreSound(net', now, acted)
  <2>1. IsListing(r, now)
    BY <1>1 DEF IsListing
  <2> QED
    BY <1>6, <2>1 DEF WorkspaceInv, RequestsAreSound
<1>9. ListsInTurn(net', tasks', shownAt)
  BY <1>5, <1>6, <1>7 DEF WorkspaceInv, ListsInTurn
<1>10. BatchesInTurn(net', tasks')
  <2> SUFFICES ASSUME NEW k \in Lists
               PROVE  /\ AtMostOne(net', Batches(k))
                      /\ Some(net', Batches(k)) => tasks'[k].batchActionPending
                      /\ k # "aggregating" /\ tasks'[k].batchActionPending => Some(net', Batches(k))
    BY DEF BatchesInTurn
  <2>1. /\ AtMostOne(net, Batches(k)) /\ (Some(net, Batches(k)) => tasks[k].batchActionPending)
        /\ (k # "aggregating" /\ tasks[k].batchActionPending => Some(net, Batches(k)))
    BY DEF WorkspaceInv, BatchesInTurn
  <2>2. CASE r.scope = "batch" /\ k = l
    <3>1. r.group = tasks[l].group
      BY <2>2 DEF WorkspaceInv, TableIsOf
    <3>2. Flag(tasks[l], m) = TRUE
      BY <1>3, <2>2, <3>1 DEF Flag
    <3>3. tasks'[k].batchActionPending = TRUE
      BY <1>5, <2>2, <3>2, Zenon
    <3>4. ~Some(net, Batches(k)) /\ r \in Batches(k)
      BY <1>7, <2>1, <2>2
    <3> QED
      BY <1>6, <3>3, <3>4, <2>1
  <2>3. CASE ~(r.scope = "batch" /\ k = l)
    <3>1. tasks'[k].batchActionPending = tasks[k].batchActionPending
      <4>1. CASE k = l
        <5>1. Flag(tasks[l], m) = tasks[l].batchActionPending
          BY <1>3, <2>3, <4>1 DEF Flag
        <5> QED
          BY <1>5, <4>1, <5>1
      <4>2. CASE k # l
        BY <1>5, <4>2
      <4> QED
        BY <4>1, <4>2
    <3>2. r \notin Batches(k)
      BY <1>7, <2>3
    <3> QED
      BY <1>6, <2>1, <3>1, <3>2
  <2> QED
    BY <2>2, <2>3
<1>11. TableIsOf(ui, groups, net', tasks')
  <2>1. /\ tasks[l].group = CurrentGroup(ui, groups)
        /\ \A i \in DOMAIN net : net[i] \in Listings(l) =>
              net[i].queue = ui.queue /\ net[i].group = CurrentGroup(ui, groups)
        /\ Some(net, Listings(l)) \/ \A t \in DOMAIN tasks[l].data : IsOfTable(t, ui, groups)
    BY DEF WorkspaceInv, TableIsOf
  <2>2. \A j \in DOMAIN net' : net'[j] \in Listings(l) =>
           net'[j].queue = ui.queue /\ net'[j].group = CurrentGroup(ui, groups)
    BY <1>1, <1>6, <1>7, <2>1
  <2>3. Some(net', Listings(l)) \/ \A t \in DOMAIN tasks'[l].data : IsOfTable(t, ui, groups)
    BY <1>1, <1>5, <1>6, <1>7, <2>1
  <2> QED
    BY <1>1, <1>5, <2>1, <2>2, <2>3 DEF TableIsOf
<1>12. StoreTypes'
  BY <1>2, <1>5, <1>6 DEF WorkspaceInv, StoreTypes
<1> QED
  BY <1>2, <1>8, <1>9, <1>10, <1>11, <1>12 DEF WorkspaceInv

LEMMA OfferedFacts ==
    ASSUME WorkspaceInv, NEW verb, NEW scope \in {"one", "batch", "all"}, Offered(verb, scope)
    PROVE  /\ verb \in {"CANCEL", "DELETE", "RUN", "ARCHIVE"} /\ verb \in TableOf[ui.list][scope]
           /\ TableShown(ui, groups) /\ moves' \in Budgets
<1>1. verb \in Removers[ui.list]
  BY InvTypes, OfferFacts DEF Offered
<1>2. verb \in {"CANCEL", "DELETE", "RUN", "ARCHIVE"}
  BY <1>1, InvTypes DEF Removers, Lists
<1> QED
  BY <1>2, SpendFacts DEF Offered, Usable

LEMMA ShownGroup ==
    ASSUME WorkspaceInv, TableShown(ui, groups)
    PROVE  CurrentGroup(ui, groups) \in IF ui.list = "aggregating" THEN Groups ELSE {NoGroup}
BY InvTypes, GroupFacts

LEMMA ActOneStep ==
    ASSUME WorkspaceInv, NEW verb, NEW t \in Tasks, ActOne(verb, t)
    PROVE  WorkspaceInv'
<1> DEFINE g == IF ui.list = "aggregating" THEN GroupOf[t] ELSE NoGroup
           ids == {t}
           r == Verb(verb, "one", Home[t], g, ids)
<1>1. Offered(verb, "one") /\ Dispatch(r) /\ "one" \in {"one", "batch", "all"}
  BY DEF ActOne
<1>2. /\ verb \in {"CANCEL", "DELETE", "RUN", "ARCHIVE"} /\ verb \in TableOf[ui.list]["one"]
      /\ TableShown(ui, groups) /\ moves' \in Budgets
  BY <1>1, OfferedFacts
<1>3. /\ Home[t] \in Queues /\ g \in Groups \cup {NoGroup} /\ ids \in SUBSET Tasks /\ ui.list \in Lists
      /\ g \in IF ui.list = "aggregating" THEN Groups ELSE {NoGroup}
  BY InvTypes, WorkspaceAssumption
<1>4. /\ Fresh(r, "act", Home[t]) /\ r.list = ui.list /\ r.group = g
      /\ r.verb = verb /\ r.scope = "one" /\ r.ids = ids
  <2> HIDE DEF g
  <2>1. r = Verb(verb, "one", Home[t], g, ids)
    OBVIOUS
  <2> HIDE DEF r, ids
  <2> QED
    BY <1>1, <1>2, <1>3, <2>1, VerbFacts
<1> HIDE DEF r, g
<1>5. IsAct(r, acted)
  BY <1>2, <1>3, <1>4 DEF IsAct, Fresh
<1> QED
  BY <1>1, <1>2, <1>4, <1>5, DispatchStep

LEMMA ActBatchStep ==
    ASSUME WorkspaceInv, NEW verb, ActBatch(verb)
    PROVE  WorkspaceInv'
<1> DEFINE g == CurrentGroup(ui, groups)
           r == Verb(verb, "batch", ui.queue, g, ui.selected)
<1>1. Offered(verb, "batch") /\ Dispatch(r) /\ ~tasks[ui.list].batchActionPending /\ "batch" \in {"one", "batch", "all"}
  BY DEF ActBatch
<1>2. /\ verb \in {"CANCEL", "DELETE", "RUN", "ARCHIVE"} /\ verb \in TableOf[ui.list]["batch"]
      /\ TableShown(ui, groups) /\ moves' \in Budgets
  BY <1>1, OfferedFacts
<1>3. ui.queue \in Queues /\ ui.selected \in SUBSET Tasks /\ ui.list \in Lists
  BY InvTypes DEF Views
<1>4. g \in IF ui.list = "aggregating" THEN Groups ELSE {NoGroup}
  BY <1>2, ShownGroup
<1>5. /\ Fresh(r, "act", ui.queue) /\ r.list = ui.list /\ r.group = g
      /\ r.verb = verb /\ r.scope = "batch" /\ r.ids = ui.selected
  BY <1>1, <1>2, <1>3, <1>4, VerbFacts
<1> HIDE DEF r
<1>6. IsAct(r, acted)
  BY <1>2, <1>4, <1>5 DEF IsAct, Fresh
<1> QED
  BY <1>1, <1>2, <1>5, <1>6, DispatchStep

LEMMA ActAllStep ==
    ASSUME WorkspaceInv, NEW verb, ActAll(verb)
    PROVE  WorkspaceInv'
<1> DEFINE g == CurrentGroup(ui, groups)
           ids == {}
           r == Verb(verb, "all", ui.queue, g, ids)
<1>1. Offered(verb, "all") /\ Dispatch(r) /\ ui.list \notin BulkLists /\ "all" \in {"one", "batch", "all"}
  BY DEF ActAll
<1>2. /\ verb \in {"CANCEL", "DELETE", "RUN", "ARCHIVE"} /\ verb \in TableOf[ui.list]["all"]
      /\ TableShown(ui, groups) /\ moves' \in Budgets
  BY <1>1, OfferedFacts
<1>3. ui.queue \in Queues /\ ids \in SUBSET Tasks /\ ui.list \in Lists
  BY InvTypes DEF Views
<1>4. g \in IF ui.list = "aggregating" THEN Groups ELSE {NoGroup}
  BY <1>2, ShownGroup
<1>5. /\ Fresh(r, "act", ui.queue) /\ r.list = ui.list /\ r.group = g
      /\ r.verb = verb /\ r.scope = "all" /\ r.ids = ids
  BY <1>1, <1>2, <1>3, <1>4, VerbFacts
<1> HIDE DEF r
<1>6. IsAct(r, acted)
  BY <1>1, <1>2, <1>4, <1>5 DEF IsAct, Fresh
<1> QED
  BY <1>1, <1>2, <1>5, <1>6, DispatchStep

-----------------------------------------------------------------------------
(* The workers and the server *)

LEMMA ProgressStep ==
    ASSUME WorkspaceInv, NEW t \in Tasks, Progress(t)
    PROVE  WorkspaceInv'
<1>1. /\ now' = now + 1 /\ srv' \in [Tasks -> Lists \cup {"gone"}]
      /\ UNCHANGED <<ui, tasks, queues, groups, counts, net, shownAt, acted>>
  BY DEF WorkspaceInv, StoreTypes, Progress
<1>. moves' \in Budgets
  BY SpendFacts DEF Progress
<1>2. StoreTypes'
  <2>1. now' \in Nat /\ shownAt \in [Lists -> 0..now']
    BY <1>1 DEF WorkspaceInv, StoreTypes
  <2> QED
    BY <1>1, <2>1 DEF WorkspaceInv, StoreTypes
<1>3. RequestsAreSound(net', now', acted')
  <2>1. \A i \in DOMAIN net : IsListing(net[i], now) => IsListing(net[i], now')
    <3> TAKE i \in DOMAIN net
    <3>1. net[i].at \in Nat /\ now \in Nat
      BY InvTypes, RequestFields
    <3> QED
      BY <1>1, <3>1 DEF IsListing
  <2> QED
    BY <1>1, <2>1 DEF WorkspaceInv, RequestsAreSound
<1> QED
  BY <1>1, <1>2, <1>3 DEF WorkspaceInv

\* A request that is dropped because nobody waits for it is neither a listing nor a batch that counts.
LEMMA DropStep ==
    ASSUME WorkspaceInv, NEW i \in DOMAIN net, net' = RemoveAt(net, i),
           \A l \in Lists : net[i] \notin Listings(l) /\ net[i] \notin Batches(l),
           UNCHANGED <<ui, tasks, queues, groups, counts, shownAt>>, moves' = moves,
           now' \in Nat, now <= now', srv' \in [Tasks -> Lists \cup {"gone"}], acted \subseteq acted', acted' \subseteq Tasks
    PROVE  WorkspaceInv'
<1>1. /\ net \in Seq(Requests) /\ ui.list \in Lists /\ now \in Nat /\ shownAt \in [Lists -> 0..now]
  BY InvTypes
<1>2. RequestsAreSound(net, now', acted')
  <2> SUFFICES ASSUME NEW j \in DOMAIN net
               PROVE  IsListing(net[j], now') /\ IsAct(net[j], acted')
    BY DEF RequestsAreSound
  <2>1. IsListing(net[j], now) /\ IsAct(net[j], acted)
    BY DEF WorkspaceInv, RequestsAreSound
  <2>2. net[j].at \in Nat
    BY <1>1, RequestFields
  <2>3. IsListing(net[j], now')
    BY <1>1, <2>1, <2>2 DEF IsListing
  <2>4. IsAct(net[j], acted')
    BY <2>1 DEF IsAct
  <2> QED
    BY <2>3, <2>4
<1>3. /\ net' \in Seq(Requests) /\ RequestsAreSound(net', now', acted') /\ ListsInTurn(net', tasks, shownAt)
      /\ BatchesInTurn(net', tasks) /\ TableIsOf(ui, groups, net', tasks)
  BY <1>1, <1>2, RemoveInvariants DEF WorkspaceInv
<1>4. shownAt \in [Lists -> 0..now']
  BY <1>1
<1>5. StoreTypes'
  BY <1>3, <1>4 DEF WorkspaceInv, StoreTypes
<1> QED
  BY <1>3, <1>5 DEF WorkspaceInv

LEMMA LoseStep ==
    ASSUME WorkspaceInv, NEW i \in DOMAIN net, Lose(i)
    PROVE  WorkspaceInv'
<1>1. \A l \in Lists : net[i] \notin Listings(l) /\ net[i] \notin Batches(l)
  BY DEF WorkspaceInv, RequestsAreSound, IsListing, Lose, Listings, Batches
<1>2. srv \in [Tasks -> Lists \cup {"gone"}]
  BY DEF WorkspaceInv, StoreTypes
<1>3. now <= now
  BY InvTypes
<1> QED
  BY <1>1, <1>2, <1>3, InvTypes, DropStep DEF Lose

LEMMA HandleStep ==
    ASSUME WorkspaceInv, NEW i \in DOMAIN net, Handle(i)
    PROVE  WorkspaceInv'
<1> DEFINE r == net[i]
           x == Answered(r)
<1>1. /\ r \in Requests /\ r.status = "sent" /\ IsListing(r, now) /\ IsAct(r, acted) /\ now \in Nat
  BY InvTypes DEF Handle, WorkspaceInv, RequestsAreSound
<1>2. /\ now' = (IF srv' = srv THEN now ELSE now + 1) /\ acted' = acted \cup Targets(r)
      /\ UNCHANGED <<ui, tasks, queues, groups, counts, moves, shownAt>>
      /\ net' = IF r.awaited THEN [net EXCEPT ![i] = x] ELSE RemoveAt(net, i)
  BY DEF Handle
<1>3. now' \in Nat /\ now <= now'
  BY <1>1, <1>2
<1>4. Targets(r) \subseteq Tasks
  <2>1. r.ids \subseteq Tasks /\ Content(r.queue, r.list, r.group) \subseteq Tasks
    BY <1>1, RequestFields DEF Content
  <2>2. Targets(r) = {} \/ Targets(r) = Content(r.queue, r.list, r.group) \/ Targets(r) \subseteq r.ids
    BY DEF Targets
  <2> QED
    BY <2>1, <2>2
<1>5. srv' \in [Tasks -> Lists \cup {"gone"}]
  <2>1. \A l \in Lists \cup {"gone"} : r.kind = "act" => Fate(r.verb, l) \in Lists \cup {"gone"}
    <3>1. r.kind = "act" => r.verb \in {"CANCEL", "DELETE", "RUN", "ARCHIVE"}
      <4> SUFFICES ASSUME r.kind = "act" PROVE r.verb \in {"CANCEL", "DELETE", "RUN", "ARCHIVE"}
        OBVIOUS
      <4>1. r.list \in Lists /\ r.scope \in {"one", "batch", "all"} /\ r.verb \in TableOf[r.list][r.scope]
        BY <1>1, RequestFields DEF IsAct
      <4> HIDE DEF r
      <4>2. r.verb \in Removers[r.list]
        BY <4>1, OfferFacts
      <4> QED
        BY <4>1, <4>2 DEF Removers, Lists
    <3> QED
      BY <3>1 DEF Fate, Lists
  <2>2. r.kind # "act" => Targets(r) = {}
    BY DEF Targets
  <2>3. srv' = [t \in Tasks |-> IF t \in Targets(r) THEN Fate(r.verb, srv[t]) ELSE srv[t]]
    BY DEF Handle
  <2>4. \A t \in Tasks : srv[t] \in Lists \cup {"gone"}
    BY DEF WorkspaceInv, StoreTypes
  <2> HIDE DEF r
  <2> QED
    BY <2>1, <2>2, <2>3, <2>4
<1>6. acted \subseteq acted' /\ acted' \subseteq Tasks
  BY <1>2, <1>4, InvTypes
<1>7. CASE ~r.awaited
  <2>1. \A l \in Lists : r \notin Listings(l) /\ r \notin Batches(l)
    BY <1>1, <1>7 DEF IsListing, Listings, Batches
  <2>2. net' = RemoveAt(net, i) /\ moves' = moves
    BY <1>2, <1>7
  <2> HIDE DEF x
  <2> QED
    BY <1>2, <1>3, <1>5, <1>6, <2>1, <2>2, DropStep
<1>8. CASE r.awaited
  <2>1. /\ x \in Requests /\ x.kind = r.kind /\ x.list = r.list /\ x.queue = r.queue /\ x.group = r.group
        /\ x.stale = r.stale /\ x.scope = r.scope /\ x.awaited = r.awaited
        /\ x.kind = "list" => x.at = now /\ Targets(r) = {}
        /\ IsListing(x, now) /\ IsAct(x, acted')
    <3>1. x = Answered(r)
      OBVIOUS
    <3> HIDE DEF r, x
    <3> QED
      BY <1>1, <1>2, <3>1, AnswerFacts
  <2>2. net' = [net EXCEPT ![i] = x]
    BY <1>2, <1>8
  <2> HIDE DEF x
  <2>3. /\ net' \in Seq(Requests) /\ DOMAIN net' = DOMAIN net /\ net'[i] = x
        /\ \A j \in DOMAIN net \ {i} : net'[j] = net[j]
    BY <2>1, <2>2, InvTypes
  <2>4. \A l \in Lists : /\ x \in Listings(l) <=> r \in Listings(l)
                         /\ x \in Batches(l) <=> r \in Batches(l)
    BY <1>1, <2>1 DEF Listings, Batches
  <2>5. \A l \in Lists : \A j \in DOMAIN net : /\ net'[j] \in Listings(l) <=> net[j] \in Listings(l)
                                               /\ net'[j] \in Batches(l) <=> net[j] \in Batches(l)
    BY <2>3, <2>4
  <2>6. \A l \in Lists : /\ AtMostOne(net, Listings(l)) => AtMostOne(net', Listings(l))
                         /\ AtMostOne(net, Batches(l)) => AtMostOne(net', Batches(l))
                         /\ Some(net', Listings(l)) <=> Some(net, Listings(l))
                         /\ Some(net', Batches(l)) <=> Some(net, Batches(l))
    BY <2>3, <2>5 DEF AtMostOne, Some
  <2>7. RequestsAreSound(net', now', acted')
    <3> SUFFICES ASSUME NEW j \in DOMAIN net
                 PROVE  IsListing(net'[j], now') /\ IsAct(net'[j], acted')
      BY <2>3 DEF RequestsAreSound
    <3>1. IsListing(net'[j], now) /\ IsAct(net'[j], acted')
      <4>1. CASE j = i
        BY <2>1, <2>3, <4>1
      <4>2. CASE j # i
        <5>1. net'[j] = net[j] /\ IsListing(net[j], now) /\ IsAct(net[j], acted)
          BY <2>3, <4>2 DEF WorkspaceInv, RequestsAreSound
        <5> QED
          BY <1>6, <5>1 DEF IsAct
      <4> QED
        BY <4>1, <4>2
    <3>2. net'[j] \in Requests
      BY <2>3
    <3>3. net'[j].at \in Nat
      BY <3>2, RequestFields
    <3>4. IsListing(net'[j], now')
      BY <1>1, <1>3, <3>1, <3>3 DEF IsListing
    <3> QED
      BY <3>1, <3>4
  <2>8. ListsInTurn(net', tasks, shownAt)
    <3> SUFFICES ASSUME NEW l \in Lists
                 PROVE  /\ AtMostOne(net', Listings(l))
                        /\ \A j \in DOMAIN net' : net'[j] \in Listings(l) =>
                              /\ net'[j].group = tasks[l].group
                              /\ net'[j].status = "ok" => shownAt[l] <= net'[j].at
      BY DEF ListsInTurn
    <3>1. AtMostOne(net, Listings(l)) /\ \A j \in DOMAIN net : net[j] \in Listings(l) =>
              /\ net[j].group = tasks[l].group
              /\ net[j].status = "ok" => shownAt[l] <= net[j].at
      BY DEF WorkspaceInv, ListsInTurn
    <3>2. shownAt[l] <= now
      BY InvTypes
    <3>3. x \in Listings(l) => x.at = now
      BY <2>1 DEF Listings
    <3> QED
      BY <2>1, <2>3, <2>4, <2>5, <2>6, <3>1, <3>2, <3>3
  <2>9. BatchesInTurn(net', tasks)
    BY <2>6 DEF WorkspaceInv, BatchesInTurn
  <2>10. TableIsOf(ui, groups, net', tasks)
    <3>1. ui.list \in Lists
      BY InvTypes
    <3> QED
      BY <2>1, <2>3, <2>5, <2>6, <3>1 DEF WorkspaceInv, TableIsOf
  <2>11. StoreTypes'
    <3>1. shownAt \in [Lists -> 0..now']
      BY <1>1, <1>3, InvTypes
    <3> HIDE DEF r
    <3> QED
      BY <1>2, <1>3, <1>5, <1>6, <2>3, <3>1 DEF WorkspaceInv, StoreTypes
  <2> QED
    BY <1>2, <2>7, <2>8, <2>9, <2>10, <2>11 DEF WorkspaceInv
<1> QED
  BY <1>7, <1>8

-----------------------------------------------------------------------------
(* The tab takes an answer *)

\* What stays in flight when an answer is taken or given up on.
Leaving(i, rest) ==
    \/ rest = RemoveAt(net, i)
    \/ net[i].kind = "act" /\ rest = [net EXCEPT ![i].awaited = FALSE, ![i].mine = FALSE]

\* Of a list other than the request's own, nothing; of its own, the request.
Remains(i, rest) ==
    /\ rest \in Seq(Requests) /\ RequestsAreSound(rest, now, acted)
    /\ ListsInTurn(rest, tasks, shownAt)
    /\ \A l \in Lists :
         /\ AtMostOne(rest, Batches(l))
         /\ net[i] \in Batches(l) => ~Some(rest, Batches(l))
         /\ net[i] \notin Batches(l) => (Some(rest, Batches(l)) <=> Some(net, Batches(l)))
         /\ net[i] \in Listings(l) => ~Some(rest, Listings(l))
         /\ net[i] \notin Listings(l) => (Some(rest, Listings(l)) <=> Some(net, Listings(l)))
         /\ \A j \in DOMAIN rest : rest[j] \in Listings(l) => \E k \in DOMAIN net : rest[j] = net[k]

LEMMA RemoveRemains ==
    ASSUME WorkspaceInv, NEW i \in DOMAIN net, NEW rest, rest = RemoveAt(net, i)
    PROVE  Remains(i, rest)
<1>1. net \in Seq(Requests) /\ ui.list \in Lists
  BY InvTypes
<1>2. /\ rest \in Seq(Requests) /\ RequestsAreSound(rest, now, acted)
      /\ ListsInTurn(rest, tasks, shownAt)
  BY <1>1, RemoveInvariants DEF WorkspaceInv
<1>3. \A j \in DOMAIN rest : \E k \in DOMAIN net \ {i} : rest[j] = net[k]
  BY <1>1, Removed
<1>4. \A X : /\ AtMostOne(net, X) => AtMostOne(rest, X)
             /\ Some(rest, X) => Some(net, X)
             /\ AtMostOne(net, X) /\ net[i] \in X => ~Some(rest, X)
             /\ Some(net, X) /\ net[i] \notin X => Some(rest, X)
  BY <1>1, Removed
<1>5. \A l \in Lists : AtMostOne(net, Batches(l)) /\ AtMostOne(net, Listings(l))
  BY DEF WorkspaceInv, BatchesInTurn, ListsInTurn
<1> QED
  BY <1>2, <1>3, <1>4, <1>5 DEF Remains

LEMMA Replaced ==
    ASSUME NEW S, NEW s \in Seq(S), NEW i \in DOMAIN s, NEW x \in S, NEW t, t = [s EXCEPT ![i] = x]
    PROVE  t \in Seq(S) /\ DOMAIN t = DOMAIN s /\ t[i] = x /\ \A j \in DOMAIN s \ {i} : t[j] = s[j]
OBVIOUS

LEMMA GivenUpRemains ==
    ASSUME WorkspaceInv, NEW i \in DOMAIN net, net[i].kind = "act", NEW x,
           x = [net[i] EXCEPT !.awaited = FALSE, !.mine = FALSE], NEW rest, rest = [net EXCEPT ![i] = x]
    PROVE  Remains(i, rest)
<1>1. net \in Seq(Requests) /\ net[i] \in Requests
  BY InvTypes
<1>2. x \in Requests /\ Alike(x, net[i]) /\ x.awaited = FALSE
  BY <1>1, GivenUpFacts
<1>4. /\ rest \in Seq(Requests) /\ DOMAIN rest = DOMAIN net /\ rest[i] = x
      /\ \A j \in DOMAIN net \ {i} : rest[j] = net[j]
  BY <1>1, <1>2, Replaced
<1>5. \A l \in Lists : x \notin Listings(l) /\ x \notin Batches(l) /\ net[i] \notin Listings(l)
  BY <1>1, <1>2 DEF Listings, Batches, Alike
<1>6. \A l \in Lists : AtMostOne(net, Batches(l)) /\ AtMostOne(net, Listings(l))
  BY DEF WorkspaceInv, BatchesInTurn, ListsInTurn
<1>7. \A l \in Lists : /\ AtMostOne(rest, Batches(l)) /\ AtMostOne(rest, Listings(l))
                       /\ net[i] \in Batches(l) => ~Some(rest, Batches(l))
                       /\ net[i] \notin Batches(l) => (Some(rest, Batches(l)) <=> Some(net, Batches(l)))
                       /\ Some(rest, Listings(l)) <=> Some(net, Listings(l))
  BY <1>4, <1>5, <1>6 DEF AtMostOne, Some
<1>8. RequestsAreSound(rest, now, acted)
  <2>1. IsListing(x, now)
    BY <1>2 DEF Alike, IsListing
  <2>2. IsAct(net[i], acted)
    BY DEF WorkspaceInv, RequestsAreSound
  <2>3. IsAct(x, acted)
    BY <1>2, <2>2 DEF Alike, IsAct
  <2> QED
    BY <1>4, <2>1, <2>3 DEF WorkspaceInv, RequestsAreSound
<1>9. ListsInTurn(rest, tasks, shownAt)
  <2>1. \A l \in Lists : \A j \in DOMAIN rest : rest[j] \in Listings(l) => j \in DOMAIN net /\ rest[j] = net[j]
    BY <1>4, <1>5
  <2>2. ListsInTurn(net, tasks, shownAt)
    BY DEF WorkspaceInv
  <2> SUFFICES ASSUME NEW l \in Lists, NEW j \in DOMAIN rest, rest[j] \in Listings(l)
               PROVE  /\ rest[j].group = tasks[l].group
                      /\ rest[j].status = "ok" => shownAt[l] <= rest[j].at
    BY <1>7 DEF ListsInTurn
  <2>3. j \in DOMAIN net /\ rest[j] = net[j]
    BY <2>1
  <2>4. net[j] \in Listings(l)
    BY <2>3
  <2> QED
    BY <2>2, <2>3, <2>4 DEF ListsInTurn
<1> QED
  BY <1>4, <1>5, <1>7, <1>8, <1>9 DEF Remains

\* The rows and the groups of an answer that changes neither.
LEMMA RestOfTable ==
    ASSUME WorkspaceInv, NEW i \in DOMAIN net, NEW rest, Remains(i, rest),
           \A l \in Lists : net[i] \notin Listings(l),
           NEW ts, \A l \in Lists : ts[l].group = tasks[l].group /\ DOMAIN ts[l].data \subseteq DOMAIN tasks[l].data
    PROVE  ListsInTurn(rest, ts, shownAt) /\ TableIsOf(ui, groups, rest, ts)
<1>1. ListsInTurn(rest, ts, shownAt)
  BY DEF Remains, ListsInTurn
<1>2. TableIsOf(ui, groups, rest, ts)
  <2> SUFFICES ASSUME TableShown(ui, groups)
               PROVE  /\ ts[ui.list].group = CurrentGroup(ui, groups)
                      /\ \A j \in DOMAIN rest : rest[j] \in Listings(ui.list) =>
                            rest[j].queue = ui.queue /\ rest[j].group = CurrentGroup(ui, groups)
                      /\ Some(rest, Listings(ui.list)) \/ \A t \in DOMAIN ts[ui.list].data : IsOfTable(t, ui, groups)
    BY DEF TableIsOf
  <2>1. /\ tasks[ui.list].group = CurrentGroup(ui, groups)
        /\ \A j \in DOMAIN net : net[j] \in Listings(ui.list) =>
              net[j].queue = ui.queue /\ net[j].group = CurrentGroup(ui, groups)
        /\ Some(net, Listings(ui.list)) \/ \A t \in DOMAIN tasks[ui.list].data : IsOfTable(t, ui, groups)
    BY DEF WorkspaceInv, TableIsOf
  <2>2. ui.list \in Lists
    BY InvTypes
  <2> QED
    BY <2>1, <2>2 DEF Remains
<1> QED
  BY <1>1, <1>2

LEMMA AnsweredStatsAreStats ==
    \A st \in AnsweredStats : st \in Stats /\ st.count \in [Lists -> Nat]
<1> TAKE st \in AnsweredStats
<1>1. st.count \in [Lists -> Nat]
  BY DEF AnsweredStats
<1>2. \A c \in [Lists -> Nat] : c \in [Lists -> Int]
  OBVIOUS
<1> QED
  BY <1>1, <1>2 DEF AnsweredStats, Stats

LEMMA GroupsReduced ==
    ASSUME NEW gs \in GroupStates, NEW verb, NEW phase, NEW z \in Sizes
    PROVE  groupsReducer(gs, verb, phase, z) \in GroupStates
BY DEF groupsReducer, GroupStates

LEMMA ReceiveListStep ==
    ASSUME WorkspaceInv, NEW i \in DOMAIN net, NEW r, r = net[i], r.kind = "list", ~r.stale, NEW rest, Remains(i, rest),
           NEW phase \in {"SUCCESS", "ERROR"}, phase = "SUCCESS" => r.status = "ok",
           ReceiveList(r, phase, rest), UNCHANGED <<srv, now, moves, acted>>
    PROVE  WorkspaceInv'
<1> DEFINE l == r.list
           ts == [tasks EXCEPT ![l] = tasksReducer(@, Msg(r, phase))]
<1>1. /\ r \in Requests /\ l \in Lists /\ r \in Listings(l) /\ \A k \in Lists \ {l} : r \notin Listings(k)
      /\ \A k \in Lists : r \notin Batches(k)
  <2>1. r \in Requests
    BY InvTypes
  <2> QED
    BY <2>1, RequestFields DEF Listings, Batches
<1>2. /\ r.verb = "LIST" /\ r.at <= now /\ r.at \in Nat /\ r.rows \subseteq Tasks
      /\ r.group \in Groups \cup {NoGroup} /\ r.stats \in AnsweredStats /\ r.sizes \in Sizes /\ r.queue \in Queues
      /\ \A t \in r.rows : Home[t] = r.queue /\ (l = "aggregating" => GroupOf[t] = r.group)
  <2>1. IsListing(r, now)
    BY DEF WorkspaceInv, RequestsAreSound
  <2> QED
    BY <1>1, <2>1, RequestFields DEF IsListing
<1>3. /\ Render(ui, groups', counts, rest, ts) /\ counts' = counts
      /\ groups' = IF l = "aggregating" THEN groupsReducer(groups, "LIST", phase, r.sizes) ELSE groups
      /\ queues' = IF phase = "SUCCESS" THEN ListedStats(queues, Msg(r, phase), r.stats) ELSE queues
      /\ shownAt' = IF phase = "SUCCESS" THEN [shownAt EXCEPT ![l] = r.at] ELSE shownAt
  BY DEF ReceiveList
<1>4. Listed(ts, tasks, l, r, phase)
  <2>1. phase \in Phases
    BY DEF Phases
  <2> QED
    BY <1>1, <1>2, <2>1, InvTypes, ListedFacts
<1> HIDE DEF ts
<1>5. /\ ts \in [Lists -> Slice] /\ ts[l].group = r.group
      /\ DOMAIN ts[l].data \subseteq r.rows
      /\ \A k \in Lists : ts[k].batchActionPending = tasks[k].batchActionPending
      /\ \A k \in Lists \ {l} : ts[k] = tasks[k]
  BY <1>4 DEF Listed
<1>6. groups' \in GroupStates
  BY <1>2, <1>3, InvTypes, GroupsReduced
<1>7. QueueTypes(queues')
  <2>1. CASE phase = "ERROR" \/ l = "completed"
    BY <1>3, <2>1, InvTypes, MsgFacts DEF ListedStats
  <2>2. CASE phase = "SUCCESS" /\ l # "completed"
    <3>1. queues' = [q \in DOMAIN queues \cup {r.queue} |-> IF q = r.queue THEN r.stats ELSE queues[q]]
      BY <1>3, <2>2, MsgFacts DEF ListedStats
    <3>2. r.stats \in Stats
      BY <1>2, AnsweredStatsAreStats
    <3> QED
      BY <1>2, <3>1, <3>2, InvTypes DEF QueueTypes
  <2> QED
    BY <2>1, <2>2
<1>8. shownAt' \in [Lists -> 0..now] /\ \A k \in Lists \ {l} : shownAt'[k] = shownAt[k]
  <2>1. r.at \in 0..now
    BY <1>2, InvTypes
  <2> QED
    BY <1>3, <2>1, InvTypes
<1>9. ListsInTurn(rest, ts, shownAt')
  <2> SUFFICES ASSUME NEW k \in Lists
               PROVE  /\ AtMostOne(rest, Listings(k))
                      /\ \A j \in DOMAIN rest : rest[j] \in Listings(k) =>
                            /\ rest[j].group = ts[k].group
                            /\ rest[j].status = "ok" => shownAt'[k] <= rest[j].at
    BY DEF ListsInTurn
  <2>1. CASE k = l
    <3>1. ~Some(rest, Listings(k))
      BY <1>1, <2>1 DEF Remains
    <3> QED
      BY <3>1 DEF Some, AtMostOne
  <2>2. CASE k # l
    BY <1>5, <1>8, <2>2 DEF Remains, ListsInTurn
  <2> QED
    BY <2>1, <2>2
<1>10. BatchesInTurn(rest, ts)
  BY <1>1, <1>5 DEF Remains, BatchesInTurn, WorkspaceInv
<1>11. TableIsOf(ui, groups, rest, ts)
  <2> SUFFICES ASSUME TableShown(ui, groups)
               PROVE  /\ ts[ui.list].group = CurrentGroup(ui, groups)
                      /\ \A j \in DOMAIN rest : rest[j] \in Listings(ui.list) =>
                            rest[j].queue = ui.queue /\ rest[j].group = CurrentGroup(ui, groups)
                      /\ Some(rest, Listings(ui.list)) \/ \A t \in DOMAIN ts[ui.list].data : IsOfTable(t, ui, groups)
    BY DEF TableIsOf
  <2>1. /\ tasks[ui.list].group = CurrentGroup(ui, groups)
        /\ \A j \in DOMAIN net : net[j] \in Listings(ui.list) =>
              net[j].queue = ui.queue /\ net[j].group = CurrentGroup(ui, groups)
        /\ Some(net, Listings(ui.list)) \/ \A t \in DOMAIN tasks[ui.list].data : IsOfTable(t, ui, groups)
    BY DEF WorkspaceInv, TableIsOf
  <2>2. ui.list \in Lists
    BY InvTypes
  <2>3. CASE ui.list = l
    <3>1. r.queue = ui.queue /\ r.group = CurrentGroup(ui, groups)
      BY <1>1, <2>1, <2>3
    <3>2. \A t \in DOMAIN ts[ui.list].data : IsOfTable(t, ui, groups)
      BY <1>2, <1>5, <2>3, <3>1 DEF IsOfTable
    <3>3. ~Some(rest, Listings(ui.list))
      BY <1>1, <2>3 DEF Remains
    <3> QED
      BY <1>5, <2>3, <3>1, <3>2, <3>3 DEF Some
  <2>4. CASE ui.list # l
    <3>1. r \notin Listings(ui.list) /\ ts[ui.list] = tasks[ui.list]
      BY <1>1, <1>5, <2>2, <2>4
    <3> QED
      BY <2>1, <2>2, <3>1 DEF Remains
  <2> QED
    BY <2>3, <2>4
<1>12. rest \in Seq(Requests) /\ RequestsAreSound(rest, now, acted)
  BY DEF Remains
<1> QED
  BY <1>3, <1>5, <1>6, <1>7, <1>8, <1>9, <1>10, <1>11, <1>12, InvTypes, CommitStep

LEMMA OtherAnswer ==
    ASSUME WorkspaceInv, NEW i \in DOMAIN net, net[i].kind \in {"core", "groups"}, NEW rest, Remains(i, rest)
    PROVE  /\ rest \in Seq(Requests) /\ RequestsAreSound(rest, now, acted)
           /\ ListsInTurn(rest, tasks, shownAt) /\ BatchesInTurn(rest, tasks) /\ TableIsOf(ui, groups, rest, tasks)
<1>1. \A l \in Lists : net[i] \notin Listings(l) /\ net[i] \notin Batches(l)
  BY DEF Listings, Batches
<1>2. BatchesInTurn(rest, tasks)
  BY <1>1 DEF Remains, BatchesInTurn, WorkspaceInv
<1>3. TableIsOf(ui, groups, rest, tasks)
  BY <1>1, RestOfTable
<1> QED
  BY <1>2, <1>3 DEF Remains

LEMMA fetchCoreStep ==
    ASSUME WorkspaceInv, NEW i \in DOMAIN net, net[i].kind = "core", NEW rest, Remains(i, rest), NEW phase,
           fetchCore(net[i], phase, rest), UNCHANGED <<srv, now, moves, acted>>
    PROVE  WorkspaceInv'
<1>1. net[i].stats.count \in [Lists -> Nat]
  <2>1. net[i] \in Requests
    BY InvTypes
  <2> QED
    BY <2>1, RequestFields, AnsweredStatsAreStats
<1>2. /\ counts' \in [Lists -> Nat] /\ Render(ui, groups, counts', rest, tasks)
      /\ UNCHANGED <<queues, groups, shownAt>>
  BY <1>1, InvTypes DEF fetchCore
<1> QED
  BY <1>2, InvTypes, OtherAnswer, CommitStep

LEMMA ReceiveGroupsStep ==
    ASSUME WorkspaceInv, NEW i \in DOMAIN net, net[i].kind = "groups", NEW rest, Remains(i, rest), NEW phase,
           ReceiveGroups(net[i], phase, rest), UNCHANGED <<srv, now, moves, acted>>
    PROVE  WorkspaceInv'
<1>1. net[i].stats \in Stats /\ net[i].sizes \in Sizes
  <2>1. net[i] \in Requests
    BY InvTypes
  <2> QED
    BY <2>1, RequestFields, AnsweredStatsAreStats
<1>2. /\ groups' = groupsReducer(groups, "GROUPS", phase, net[i].sizes) /\ Render(ui, groups', counts, rest, tasks)
      /\ queues' = IF phase = "SUCCESS" THEN GroupedStats(queues, net[i].queue, net[i].stats) ELSE queues
      /\ UNCHANGED <<counts, shownAt>>
  BY DEF ReceiveGroups
<1>3. groups' \in GroupStates
  BY <1>1, <1>2, InvTypes, GroupsReduced
<1>4. QueueTypes(queues')
  BY <1>1, <1>2, InvTypes DEF QueueTypes, GroupedStats
<1> QED
  BY <1>2, <1>3, <1>4, InvTypes, OtherAnswer, CommitStep

\* What is known of an act whose answer is taken.
LEMMA ActMsg ==
    ASSUME WorkspaceInv, NEW i \in DOMAIN net, net[i].kind = "act", NEW phase \in {"SUCCESS", "ERROR"},
           NEW m, m = Msg(net[i], phase)
    PROVE  /\ m.phase = phase /\ m.phase \in Phases /\ m.scope = net[i].scope /\ m.list = net[i].list
           /\ m.queue = net[i].queue /\ m.ids = net[i].ids /\ m.done = net[i].done /\ m.group = net[i].group
           /\ m.scope \in {"one", "batch", "all"} /\ m.list \in Lists /\ m.verb \in TableOf[m.list][m.scope]
           /\ m.done \subseteq Tasks /\ m.count \in Nat /\ (m.scope = "all" => m.list \notin BulkLists)
<1>1. net[i] \in Requests /\ IsAct(net[i], acted)
  BY InvTypes DEF WorkspaceInv, RequestsAreSound
<1>2. Cardinality(Tasks) \in Nat
  BY TaskCounts
<1>3. net[i].n \in Nat
  BY <1>1, <1>2, RequestFields
<1> QED
  BY <1>1, <1>3, RequestFields, MsgFacts DEF IsAct, Phases

LEMMA ReceiveActStep ==
    ASSUME WorkspaceInv, NEW i \in DOMAIN net, NEW r, r = net[i], r.kind = "act", r.awaited, NEW rest, Remains(i, rest),
           NEW phase \in {"SUCCESS", "ERROR"},
           ReceiveAct(r, phase, rest), UNCHANGED <<srv, now, moves, acted>>
    PROVE  WorkspaceInv'
<1> DEFINE l == r.list
           m == Msg(r, phase)
           ts == [tasks EXCEPT ![l] = tasksReducer(@, m)]
           u == IF r.scope = "batch" /\ r.mine THEN [ui EXCEPT !.selected = {}] ELSE ui
<1>1. /\ m.phase = phase /\ m.phase \in Phases /\ m.scope = r.scope /\ m.list = l /\ m.queue = r.queue
      /\ m.scope \in {"one", "batch", "all"} /\ m.list \in Lists /\ m.verb \in TableOf[m.list][m.scope]
      /\ m.done \subseteq Tasks /\ m.count \in Nat
  BY ActMsg
<1>2. /\ Render(u, groups, counts, rest, ts) /\ queues' = CountedStats(queues, m)
      /\ UNCHANGED <<groups, counts, shownAt>>
  BY DEF ReceiveAct
<1>3. u \in Views
  BY InvTypes DEF Views
<1> HIDE DEF m
<1>4. Reduced(ts, tasks, m)
  BY <1>1, InvTypes, ReducedFacts
<1>5. /\ ts \in [Lists -> Slice] /\ DOMAIN ts[l].data \subseteq DOMAIN tasks[l].data
      /\ ts[l].batchActionPending = Flag(tasks[l], m)
      /\ \A k \in Lists : ts[k].group = tasks[k].group
      /\ \A k \in Lists \ {l} : ts[k] = tasks[k]
  BY <1>1, <1>4 DEF Reduced, Leaves
<1> HIDE DEF ts, u
<1>6. r \in Requests /\ \A k \in Lists : r \notin Listings(k) /\ (r \in Batches(k) <=> r.scope = "batch" /\ k = l)
  <2>1. r \in Requests
    BY InvTypes
  <2> QED
    BY <2>1 DEF Listings, Batches
<1>7. QueueTypes(queues')
  <2>1. \A q \in DOMAIN queues : queuesReducer(queues[q], m) \in Stats
    BY <1>1, InvTypes, CountFacts DEF QueueTypes
  <2> QED
    BY <1>2, <2>1, InvTypes DEF QueueTypes, CountedStats
<1>8. ListsInTurn(rest, ts, shownAt) /\ TableIsOf(ui, groups, rest, ts)
  <2>1. \A k \in Lists : ts[k].group = tasks[k].group /\ DOMAIN ts[k].data \subseteq DOMAIN tasks[k].data
    BY <1>5
  <2> QED
    BY <1>6, <2>1, RestOfTable
<1>9. BatchesInTurn(rest, ts)
  <2> SUFFICES ASSUME NEW k \in Lists
               PROVE  /\ AtMostOne(rest, Batches(k))
                      /\ Some(rest, Batches(k)) => ts[k].batchActionPending
                      /\ k # "aggregating" /\ ts[k].batchActionPending => Some(rest, Batches(k))
    BY DEF BatchesInTurn
  <2>1. /\ Some(net, Batches(k)) => tasks[k].batchActionPending
        /\ k # "aggregating" /\ tasks[k].batchActionPending => Some(net, Batches(k))
    BY DEF WorkspaceInv, BatchesInTurn
  <2>2. CASE r.scope = "batch" /\ k = l
    <3>1. AtMostOne(rest, Batches(k)) /\ ~Some(rest, Batches(k))
      BY <1>6, <2>2 DEF Remains
    <3>2. k # "aggregating" => Flag(tasks[l], m) = FALSE
      BY <1>1, <2>2 DEF Flag
    <3>3. k # "aggregating" => ts[k].batchActionPending = FALSE
      BY <1>5, <2>2, <3>2, Zenon
    <3> QED
      BY <3>1, <3>3
  <2>3. CASE ~(r.scope = "batch" /\ k = l)
    <3>1. ts[k].batchActionPending = tasks[k].batchActionPending
      <4>1. CASE k = l
        <5>1. Flag(tasks[l], m) = tasks[l].batchActionPending
          BY <1>1, <2>3, <4>1 DEF Flag
        <5> QED
          BY <1>5, <4>1, <5>1
      <4>2. CASE k # l
        BY <1>5, <4>2
      <4> QED
        BY <4>1, <4>2
    <3>2. AtMostOne(rest, Batches(k)) /\ (Some(rest, Batches(k)) <=> Some(net, Batches(k)))
      BY <1>6, <2>3 DEF Remains
    <3> QED
      BY <2>1, <3>1, <3>2
  <2> QED
    BY <2>2, <2>3
<1>10. rest \in Seq(Requests) /\ RequestsAreSound(rest, now, acted)
  BY DEF Remains
<1> QED
  BY <1>2, <1>3, <1>5, <1>7, <1>8, <1>9, <1>10, InvTypes, CommitStep

LEMMA LeavingRemains ==
    ASSUME WorkspaceInv, NEW i \in DOMAIN net, NEW rest, Leaving(i, rest)
    PROVE  Remains(i, rest)
<1>1. CASE rest = RemoveAt(net, i)
  BY <1>1, RemoveRemains
<1>2. CASE net[i].kind = "act" /\ rest = [net EXCEPT ![i].awaited = FALSE, ![i].mine = FALSE]
  <2>1. rest = [net EXCEPT ![i] = [net[i] EXCEPT !.awaited = FALSE, !.mine = FALSE]]
    BY <1>2
  <2> QED
    BY <1>2, <2>1, GivenUpRemains
<1> QED
  BY <1>1, <1>2 DEF Leaving

LEMMA ReceiveStep ==
    ASSUME WorkspaceInv, NEW i \in DOMAIN net, net[i].awaited, NEW rest, Leaving(i, rest),
           NEW phase \in {"SUCCESS", "ERROR"}, phase = "SUCCESS" => net[i].status = "ok",
           Receive(net[i], phase, rest)
    PROVE  WorkspaceInv'
<1>1. Remains(i, rest)
  BY LeavingRemains
<1>2. net[i] \in Requests /\ net[i].kind \in {"list", "core", "groups", "act"} /\ net[i].stale \in BOOLEAN
  <2>1. net[i] \in Requests
    BY InvTypes
  <2> QED
    BY <2>1, RequestFields
<1>3. UNCHANGED <<srv, now, moves, acted>>
  BY DEF Receive
<1>4. CASE net[i].kind = "list" /\ ~net[i].stale
  <2>1. ReceiveList(net[i], phase, rest)
    BY <1>4 DEF Receive
  <2> QED
    BY <1>1, <1>3, <1>4, <2>1, ReceiveListStep
<1>5. CASE net[i].kind = "list" /\ net[i].stale
  <2>1. rest = RemoveAt(net, i) /\ Ignore(rest)
    BY <1>5 DEF Receive, Leaving
  <2>2. \A l \in Lists : net[i] \notin Listings(l) /\ net[i] \notin Batches(l)
    BY <1>5 DEF Listings, Batches
  <2>3. srv \in [Tasks -> Lists \cup {"gone"}]
    BY DEF WorkspaceInv, StoreTypes
  <2>4. now <= now
    BY InvTypes
  <2> QED
    BY <1>3, <2>1, <2>2, <2>3, <2>4, InvTypes, DropStep DEF Ignore
<1>6. CASE net[i].kind = "core"
  <2>1. fetchCore(net[i], phase, rest)
    BY <1>6 DEF Receive
  <2> QED
    BY <1>1, <1>3, <1>6, <2>1, fetchCoreStep
<1>7. CASE net[i].kind = "groups"
  <2>1. ReceiveGroups(net[i], phase, rest)
    BY <1>7 DEF Receive
  <2> QED
    BY <1>1, <1>3, <1>7, <2>1, ReceiveGroupsStep
<1>8. CASE net[i].kind = "act"
  <2>1. ReceiveAct(net[i], phase, rest)
    BY <1>8 DEF Receive
  <2> QED
    BY <1>1, <1>3, <1>8, <2>1, ReceiveActStep
<1> QED
  BY <1>2, <1>4, <1>5, <1>6, <1>7, <1>8

\* An answer delivered, or given up on, as Receive takes it.
Settles(i) ==
    /\ net[i].awaited
    /\ \E rest, phase : /\ Leaving(i, rest) /\ phase \in {"SUCCESS", "ERROR"}
                        /\ phase = "SUCCESS" => net[i].status = "ok"
                        /\ Receive(net[i], phase, rest)

LEMMA SettleFacts ==
    ASSUME NEW i \in DOMAIN net, Deliver(i) \/ Fail(i)
    PROVE  Settles(i)
<1>1. CASE Deliver(i)
  BY <1>1 DEF Deliver, Leaving, Settles
<1>2. CASE Fail(i)
  BY <1>2 DEF Fail, Leaving, Settles
<1> QED
  BY <1>1, <1>2

LEMMA SettleStep ==
    ASSUME WorkspaceInv, NEW i \in DOMAIN net, Deliver(i) \/ Fail(i)
    PROVE  WorkspaceInv'
<1>1. Settles(i)
  BY SettleFacts
<1> QED
  BY <1>1, ReceiveStep DEF Settles

LEMMA IdleStep ==
    ASSUME WorkspaceInv, UNCHANGED vars
    PROVE  WorkspaceInv'
BY DEF WorkspaceInv, StoreTypes, vars

\* The invariant is inductive.
LEMMA WorkspaceStep ==
    ASSUME WorkspaceInv, [Next]_vars
    PROVE  WorkspaceInv'
<1>1. CASE \E t \in Tasks : Progress(t)
  BY <1>1, ProgressStep
<1>2. CASE User
  <2>1. CASE \E verb \in Verbs[ui.list] : ActBatch(verb) \/ ActAll(verb) \/ \E t \in Tasks : ActOne(verb, t)
    BY <2>1, ActBatchStep, ActAllStep, ActOneStep
  <2>2. CASE \E q \in Queues : Open(q)
    BY <2>2, OpenStep
  <2>3. CASE \E l \in Tabs : openTab(l)
    BY <2>3, openTabStep
  <2>4. CASE \E g \in Groups : selectGroup(g)
    BY <2>4, selectGroupStep
  <2>5. CASE \E p \in 0..1 : goToPage(p)
    BY <2>5, goToPageStep
  <2>6. CASE \E t \in Tasks : handleSelectOne(t)
    BY <2>6, handleSelectOneStep
  <2>7. CASE handleSelectAll
    BY <2>7, handleSelectAllStep
  <2> QED
    BY <1>2, <2>1, <2>2, <2>3, <2>4, <2>5, <2>6, <2>7 DEF User
<1>3. CASE TickTable \/ TickCore \/ TickGroups
  BY <1>3, TickTableStep, TickCoreStep, TickGroupsStep
<1>4. CASE Serve
  BY <1>4, HandleStep, LoseStep DEF Serve
<1>5. CASE Settle
  BY <1>5, SettleStep DEF Settle
<1>6. CASE UNCHANGED vars
  BY <1>6, IdleStep
<1> QED
  BY <1>1, <1>2, <1>3, <1>4, <1>5, <1>6 DEF Next, Send

-----------------------------------------------------------------------------
(* The theorems *)

LEMMA WorkspaceAlways == Spec => []WorkspaceInv
<1>1. Init => WorkspaceInv
  BY WorkspaceInit
<1>2. WorkspaceInv /\ [Next]_vars => WorkspaceInv'
  BY WorkspaceStep
<1> QED
  BY <1>1, <1>2, PTL DEF Spec

\* What a request says is a message the reducers know, and what it asks is a thunk there is.
LEMMA KnownThunk ==
    ASSUME NEW l \in Lists, NEW scope \in {"one", "batch", "all"}, NEW verb \in TableOf[l][scope]
    PROVE  Thunk(verb, scope, l) \in Thunks
<1>1. verb \in Removers[l]
  BY OfferFacts
<1> USE DEF Thunks, Each
<1>2. CASE l = "active"
  <2>1. Thunk(verb, scope, l) \in CancelThunks
    BY <1>1, <1>2 DEF Removers, CancelThunks
  <2> QED
    BY <2>1
<1>3. CASE l = "pending"
  <2>1. Thunk(verb, scope, l) \in UNION {SingleThunks, PendingThunks, WholeListThunks}
    BY <1>1, <1>3 DEF Removers, SingleThunks, PendingThunks, WholeListThunks
  <2> QED
    BY <2>1
<1>4. CASE l = "scheduled"
  <2>1. Thunk(verb, scope, l) \in UNION {SingleThunks, ScheduledThunks, WholeListThunks}
    BY <1>1, <1>4 DEF Removers, SingleThunks, ScheduledThunks, WholeListThunks
  <2> QED
    BY <2>1
<1>5. CASE l = "retry"
  <2>1. Thunk(verb, scope, l) \in UNION {SingleThunks, RetryThunks, WholeRetryThunks}
    BY <1>1, <1>5 DEF Removers, SingleThunks, RetryThunks, WholeRetryThunks
  <2> QED
    BY <2>1
<1>6. CASE l = "archived"
  <2>1. Thunk(verb, scope, l) \in UNION {SingleThunks, ArchivedThunks}
    BY <1>1, <1>6 DEF Removers, SingleThunks, ArchivedThunks
  <2> QED
    BY <2>1
<1>7. CASE l = "completed"
  <2>1. Thunk(verb, scope, l) \in CompletedThunks
    BY <1>1, <1>7 DEF Removers, CompletedThunks
  <2> QED
    BY <2>1
<1>8. CASE l = "aggregating"
  <2>1. Thunk(verb, scope, l) \in UNION {AggregatingThunks, WholeGroupThunks}
    BY <1>1, <1>8 DEF Removers, AggregatingThunks, WholeGroupThunks
  <2> QED
    BY <2>1
<1> QED
  BY <1>2, <1>3, <1>4, <1>5, <1>6, <1>7, <1>8 DEF Lists

LEMMA KnownList ==
    ASSUME NEW r \in Requests, r.kind = "list", NEW n, IsListing(r, n), NEW phase \in Phases
    PROVE  Msg(r, phase) \in ListActions
BY RequestFields DEF Msg, ListActions, IsListing

LEMMA KnownAct ==
    ASSUME NEW r \in Requests, r.kind = "act", NEW hit, IsAct(r, hit), NEW phase \in Phases
    PROVE  Msg(r, phase) \in TaskActions
<1> DEFINE m == Msg(r, phase)
<1>1. /\ r.list \in Lists /\ r.scope \in {"one", "batch", "all"} /\ r.queue \in Queues /\ r.ids \in SUBSET Tasks
      /\ r.done \in SUBSET Tasks /\ r.n \in 0..Cardinality(Tasks) /\ r.rows = {}
      /\ r.group \in IF r.list = "aggregating" THEN Groups ELSE {NoGroup}
      /\ r.verb \in TableOf[r.list][r.scope]
  BY RequestFields DEF IsAct
<1>2. r.verb \in Removers[r.list]
  BY <1>1, OfferFacts
<1>3. \A verbs : r.verb \in verbs => m \in Mutations(r.list, verbs)
  BY <1>1 DEF Msg, Mutations
<1>4. m \in Mutations(r.list, Removers[r.list])
  BY <1>2, <1>3
<1> HIDE DEF m
<1>5. Mutations(r.list, Removers[r.list]) \in
        {ActiveActions, PendingActions, ScheduledActions, RetryActions, ArchivedActions, CompletedActions,
         AggregatingActions}
  <2>1. CASE r.list = "active"
    BY <2>1 DEF Removers, ActiveActions
  <2>2. CASE r.list = "pending"
    <3>1. Removers["pending"] = {"DELETE", "ARCHIVE"}
      BY DEF Removers
    <3> QED
      BY <2>2, <3>1 DEF PendingActions
  <2>3. CASE r.list = "scheduled"
    <3>1. Removers["scheduled"] = {"DELETE", "RUN", "ARCHIVE"}
      BY DEF Removers
    <3> QED
      BY <2>3, <3>1 DEF ScheduledActions
  <2>4. CASE r.list = "retry"
    <3>1. Removers["retry"] = {"DELETE", "RUN", "ARCHIVE"}
      BY DEF Removers
    <3> QED
      BY <2>4, <3>1 DEF RetryActions
  <2>5. CASE r.list = "archived"
    <3>1. Removers["archived"] = {"DELETE", "RUN"}
      BY DEF Removers
    <3> QED
      BY <2>5, <3>1 DEF ArchivedActions
  <2>6. CASE r.list = "completed"
    BY <2>6 DEF Removers, CompletedActions
  <2>7. CASE r.list = "aggregating"
    <3>1. Removers["aggregating"] = {"DELETE", "RUN", "ARCHIVE"}
      BY DEF Removers
    <3> QED
      BY <2>7, <3>1 DEF AggregatingActions
  <2> QED
    BY <1>1, <2>1, <2>2, <2>3, <2>4, <2>5, <2>6, <2>7 DEF Lists
<1> QED
  BY <1>4, <1>5 DEF TaskActions, m

\* The state of the workspace is what the code's types say, whatever the queues, tasks and groups:
\* every request in flight dispatches an action that the reducers answer, and a page is never before
\* the first.
THEOREM WorkspaceTypes == Spec => []WorkspaceTypeOK
<1>1. WorkspaceInv => WorkspaceTypeOK
  <2> SUFFICES ASSUME WorkspaceInv
               PROVE  WorkspaceTypeOK
    OBVIOUS
  <2>1. /\ srv \in [Tasks -> Lists \cup {"gone"}] /\ now \in Nat /\ moves \in Budgets
        /\ shownAt \in [Lists -> 0..now] /\ acted \subseteq Tasks /\ counts \in [Lists -> Nat]
    BY DEF WorkspaceInv, StoreTypes
  <2>2. /\ ui.queue \in Queues /\ ui.list \in Tabs /\ ui.group \in Groups \cup {NoGroup}
        /\ ui.page \in Nat /\ ui.selected \subseteq Tasks
    BY InvTypes DEF Views
  <2>3. \A l \in Lists : /\ tasks[l].loading \in BOOLEAN /\ tasks[l].error \in BOOLEAN
                         /\ tasks[l].group \in Groups \cup {NoGroup}
                         /\ DOMAIN tasks[l].data \subseteq Tasks
                         /\ \A t \in DOMAIN tasks[l].data : tasks[l].data[t] \in Row
    <3> TAKE l \in Lists
    <3>1. tasks[l] \in Slice
      BY InvTypes
    <3> QED
      BY <3>1, SliceFields, DataFacts
  <2>4. \A q \in DOMAIN queues : q \in Queues /\ DOMAIN queues[q].count = Lists
    BY InvTypes DEF QueueTypes, Stats
  <2>5. DOMAIN groups.data \subseteq Groups
    BY InvTypes DEF GroupStates, Sizes
  <2>6. ASSUME NEW i \in DOMAIN net, NEW phase \in Phases
        PROVE  /\ net[i].kind \in {"list", "act"} => Msg(net[i], phase) \in TaskActions
               /\ net[i].kind = "act" => Thunk(net[i].verb, net[i].scope, net[i].list) \in Thunks
    <3>1. net[i] \in Requests /\ IsListing(net[i], now) /\ IsAct(net[i], acted)
      BY InvTypes DEF WorkspaceInv, RequestsAreSound
    <3>2. net[i].kind = "list" => Msg(net[i], phase) \in TaskActions
      BY <3>1, KnownList DEF TaskActions
    <3>3. net[i].kind = "act" => Msg(net[i], phase) \in TaskActions
      BY <3>1, KnownAct
    <3>4. net[i].kind = "act" => Thunk(net[i].verb, net[i].scope, net[i].list) \in Thunks
      BY <3>1, KnownThunk, RequestFields DEF IsAct
    <3> QED
      BY <3>2, <3>3, <3>4
  <2> QED
    BY <2>1, <2>2, <2>3, <2>4, <2>5, <2>6 DEF WorkspaceTypeOK
<1> QED
  BY <1>1, WorkspaceAlways, PTL

\* Once the newest listing of the table on screen is answered, no row of another queue or group is
\* left on it, however many answers of the tables the user left are still to come, and in which order.
THEOREM QuietTable == Spec => []QuietTableIsOfTheQueue
<1>1. WorkspaceInv => QuietTableIsOfTheQueue
  <2> SUFFICES ASSUME WorkspaceInv, TableShown(ui, groups),
                      {i \in Awaited("list") : net[i].list = ui.list /\ ~net[i].stale} = {},
                      NEW t \in DOMAIN tasks[ui.list].data
               PROVE  /\ Home[t] = ui.queue
                      /\ ui.list = "aggregating" => GroupOf[t] = CurrentGroup(ui, groups)
    BY DEF QuietTableIsOfTheQueue
  <2>1. ~Some(net, Listings(ui.list))
    <3> SUFFICES ASSUME NEW i \in DOMAIN net, net[i] \in Listings(ui.list)
                 PROVE  FALSE
      BY DEF Some
    <3>1. net[i].kind = "list" /\ ~net[i].stale /\ net[i].list = ui.list
      BY DEF Listings
    <3>2. net[i].awaited
      BY <3>1 DEF WorkspaceInv, RequestsAreSound, IsListing
    <3> QED
      BY <3>1, <3>2 DEF Awaited
  <2> QED
    BY <2>1 DEF WorkspaceInv, TableIsOf, IsOfTable
<1> QED
  BY <1>1, WorkspaceAlways, PTL

\* A list has one batch in flight at most, over navigation, groups and requests given up on, and
\* the toolbar of a list without groups is disabled exactly while there is one.
THEOREM OneBatch == Spec => []OneBatchInFlight
<1>1. WorkspaceInv => OneBatchInFlight
  <2> SUFFICES ASSUME WorkspaceInv, NEW l \in Lists, NEW B,
                      B = {i \in Awaited("act") : net[i].scope = "batch" /\ net[i].list = l}
               PROVE  /\ Cardinality(B) <= 1
                      /\ B # {} => tasks[l].batchActionPending
                      /\ l # "aggregating" /\ tasks[l].batchActionPending => B # {}
    BY DEF OneBatchInFlight
  <2>1. \A i : i \in B <=> i \in DOMAIN net /\ net[i] \in Batches(l)
    <3>1. \A i \in DOMAIN net : net[i] \in Requests
      BY InvTypes
    <3> QED
      BY <3>1 DEF Awaited, Batches
  <2>2. /\ AtMostOne(net, Batches(l)) /\ (Some(net, Batches(l)) => tasks[l].batchActionPending)
        /\ (l # "aggregating" /\ tasks[l].batchActionPending => Some(net, Batches(l)))
    BY DEF WorkspaceInv, BatchesInTurn
  <2>3. Cardinality(B) <= 1
    <3>1. CASE B = {}
      BY <3>1, FS_EmptySet
    <3>2. CASE B # {}
      <4>1. PICK i \in B : TRUE
        BY <3>2
      <4>2. B = {i}
        BY <2>1, <2>2, <4>1 DEF AtMostOne
      <4>3. Cardinality({i}) = 1
        BY FS_Singleton
      <4> QED
        BY <4>2, <4>3
    <3> QED
      BY <3>1, <3>2
  <2> QED
    BY <2>1, <2>2, <2>3 DEF Some
<1> QED
  BY <1>1, WorkspaceAlways, PTL
\* A slice never takes a listing older than the one it shows, in whichever order the answers come.
THEOREM NeverGoesBack == Spec => ShownNeverGoesBack
<1> DEFINE Onward == \A l \in Lists : shownAt'[l] >= shownAt[l]
<1>1. ASSUME WorkspaceInv, [Next]_vars
      PROVE  Onward
  <2>1. /\ shownAt \in [Lists -> 0..now] /\ now \in Nat /\ \A l \in Lists : shownAt[l] \in Nat
        /\ net \in Seq(Requests)
    BY <1>1, InvTypes
  <2>2. CASE shownAt' = shownAt
    BY <2>1, <2>2
  <2>3. CASE \E t \in Tasks : Progress(t)
    BY <2>2, <2>3 DEF Progress
  <2>4. CASE Send
    <3>1. shownAt' = shownAt
      BY <2>4 DEF Send, User, Open, openTab, selectGroup, goToPage, handleSelectOne, handleSelectAll,
                  ActBatch, ActAll, ActOne, Dispatch, TickTable, TickCore, TickGroups
    <3> QED
      BY <2>2, <3>1
  <2>5. CASE Serve
    BY <2>2, <2>5 DEF Serve, Handle, Lose
  <2>6. CASE Settle
    <3>1. PICK i \in DOMAIN net : Deliver(i) \/ Fail(i)
      BY <2>6 DEF Settle
    <3>2. Settles(i)
      BY <3>1, SettleFacts
    <3>3. PICK rest, phase : /\ phase \in {"SUCCESS", "ERROR"} /\ (phase = "SUCCESS" => net[i].status = "ok")
                             /\ Receive(net[i], phase, rest)
      BY <3>2 DEF Settles
    <3>4. /\ net[i] \in Requests /\ net[i].kind \in {"list", "core", "groups", "act"} /\ net[i].stale \in BOOLEAN
          /\ net[i].list \in Lists /\ net[i].at \in Nat
      BY <2>1, RequestFields
    <3>5. CASE net[i].kind = "list" /\ ~net[i].stale /\ phase = "SUCCESS"
      <4>1. shownAt' = [shownAt EXCEPT ![net[i].list] = net[i].at]
        BY <3>3, <3>5 DEF Receive, ReceiveList
      <4>2. net[i] \in Listings(net[i].list)
        BY <3>4, <3>5 DEF Listings
      <4>3. shownAt[net[i].list] <= net[i].at
        BY <1>1, <3>3, <3>4, <3>5, <4>2 DEF WorkspaceInv, ListsInTurn
      <4> QED
        BY <2>1, <3>4, <4>1, <4>3
    <3>6. CASE net[i].kind = "list" /\ (net[i].stale \/ phase # "SUCCESS")
      <4>1. shownAt' = shownAt
        BY <3>3, <3>6 DEF Receive, ReceiveList, Ignore
      <4> QED
        BY <2>2, <4>1
    <3>7. CASE net[i].kind = "core"
      BY <2>2, <3>3, <3>7 DEF Receive, fetchCore
    <3>8. CASE net[i].kind = "groups"
      BY <2>2, <3>3, <3>8 DEF Receive, ReceiveGroups
    <3>9. CASE net[i].kind = "act"
      BY <2>2, <3>3, <3>9 DEF Receive, ReceiveAct
    <3> QED
      BY <3>4, <3>5, <3>6, <3>7, <3>8, <3>9
  <2>7. CASE UNCHANGED vars
    BY <2>2, <2>7 DEF vars
  <2> QED
    BY <1>1, <2>3, <2>4, <2>5, <2>6, <2>7 DEF Next
<1>2. WorkspaceInv /\ [Next]_vars => [Onward]_vars
  BY <1>1
<1> QED
  BY <1>2, WorkspaceAlways, PTL DEF Spec, ShownNeverGoesBack

\* A commit asks for rows and takes none off the screen.
LEMMA DrawRows ==
    ASSUME NEW u \in Views, NEW gs \in GroupStates, NEW ns \in Seq(Requests), NEW ts \in [Lists -> Slice],
           Draws(u, gs, ns, ts)
    PROVE  \A l \in Lists : DOMAIN tasks'[l].data = DOMAIN ts[l].data
<1>1. PICK m \in BOOLEAN :
        \/ tasks' = ts
        \/ \E r : Asks(r, u, gs) /\ Fetches(r, u.list, Kept(ns, m), ts)
  BY DEF Draws
<1>2. CASE tasks' = ts
  BY <1>2
<1>3. CASE \E r : Asks(r, u, gs) /\ Fetches(r, u.list, Kept(ns, m), ts)
  <2>1. PICK r : Asks(r, u, gs) /\ Fetches(r, u.list, Kept(ns, m), ts)
    BY <1>3
  <2>2. /\ r.verb = "LIST" /\ r.group \in Groups \cup {NoGroup} /\ r.rows \subseteq Tasks /\ u.list \in Lists
        /\ "BEGIN" \in Phases
    BY <2>1, GroupFacts, WorkspaceAssumption DEF Asks, Fresh, Views, Phases
  <2>3. tasks' = [ts EXCEPT ![u.list] = tasksReducer(@, Msg(r, "BEGIN"))]
    BY <2>1 DEF Fetches
  <2>4. Listed(tasks', ts, u.list, r, "BEGIN")
    BY <2>2, <2>3, ListedFacts
  <2> QED
    BY <2>2, <2>4 DEF Listed
<1> QED
  BY <1>1, <1>2, <1>3

\* The rows that the answer to an act takes off the screen.
LEMMA ActRows ==
    ASSUME WorkspaceInv, NEW i \in DOMAIN net, net[i].kind = "act", net[i].scope # "all", NEW rest, Remains(i, rest),
           NEW phase \in {"SUCCESS", "ERROR"}, phase = "SUCCESS" => net[i].status = "ok",
           ReceiveAct(net[i], phase, rest), NEW l \in Lists
    PROVE  DOMAIN tasks[l].data \ DOMAIN tasks'[l].data \subseteq acted
<1> DEFINE r == net[i]
           m == Msg(r, phase)
           ts == [tasks EXCEPT ![r.list] = tasksReducer(@, m)]
           u == IF r.scope = "batch" /\ r.mine THEN [ui EXCEPT !.selected = {}] ELSE ui
<1>1. /\ m.phase = phase /\ m.phase \in Phases /\ m.scope = r.scope /\ m.list = r.list
      /\ m.ids = r.ids /\ m.done = r.done
      /\ m.scope \in {"one", "batch", "all"} /\ m.list \in Lists /\ m.verb \in TableOf[m.list][m.scope]
  BY ActMsg
<1>2. Render(u, groups, counts, rest, ts)
  BY DEF ReceiveAct
<1>3. u \in Views
  BY InvTypes DEF Views
<1> HIDE DEF m
<1>4. Reduced(ts, tasks, m)
  BY <1>1, InvTypes, ReducedFacts
<1> HIDE DEF ts, u
<1>5. ts \in [Lists -> Slice] /\ rest \in Seq(Requests)
  BY <1>4 DEF Reduced, Remains
<1>6. Draws(u, groups, rest, ts)
  BY <1>2, <1>3, InvTypes, RenderFacts
<1>7. DOMAIN tasks'[l].data = DOMAIN ts[l].data
  <2>1. groups \in GroupStates
    BY InvTypes
  <2> QED
    BY <1>3, <1>5, <1>6, <2>1, DrawRows
<1>8. CASE l # r.list
  BY <1>1, <1>4, <1>7, <1>8 DEF Reduced
<1>9. CASE l = r.list
  <2> SUFFICES ASSUME NEW t \in DOMAIN tasks[l].data \ DOMAIN ts[l].data
               PROVE  t \in acted
    BY <1>7
  <2>1. phase = "SUCCESS" /\ (r.scope = "one" => t \in r.ids) /\ (r.scope = "batch" => t \in r.done)
    BY <1>1, <1>4, <1>9 DEF Reduced, Leaves
  <2>2. r.done \subseteq acted /\ (r.scope = "one" => r.ids \subseteq acted)
    BY <2>1 DEF WorkspaceInv, RequestsAreSound, IsAct
  <2> QED
    BY <1>1, <2>1, <2>2
<1> QED
  BY <1>8, <1>9

\* A row that the answer to a single or a batch request takes off the screen is one the server acted
\* on: a batch that fails in part keeps the rows it failed on, and so does a time-out.
THEOREM OnlyActedOnLeave == Spec => RemovedWasActedOn
<1> DEFINE Removes ==
             \A i \in DOMAIN net :
               net[i].kind = "act" /\ net[i].scope # "all" /\ (Deliver(i) \/ Fail(i))
                 => \A l \in Lists : DOMAIN tasks[l].data \ DOMAIN tasks'[l].data \subseteq acted
<1>1. ASSUME WorkspaceInv
      PROVE  Removes
  <2> SUFFICES ASSUME NEW i \in DOMAIN net, net[i].kind = "act", net[i].scope # "all", Deliver(i) \/ Fail(i),
                      NEW l \in Lists
               PROVE  DOMAIN tasks[l].data \ DOMAIN tasks'[l].data \subseteq acted
    OBVIOUS
  <2>1. Settles(i)
    BY SettleFacts
  <2>2. PICK rest, phase : /\ Leaving(i, rest) /\ phase \in {"SUCCESS", "ERROR"}
                           /\ phase = "SUCCESS" => net[i].status = "ok"
                           /\ Receive(net[i], phase, rest)
    BY <2>1 DEF Settles
  <2>3. Remains(i, rest)
    BY <1>1, <2>2, LeavingRemains
  <2>4. ReceiveAct(net[i], phase, rest)
    BY <2>2 DEF Receive
  <2> QED
    BY <1>1, <2>2, <2>3, <2>4, ActRows
<1>2. WorkspaceInv /\ [Next]_vars => [Removes]_vars
  BY <1>1
<1> QED
  BY <1>2, WorkspaceAlways, PTL DEF Spec, RemovedWasActedOn

-----------------------------------------------------------------------------
(* The sum of the lists *)

\* What the lists of a set add up to, one by one.
Part(c, s, l) == IF l \in s THEN c[l] ELSE 0
Parts(c, s) ==
    Part(c, s, "active") + Part(c, s, "pending") + Part(c, s, "scheduled") + Part(c, s, "retry")
      + Part(c, s, "archived") + Part(c, s, "completed") + Part(c, s, "aggregating")
\* The recursion of the library's fold.
Adds(f, c) ==
    f = [s \in SUBSET Lists |->
           IF s = {} THEN 0 ELSE c[CHOOSE x \in s : TRUE] + f[s \ {CHOOSE x \in s : TRUE}]]

LEMMA SumIsFold ==
    ASSUME NEW c
    PROVE  SumFunctionOnSet(c, Lists) = (CHOOSE f : Adds(f, c))[Lists]
BY Zenon DEF SumFunctionOnSet, FoldFunctionOnSet, MapThenFoldSet, Adds

LEMMA PartFacts ==
    ASSUME NEW c \in [Lists -> Int], NEW s \in SUBSET Lists, NEW x \in s
    PROVE  Parts(c, s) = c[x] + Parts(c, s \ {x}) /\ Parts(c, s) \in Int
<1>1. \A l \in Lists : c[l] \in Int
  OBVIOUS
<1>2. \A l \in Lists : Part(c, s, l) \in Int /\ Part(c, s \ {x}, l) \in Int
  BY <1>1 DEF Part
<1>3. /\ Part(c, s, x) = c[x] /\ Part(c, s \ {x}, x) = 0
      /\ \A l \in Lists \ {x} : Part(c, s, l) = Part(c, s \ {x}, l)
  BY DEF Part
<1>4. x \in Lists /\ c[x] \in Int
  BY <1>1
<1> DEFINE d(l) == Part(c, s, l)
           e(l) == Part(c, s \ {x}, l)
<1>5. /\ d("active") \in Int /\ d("pending") \in Int /\ d("scheduled") \in Int
      /\ d("retry") \in Int /\ d("archived") \in Int
      /\ d("completed") \in Int /\ d("aggregating") \in Int
      /\ e("active") \in Int /\ e("pending") \in Int /\ e("scheduled") \in Int
      /\ e("retry") \in Int /\ e("archived") \in Int
      /\ e("completed") \in Int /\ e("aggregating") \in Int
  BY <1>2 DEF Lists
<1>6. /\ Parts(c, s) = d("active") + d("pending") + d("scheduled") + d("retry")
                      + d("archived") + d("completed") + d("aggregating")
      /\ Parts(c, s \ {x}) = e("active") + e("pending") + e("scheduled") + e("retry")
                            + e("archived") + e("completed") + e("aggregating")
  BY DEF Parts
<1>7. CASE x = "active"
  <2>1. /\ d("pending") = e("pending") /\ d("scheduled") = e("scheduled") /\ d("retry") = e("retry")
        /\ d("archived") = e("archived") /\ d("completed") = e("completed") /\ d("aggregating") = e("aggregating")
        /\ d(x) = c[x] /\ e(x) = 0
    BY <1>3, <1>7 DEF Lists
  <2> HIDE DEF d, e
  <2> QED
    BY <1>4, <1>5, <1>6, <1>7, <2>1
<1>8. CASE x = "pending"
  <2>1. /\ d("active") = e("active") /\ d("scheduled") = e("scheduled") /\ d("retry") = e("retry")
        /\ d("archived") = e("archived") /\ d("completed") = e("completed") /\ d("aggregating") = e("aggregating")
        /\ d(x) = c[x] /\ e(x) = 0
    BY <1>3, <1>8 DEF Lists
  <2> HIDE DEF d, e
  <2> QED
    BY <1>4, <1>5, <1>6, <1>8, <2>1
<1>9. CASE x = "scheduled"
  <2>1. /\ d("active") = e("active") /\ d("pending") = e("pending") /\ d("retry") = e("retry")
        /\ d("archived") = e("archived") /\ d("completed") = e("completed") /\ d("aggregating") = e("aggregating")
        /\ d(x) = c[x] /\ e(x) = 0
    BY <1>3, <1>9 DEF Lists
  <2> HIDE DEF d, e
  <2> QED
    BY <1>4, <1>5, <1>6, <1>9, <2>1
<1>10. CASE x = "retry"
  <2>1. /\ d("active") = e("active") /\ d("pending") = e("pending") /\ d("scheduled") = e("scheduled")
        /\ d("archived") = e("archived") /\ d("completed") = e("completed") /\ d("aggregating") = e("aggregating")
        /\ d(x) = c[x] /\ e(x) = 0
    BY <1>3, <1>10 DEF Lists
  <2> HIDE DEF d, e
  <2> QED
    BY <1>4, <1>5, <1>6, <1>10, <2>1
<1>11. CASE x = "archived"
  <2>1. /\ d("active") = e("active") /\ d("pending") = e("pending") /\ d("scheduled") = e("scheduled")
        /\ d("retry") = e("retry") /\ d("completed") = e("completed") /\ d("aggregating") = e("aggregating")
        /\ d(x) = c[x] /\ e(x) = 0
    BY <1>3, <1>11 DEF Lists
  <2> HIDE DEF d, e
  <2> QED
    BY <1>4, <1>5, <1>6, <1>11, <2>1
<1>12. CASE x = "completed"
  <2>1. /\ d("active") = e("active") /\ d("pending") = e("pending") /\ d("scheduled") = e("scheduled")
        /\ d("retry") = e("retry") /\ d("archived") = e("archived") /\ d("aggregating") = e("aggregating")
        /\ d(x) = c[x] /\ e(x) = 0
    BY <1>3, <1>12 DEF Lists
  <2> HIDE DEF d, e
  <2> QED
    BY <1>4, <1>5, <1>6, <1>12, <2>1
<1>13. CASE x = "aggregating"
  <2>1. /\ d("active") = e("active") /\ d("pending") = e("pending") /\ d("scheduled") = e("scheduled")
        /\ d("retry") = e("retry") /\ d("archived") = e("archived") /\ d("completed") = e("completed")
        /\ d(x) = c[x] /\ e(x) = 0
    BY <1>3, <1>13 DEF Lists
  <2> HIDE DEF d, e
  <2> QED
    BY <1>4, <1>5, <1>6, <1>13, <2>1
<1> QED
  BY <1>4, <1>5, <1>6, <1>7, <1>8, <1>9, <1>10, <1>11, <1>12, <1>13 DEF Lists

Small(S, n) == IsFiniteSet(S) /\ Cardinality(S) \in Nat /\ Cardinality(S) <= n
LEMMA OneMore ==
    ASSUME NEW S, NEW n \in Nat, Small(S, n), NEW x, NEW m, m = n + 1
    PROVE  Small(S \cup {x}, m)
BY FS_AddElement DEF Small

LEMMA ListsFacts == IsFiniteSet(Lists) /\ Cardinality(Lists) <= 7
<1>1. Small({}, 0)
  BY FS_EmptySet DEF Small
<1>2. Small({"active"}, 1)
  <2>1. Small({} \cup {"active"}, 1)
    BY <1>1, OneMore, 0 \in Nat, 1 = 0 + 1
  <2>2. {"active"} = {} \cup {"active"}
    OBVIOUS
  <2> QED
    BY <2>1, <2>2
<1>3. Small({"active", "pending"}, 2)
  <2>1. Small({"active"} \cup {"pending"}, 2)
    BY <1>2, OneMore, 1 \in Nat, 2 = 1 + 1
  <2>2. {"active", "pending"} = {"active"} \cup {"pending"}
    OBVIOUS
  <2> QED
    BY <2>1, <2>2
<1>4. Small({"active", "pending", "scheduled"}, 3)
  <2>1. Small({"active", "pending"} \cup {"scheduled"}, 3)
    BY <1>3, OneMore, 2 \in Nat, 3 = 2 + 1
  <2>2. {"active", "pending", "scheduled"} = {"active", "pending"} \cup {"scheduled"}
    OBVIOUS
  <2> QED
    BY <2>1, <2>2
<1>5. Small({"active", "pending", "scheduled", "retry"}, 4)
  <2>1. Small({"active", "pending", "scheduled"} \cup {"retry"}, 4)
    BY <1>4, OneMore, 3 \in Nat, 4 = 3 + 1
  <2>2. {"active", "pending", "scheduled", "retry"} = {"active", "pending", "scheduled"} \cup {"retry"}
    OBVIOUS
  <2> QED
    BY <2>1, <2>2
<1>6. Small({"active", "pending", "scheduled", "retry", "archived"}, 5)
  <2>1. Small({"active", "pending", "scheduled", "retry"} \cup {"archived"}, 5)
    BY <1>5, OneMore, 4 \in Nat, 5 = 4 + 1
  <2>2. {"active", "pending", "scheduled", "retry", "archived"} =
          {"active", "pending", "scheduled", "retry"} \cup {"archived"}
    OBVIOUS
  <2> QED
    BY <2>1, <2>2
<1>7. Small({"active", "pending", "scheduled", "retry", "archived", "aggregating"}, 6)
  <2>1. Small({"active", "pending", "scheduled", "retry", "archived"} \cup {"aggregating"}, 6)
    BY <1>6, OneMore, 5 \in Nat, 6 = 5 + 1
  <2>2. {"active", "pending", "scheduled", "retry", "archived", "aggregating"} =
          {"active", "pending", "scheduled", "retry", "archived"} \cup {"aggregating"}
    OBVIOUS
  <2> QED
    BY <2>1, <2>2
<1>8. Small({"active", "pending", "scheduled", "retry", "archived", "aggregating", "completed"}, 7)
  <2>1. Small({"active", "pending", "scheduled", "retry", "archived", "aggregating"} \cup {"completed"}, 7)
    BY <1>7, OneMore, 6 \in Nat, 7 = 6 + 1
  <2>2. {"active", "pending", "scheduled", "retry", "archived", "aggregating", "completed"} =
          {"active", "pending", "scheduled", "retry", "archived", "aggregating"} \cup {"completed"}
    OBVIOUS
  <2> QED
    BY <2>1, <2>2
<1>9. {"active", "pending", "scheduled", "retry", "archived", "aggregating", "completed"} = Lists
  BY DEF Lists
<1> QED
  BY <1>8, <1>9 DEF Small

LEMMA FoldExists ==
    ASSUME NEW c \in [Lists -> Int]
    PROVE  Adds(CHOOSE f : Adds(f, c), c)
<1> DEFINE g == [s \in SUBSET Lists |-> Parts(c, s)]
           h == [s \in SUBSET Lists |->
                   IF s = {} THEN 0 ELSE c[CHOOSE x \in s : TRUE] + g[s \ {CHOOSE x \in s : TRUE}]]
<1>1. ASSUME NEW s \in SUBSET Lists PROVE g[s] = h[s]
  <2>1. CASE s = {}
    <3>1. Parts(c, s) = 0
      BY <2>1 DEF Parts, Part
    <3> QED
      BY <2>1, <3>1
  <2>2. CASE s # {}
    <3> DEFINE x == CHOOSE x \in s : TRUE
    <3>1. x \in s
      BY <2>2
    <3>2. s \ {x} \in SUBSET Lists
      OBVIOUS
    <3>3. h[s] = c[x] + g[s \ {x}]
      BY <2>2
    <3>4. g[s \ {x}] = Parts(c, s \ {x})
      BY <3>2
    <3> HIDE DEF x, h
    <3>5. Parts(c, s) = c[x] + Parts(c, s \ {x})
      BY <3>1, PartFacts
    <3> QED
      BY <3>3, <3>4, <3>5
  <2> QED
    BY <2>1, <2>2
<1>2. g = h
  BY <1>1
<1>3. Adds(g, c)
  BY <1>2 DEF Adds
<1> HIDE DEF g
<1> QED
  BY <1>3, Zenon

LEMMA FoldStep ==
    ASSUME NEW c \in [Lists -> Int], NEW f, Adds(f, c), NEW n \in Nat,
           \A s \in SUBSET Lists : Cardinality(s) <= n => f[s] = Parts(c, s)
    PROVE  \A s \in SUBSET Lists : Cardinality(s) <= n + 1 => f[s] = Parts(c, s)
<1> SUFFICES ASSUME NEW s \in SUBSET Lists, Cardinality(s) <= n + 1
             PROVE  f[s] = Parts(c, s)
  OBVIOUS
<1>1. f[s] = IF s = {} THEN 0 ELSE c[CHOOSE x \in s : TRUE] + f[s \ {CHOOSE x \in s : TRUE}]
  BY DEF Adds
<1>2. CASE s = {}
  <2>1. Parts(c, s) = 0
    BY <1>2 DEF Parts, Part
  <2> QED
    BY <1>1, <1>2, <2>1
<1>3. CASE s # {}
  <2> DEFINE x == CHOOSE x \in s : TRUE
  <2>1. x \in s /\ f[s] = c[x] + f[s \ {x}]
    BY <1>1, <1>3
  <2> HIDE DEF x
  <2>2. Parts(c, s) = c[x] + Parts(c, s \ {x})
    BY <2>1, PartFacts
  <2>3. IsFiniteSet(s)
    BY ListsFacts, FS_Subset
  <2>4. Cardinality(s \ {x}) = Cardinality(s) - 1 /\ Cardinality(s) \in Nat
    BY <2>1, <2>3, FS_RemoveElement, FS_CardinalityType
  <2>5. Cardinality(s \ {x}) <= n
    BY <2>4
  <2> QED
    BY <2>1, <2>2, <2>5
<1> QED
  BY <1>2, <1>3

\* What the library's sum adds up to.
LEMMA SumFacts ==
    ASSUME NEW c \in [Lists -> Int]
    PROVE  SumFunctionOnSet(c, Lists) = Altogether(c)
<1> DEFINE f == CHOOSE f : Adds(f, c)
           P(n) == \A s \in SUBSET Lists : Cardinality(s) <= n => f[s] = Parts(c, s)
<1>1. Adds(f, c) /\ SumFunctionOnSet(c, Lists) = f[Lists]
  BY FoldExists, SumIsFold
<1> HIDE DEF f
<1>2. P(0)
  <2> SUFFICES ASSUME NEW s \in SUBSET Lists, Cardinality(s) <= 0
               PROVE  f[s] = Parts(c, s)
    OBVIOUS
  <2>1. s = {}
    BY ListsFacts, FS_Subset, FS_CardinalityType, FS_EmptySet
  <2>2. f[s] = 0
    BY <1>1, <2>1 DEF Adds
  <2>3. Parts(c, s) = 0
    BY <2>1 DEF Parts, Part
  <2> QED
    BY <2>2, <2>3
<1>3. ASSUME NEW n \in Nat, P(n) PROVE P(n + 1)
  BY <1>1, <1>3, FoldStep
<1> HIDE DEF P
<1>4. P(1)
  BY <1>2, <1>3, 0 \in Nat, 0 + 1 = 1
<1>5. P(2)
  BY <1>3, <1>4, 1 \in Nat, 1 + 1 = 2
<1>6. P(3)
  BY <1>3, <1>5, 2 \in Nat, 2 + 1 = 3
<1>7. P(4)
  BY <1>3, <1>6, 3 \in Nat, 3 + 1 = 4
<1>8. P(5)
  BY <1>3, <1>7, 4 \in Nat, 4 + 1 = 5
<1>9. P(6)
  BY <1>3, <1>8, 5 \in Nat, 5 + 1 = 6
<1>10. P(7)
  BY <1>3, <1>9, 6 \in Nat, 6 + 1 = 7
<1>11. f[Lists] = Parts(c, Lists)
  BY <1>10, ListsFacts DEF P
<1>12. Parts(c, Lists) = Altogether(c)
  BY DEF Parts, Part, Altogether, Lists
<1> QED
  BY <1>1, <1>11, <1>12

-----------------------------------------------------------------------------
(* The size of a queue and its lists *)

AnswersAddUp(ns) == \A i \in DOMAIN ns : AddsUp(ns[i].stats)
QueuesAddUp(qs) == \A q \in DOMAIN qs : AddsUp(qs[q])
SizesAddUp == AnswersAddUp(net) /\ QueuesAddUp(queues)

\* What the page passes to its tables (TasksView.tsx:402): all but the aggregating one leave whole
\* lists to the bulk jobs.
BulkTables == Lists \ {"aggregating"} \subseteq BulkLists

LEMMA NothingAddsUp == AddsUp(NoStats)
BY DEF AddsUp, Altogether, NoStats, Lists

LEMMA UnionCount ==
    ASSUME NEW A \in SUBSET Tasks, NEW B \in SUBSET Tasks, A \cap B = {}, NEW C, C = A \cup B
    PROVE  /\ C \in SUBSET Tasks /\ Cardinality(C) = Cardinality(A) + Cardinality(B)
           /\ Cardinality(A) \in Nat /\ Cardinality(B) \in Nat /\ Cardinality(C) \in Nat
<1>1. IsFiniteSet(A) /\ IsFiniteSet(B) /\ C \in SUBSET Tasks
  BY TaskCounts
<1>2. Cardinality(A) \in Nat /\ Cardinality(B) \in Nat /\ Cardinality(C) \in Nat
  BY <1>1, TaskCounts
<1>3. Cardinality(C) = Cardinality(A) + Cardinality(B) - Cardinality(A \cap B) /\ Cardinality(A \cap B) = 0
  BY <1>1, FS_Union, FS_EmptySet
<1> QED
  BY <1>1, <1>2, <1>3

\* The server counts every task of a queue that is not gone, and each of them is in one of the
\* lists.
LEMMA StatsAddUp ==
    ASSUME srv \in [Tasks -> Lists \cup {"gone"}], NEW q
    PROVE  AddsUp(StatsOf(q))
<1> DEFINE L(l) == {t \in Tasks : Home[t] = q /\ srv[t] = l}
           all == {t \in Tasks : Home[t] = q /\ srv[t] # "gone"}
           C2 == L("active") \cup L("pending")
           C3 == C2 \cup L("scheduled")
           C4 == C3 \cup L("retry")
           C5 == C4 \cup L("archived")
           C6 == C5 \cup L("completed")
           C7 == C6 \cup L("aggregating")
<1>1. all = C7
  BY DEF Lists
<1>2. StatsOf(q).size = Cardinality(all) /\ \A l \in Lists : StatsOf(q).count[l] = Cardinality(L(l))
  BY DEF StatsOf
<1>3. /\ L("active") \in SUBSET Tasks /\ L("pending") \in SUBSET Tasks /\ L("scheduled") \in SUBSET Tasks
      /\ L("retry") \in SUBSET Tasks /\ L("archived") \in SUBSET Tasks /\ L("completed") \in SUBSET Tasks
      /\ L("aggregating") \in SUBSET Tasks
  OBVIOUS
<1>4. /\ L("active") \cap L("pending") = {} /\ C2 \cap L("scheduled") = {} /\ C3 \cap L("retry") = {}
      /\ C4 \cap L("archived") = {} /\ C5 \cap L("completed") = {} /\ C6 \cap L("aggregating") = {}
  OBVIOUS
<1>5. Altogether(StatsOf(q).count) =
        Cardinality(L("active")) + Cardinality(L("pending")) + Cardinality(L("scheduled")) + Cardinality(L("retry"))
          + Cardinality(L("archived")) + Cardinality(L("completed")) + Cardinality(L("aggregating"))
  BY <1>2 DEF Altogether, Lists
<1> HIDE DEF L, all
<1>6. /\ C2 \in SUBSET Tasks /\ Cardinality(C2) = Cardinality(L("active")) + Cardinality(L("pending"))
      /\ Cardinality(L("active")) \in Nat /\ Cardinality(L("pending")) \in Nat /\ Cardinality(C2) \in Nat
  BY <1>3, <1>4, UnionCount
<1> HIDE DEF C2
<1>7. /\ C3 \in SUBSET Tasks /\ Cardinality(C3) = Cardinality(C2) + Cardinality(L("scheduled"))
      /\ Cardinality(L("scheduled")) \in Nat /\ Cardinality(C3) \in Nat
  BY <1>3, <1>4, <1>6, UnionCount
<1> HIDE DEF C3
<1>8. /\ C4 \in SUBSET Tasks /\ Cardinality(C4) = Cardinality(C3) + Cardinality(L("retry"))
      /\ Cardinality(L("retry")) \in Nat /\ Cardinality(C4) \in Nat
  BY <1>3, <1>4, <1>7, UnionCount
<1> HIDE DEF C4
<1>9. /\ C5 \in SUBSET Tasks /\ Cardinality(C5) = Cardinality(C4) + Cardinality(L("archived"))
      /\ Cardinality(L("archived")) \in Nat /\ Cardinality(C5) \in Nat
  BY <1>3, <1>4, <1>8, UnionCount
<1> HIDE DEF C5
<1>10. /\ C6 \in SUBSET Tasks /\ Cardinality(C6) = Cardinality(C5) + Cardinality(L("completed"))
       /\ Cardinality(L("completed")) \in Nat /\ Cardinality(C6) \in Nat
  BY <1>3, <1>4, <1>9, UnionCount
<1> HIDE DEF C6
<1>11. /\ Cardinality(C7) = Cardinality(C6) + Cardinality(L("aggregating"))
       /\ Cardinality(L("aggregating")) \in Nat /\ Cardinality(C7) \in Nat
  BY <1>3, <1>4, <1>10, UnionCount
<1> HIDE DEF C7
<1>12. StatsOf(q).size = Altogether(StatsOf(q).count)
  BY <1>1, <1>2, <1>5, <1>6, <1>7, <1>8, <1>9, <1>10, <1>11
<1> QED
  BY <1>12 DEF AddsUp

LEMMA KeptAddsUp ==
    ASSUME NEW ns \in Seq(Requests), NEW m \in BOOLEAN, AnswersAddUp(ns)
    PROVE  AnswersAddUp(Kept(ns, m))
<1>1. /\ DOMAIN Kept(ns, m) = DOMAIN ns
      /\ \A i \in DOMAIN ns : Alike(Kept(ns, m)[i], ns[i])
  BY KeptFacts
<1> QED
  BY <1>1 DEF AnswersAddUp, Alike

LEMMA FetchAddsUp ==
    ASSUME NEW ks \in Seq(Requests), NEW ts \in [Lists -> Slice], NEW u \in Views, NEW gs \in GroupStates,
           NEW r, Asks(r, u, gs), Fetches(r, u.list, ks, ts), AnswersAddUp(ks)
    PROVE  AnswersAddUp(net')
<1>1. \A j \in DOMAIN net' : \/ net'[j] = r
                             \/ \E i \in DOMAIN ks : net'[j] = ks[i] \/ net'[j] = Overtaken(ks[i])
  BY FetchFacts
<1>2. AddsUp(r.stats)
  BY NothingAddsUp DEF Asks, Fresh
<1>3. \A i \in DOMAIN ks : AddsUp(Overtaken(ks[i]).stats)
  <2> TAKE i \in DOMAIN ks
  <2>1. ks[i] \in Requests
    OBVIOUS
  <2>2. Overtaken(ks[i]).stats = NoStats
    BY <2>1, OvertakenFacts
  <2> QED
    BY <2>2, NothingAddsUp
<1> QED
  BY <1>1, <1>2, <1>3 DEF AnswersAddUp

LEMMA DrawAddsUp ==
    ASSUME NEW u \in Views, NEW gs \in GroupStates, NEW ns \in Seq(Requests), NEW ts \in [Lists -> Slice],
           Draws(u, gs, ns, ts), AnswersAddUp(ns)
    PROVE  AnswersAddUp(net')
<1>1. PICK m \in BOOLEAN :
        \/ net' = Kept(ns, m)
        \/ \E r : Asks(r, u, gs) /\ Fetches(r, u.list, Kept(ns, m), ts)
  BY DEF Draws
<1>2. Kept(ns, m) \in Seq(Requests) /\ AnswersAddUp(Kept(ns, m))
  BY KeptFacts, KeptAddsUp
<1> QED
  BY <1>1, <1>2, FetchAddsUp

\* A commit asks for nothing that carries counts.
LEMMA RenderAddsUp ==
    ASSUME WorkspaceInv, NEW u \in Views, NEW gs \in GroupStates, NEW cs \in [Lists -> Nat],
           NEW ns \in Seq(Requests), NEW ts \in [Lists -> Slice], Render(u, gs, cs, ns, ts), AnswersAddUp(ns)
    PROVE  AnswersAddUp(net')
<1>1. Draws(u, gs, ns, ts)
  BY InvTypes, RenderFacts
<1> QED
  BY <1>1, DrawAddsUp

LEMMA ArriveAddsUp ==
    ASSUME WorkspaceInv, AnswersAddUp(net), NEW u \in Views, Arrive(u)
    PROVE  AnswersAddUp(net')
<1>1. Arrives(u)
  BY ArriveFacts
<1>2. PICK p \in Seq(Requests) : /\ \A i \in DOMAIN p : p[i].stats = NoStats
                                /\ Render(u, groups, counts, net \o p, tasks)
  BY <1>1 DEF Arrives
<1>3. /\ net \o p \in Seq(Requests)
      /\ \A j \in DOMAIN (net \o p) : (\E k \in DOMAIN net : (net \o p)[j] = net[k])
                                       \/ (\E k \in DOMAIN p : (net \o p)[j] = p[k])
  <2>1. ~Some(p, {}) /\ net \in Seq(Requests)
    BY InvTypes DEF Some
  <2> QED
    BY <2>1, Joined
<1> DEFINE ns == net \o p
<1>4. AnswersAddUp(ns)
  <2> HIDE DEF ns
  <2> QED
    BY <1>2, <1>3, NothingAddsUp DEF AnswersAddUp, ns
<1>5. ns \in Seq(Requests) /\ Render(u, groups, counts, ns, tasks)
  BY <1>2, <1>3
<1> HIDE DEF ns
<1> QED
  BY <1>4, <1>5, InvTypes, RenderAddsUp

LEMMA AppendAddsUp ==
    ASSUME WorkspaceInv, AnswersAddUp(net), NEW r, NEW kind, NEW q, Fresh(r, kind, q), net' = Append(net, r)
    PROVE  AnswersAddUp(net')
<1>1. r \in Requests /\ r.stats = NoStats
  BY DEF Fresh
<1>2. \A j \in DOMAIN net' : net'[j] = r \/ \E k \in DOMAIN net : net'[j] = net[k]
  BY <1>1, InvTypes, Appended
<1> QED
  BY <1>1, <1>2, NothingAddsUp DEF AnswersAddUp

\* Nothing the user or a poll does changes the counts, nor sends any.
LEMMA SendAddsUp ==
    ASSUME WorkspaceInv, SizesAddUp, Send
    PROVE  SizesAddUp'
<1>1. AnswersAddUp(net) /\ QueuesAddUp(queues)
  BY DEF SizesAddUp
<1>2. CASE TickTable
  <2> DEFINE r == ListRequest(ui, CurrentGroup(ui, groups))
  <2>1. Asks(r, ui, groups)
    BY TableAsks
  <2>2. Fetches(r, ui.list, net, tasks) /\ queues' = queues
    BY <1>2 DEF TickTable, Fetches
  <2> HIDE DEF r
  <2>3. AnswersAddUp(net')
    BY <1>1, <2>1, <2>2, InvTypes, FetchAddsUp
  <2> QED
    BY <1>1, <2>2, <2>3 DEF SizesAddUp
<1>3. CASE TickCore \/ TickGroups
  <2>1. PICK kind \in {"core", "groups"} : net' = Append(net, Request(kind, ui.queue)) /\ queues' = queues
    BY <1>3 DEF TickCore, TickGroups
  <2>2. Fresh(Request(kind, ui.queue), kind, ui.queue)
    BY InvTypes, CallFacts DEF Views
  <2>3. AnswersAddUp(net')
    BY <1>1, <2>1, <2>2, AppendAddsUp
  <2> QED
    BY <1>1, <2>1, <2>3 DEF SizesAddUp
<1>4. CASE \E q \in Queues : Open(q)
  <2>1. PICK q \in Queues : Open(q)
    BY <1>4
  <2> DEFINE u == [ui EXCEPT !.queue = q, !.group = NoGroup]
  <2>2. u \in Views
    BY InvTypes DEF Views
  <2>3. Arrive(u) /\ queues' = queues
    BY <2>1 DEF Open
  <2> HIDE DEF u
  <2> QED
    BY <1>1, <2>2, <2>3, ArriveAddsUp DEF SizesAddUp
<1>5. CASE \E l \in Tabs : openTab(l)
  <2>1. PICK l \in Tabs : openTab(l)
    BY <1>5
  <2> DEFINE u == [ui EXCEPT !.list = l, !.group = NoGroup]
  <2>2. u \in Views
    BY InvTypes DEF Views
  <2>3. Arrive(u) /\ queues' = queues
    BY <2>1 DEF openTab
  <2> HIDE DEF u
  <2> QED
    BY <1>1, <2>2, <2>3, ArriveAddsUp DEF SizesAddUp
<1>6. CASE \E g \in Groups : selectGroup(g)
  <2>1. PICK g \in Groups : selectGroup(g)
    BY <1>6
  <2> DEFINE u == [ui EXCEPT !.group = g]
  <2>2. u \in Views
    BY InvTypes DEF Views
  <2>3. Render(u, groups, counts, net, tasks) /\ queues' = queues
    BY <2>1 DEF selectGroup
  <2> HIDE DEF u
  <2> QED
    BY <1>1, <2>2, <2>3, InvTypes, RenderAddsUp DEF SizesAddUp
<1>7. CASE \E p \in 0..1 : goToPage(p)
  <2>1. PICK p \in 0..1 : goToPage(p)
    BY <1>7
  <2> DEFINE u == [ui EXCEPT !.page = p]
  <2>2. u \in Views
    <3>1. p \in Nat
      OBVIOUS
    <3> QED
      BY <3>1, InvTypes DEF Views
  <2>3. Render(u, groups, counts, net, tasks) /\ queues' = queues
    BY <2>1 DEF goToPage
  <2> HIDE DEF u
  <2> QED
    BY <1>1, <2>2, <2>3, InvTypes, RenderAddsUp DEF SizesAddUp
<1>8. CASE (\E t \in Tasks : handleSelectOne(t)) \/ handleSelectAll
  <2>1. net' = net /\ queues' = queues
    BY <1>8 DEF handleSelectOne, handleSelectAll
  <2> QED
    BY <1>1, <2>1 DEF SizesAddUp
<1>9. CASE \E verb \in Verbs[ui.list] : ActBatch(verb) \/ ActAll(verb) \/ \E t \in Tasks : ActOne(verb, t)
  <2>1. PICK verb \in Verbs[ui.list] : ActBatch(verb) \/ ActAll(verb) \/ \E t \in Tasks : ActOne(verb, t)
    BY <1>9
  <2>2. PICK scope \in {"one", "batch", "all"}, q \in Queues, g \in Groups \cup {NoGroup}, ids \in SUBSET Tasks :
          Offered(verb, scope) /\ Dispatch(Verb(verb, scope, q, g, ids))
    <3>1. /\ ui.queue \in Queues /\ ui.selected \in SUBSET Tasks /\ {} \in SUBSET Tasks
          /\ CurrentGroup(ui, groups) \in Groups \cup {NoGroup}
          /\ \A t \in Tasks : /\ Home[t] \in Queues /\ {t} \in SUBSET Tasks
                              /\ (IF ui.list = "aggregating" THEN GroupOf[t] ELSE NoGroup) \in Groups \cup {NoGroup}
      BY InvTypes, GroupFacts, WorkspaceAssumption DEF Views
    <3>2. CASE ActBatch(verb)
      BY <3>1, <3>2 DEF ActBatch
    <3>3. CASE ActAll(verb)
      BY <3>1, <3>3 DEF ActAll
    <3>4. CASE \E t \in Tasks : ActOne(verb, t)
      BY <3>1, <3>4 DEF ActOne
    <3> QED
      BY <2>1, <3>2, <3>3, <3>4
  <2>3. verb \in {"CANCEL", "DELETE", "RUN", "ARCHIVE"}
    BY <2>2, OfferedFacts
  <2> DEFINE r == Verb(verb, scope, q, g, ids)
  <2>4. Fresh(r, "act", q)
    <3>1. r = Verb(verb, scope, q, g, ids) /\ ui.list \in Lists
      BY InvTypes
    <3> HIDE DEF r
    <3> QED
      BY <2>3, <3>1, VerbFacts
  <2>5. net' = Append(net, r) /\ queues' = queues
    BY <2>2 DEF Dispatch
  <2> HIDE DEF r
  <2> QED
    BY <1>1, <2>4, <2>5, AppendAddsUp DEF SizesAddUp
<1> QED
  BY <1>2, <1>3, <1>4, <1>5, <1>6, <1>7, <1>8, <1>9 DEF Send, User

LEMMA RemoveAddsUp ==
    ASSUME WorkspaceInv, AnswersAddUp(net), NEW i \in DOMAIN net
    PROVE  AnswersAddUp(RemoveAt(net, i))
<1>1. \A j \in DOMAIN RemoveAt(net, i) : \E k \in DOMAIN net \ {i} : RemoveAt(net, i)[j] = net[k]
  BY InvTypes, Removed
<1> QED
  BY <1>1 DEF AnswersAddUp

\* An answer carries the counts of the moment it was made.
LEMMA AnswerAddsUp ==
    ASSUME WorkspaceInv, NEW r \in Requests, AddsUp(r.stats)
    PROVE  AddsUp(Answered(r).stats)
<1>1. \A q : AddsUp(StatsOf(q))
  BY StatsAddUp DEF WorkspaceInv, StoreTypes
<1>2. CASE r.kind = "act"
  <2> DEFINE s == IF r.scope = "one" /\ Targets(r) = {} THEN "error" ELSE "ok"
             d == IF CarriedBy(r.verb, r.scope, r.list) = "ids" THEN Targets(r) ELSE {}
             n == IF CarriedBy(r.verb, r.scope, r.list) = "count" THEN Cardinality(Targets(r)) ELSE 0
  <2>1. Answered(r) = [r EXCEPT !.status = s, !.done = d, !.n = n]
    BY <1>2 DEF Answered
  <2> HIDE DEF s, d, n
  <2>2. Answered(r).stats = r.stats
    BY <2>1 DEF Requests
  <2> QED
    BY <2>2
<1>3. CASE r.kind # "act"
  <2> DEFINE st == StatsOf(r.queue)
             rs == PageOf(Content(r.queue, r.list, r.group), r.page)
             y == GroupSizes(r.queue)
             z == IF r.list = "aggregating" THEN GroupSizes(r.queue) ELSE NoSizes
  <2>1. \/ Answered(r) = [r EXCEPT !.status = "ok", !.stats = st]
        \/ Answered(r) = [r EXCEPT !.status = "ok", !.stats = st, !.sizes = y]
        \/ Answered(r) = [r EXCEPT !.status = "ok", !.at = now, !.stats = st, !.rows = rs, !.sizes = z]
    BY <1>3, RequestFields DEF Answered
  <2> HIDE DEF st, rs, y, z
  <2>2. Answered(r).stats = st
    BY <2>1 DEF Requests
  <2> QED
    BY <1>1, <2>2 DEF st
<1> QED
  BY <1>2, <1>3

LEMMA ServeAddsUp ==
    ASSUME WorkspaceInv, SizesAddUp, NEW i \in DOMAIN net, Handle(i) \/ Lose(i)
    PROVE  SizesAddUp'
<1>1. AnswersAddUp(net) /\ QueuesAddUp(queues)
  BY DEF SizesAddUp
<1>2. queues' = queues /\ (net' = RemoveAt(net, i) \/ net' = [net EXCEPT ![i] = Answered(net[i])])
  BY DEF Handle, Lose
<1>3. CASE net' = RemoveAt(net, i)
  BY <1>1, <1>2, <1>3, RemoveAddsUp DEF SizesAddUp
<1>4. CASE net' = [net EXCEPT ![i] = Answered(net[i])]
  <2>1. net[i] \in Requests /\ AddsUp(net[i].stats)
    BY <1>1, InvTypes DEF AnswersAddUp
  <2> DEFINE x == Answered(net[i])
  <2>2. AddsUp(x.stats)
    BY <2>1, AnswerAddsUp
  <2> HIDE DEF x
  <2>3. DOMAIN net' = DOMAIN net /\ net'[i] = x /\ \A j \in DOMAIN net \ {i} : net'[j] = net[j]
    BY <1>4 DEF x
  <2>4. AnswersAddUp(net')
    BY <1>1, <2>2, <2>3 DEF AnswersAddUp
  <2> QED
    BY <1>1, <1>2, <2>4 DEF SizesAddUp
<1> QED
  BY <1>2, <1>3, <1>4

LEMMA LeavingAddsUp ==
    ASSUME WorkspaceInv, AnswersAddUp(net), NEW i \in DOMAIN net, NEW rest, Leaving(i, rest)
    PROVE  AnswersAddUp(rest)
<1>1. CASE rest = RemoveAt(net, i)
  BY <1>1, RemoveAddsUp
<1>2. CASE rest = [net EXCEPT ![i].awaited = FALSE, ![i].mine = FALSE]
  <2> DEFINE x == [net[i] EXCEPT !.awaited = FALSE, !.mine = FALSE]
  <2>1. rest = [net EXCEPT ![i] = x]
    BY <1>2
  <2>2. x \in Requests /\ Alike(x, net[i])
    <3>1. net[i] \in Requests /\ x = [net[i] EXCEPT !.awaited = FALSE, !.mine = FALSE]
      BY InvTypes
    <3> HIDE DEF x
    <3> QED
      BY <3>1, GivenUpFacts
  <2> HIDE DEF x
  <2>3. DOMAIN rest = DOMAIN net /\ rest[i] = x /\ \A j \in DOMAIN net \ {i} : rest[j] = net[j]
    BY <2>1, <2>2, InvTypes, Replaced
  <2> QED
    BY <2>2, <2>3 DEF AnswersAddUp, Alike
<1> QED
  BY <1>1, <1>2 DEF Leaving

\* A listing replaces the counts of its queue, the answer to an act moves them along.
LEMMA ReceiveAddsUp ==
    ASSUME WorkspaceInv, SizesAddUp, BulkTables, NEW i \in DOMAIN net, NEW r, r = net[i], NEW rest, Remains(i, rest),
           AnswersAddUp(rest), NEW phase \in {"SUCCESS", "ERROR"}, Receive(r, phase, rest)
    PROVE  SizesAddUp'
<1>1. QueuesAddUp(queues) /\ AddsUp(r.stats) /\ r \in Requests /\ rest \in Seq(Requests)
  BY InvTypes DEF SizesAddUp, AnswersAddUp, Remains
<1>2. r.kind \in {"list", "core", "groups", "act"} /\ r.sizes \in Sizes /\ r.stats.count \in [Lists -> Nat]
  BY <1>1, RequestFields, AnsweredStatsAreStats
<1>3. CASE r.kind = "list" /\ r.stale
  <2>1. net' = rest /\ queues' = queues
    BY <1>3 DEF Receive, Ignore
  <2> QED
    BY <1>1, <2>1 DEF SizesAddUp
<1>4. CASE r.kind = "list" /\ ~r.stale
  <2> DEFINE gs == IF r.list = "aggregating" THEN groupsReducer(groups, "LIST", phase, r.sizes) ELSE groups
             m == Msg(r, phase)
             ts == [tasks EXCEPT ![r.list] = tasksReducer(@, m)]
  <2>1. /\ Render(ui, gs, counts, rest, ts)
        /\ queues' = IF phase = "SUCCESS" THEN ListedStats(queues, m, r.stats) ELSE queues
    BY <1>4 DEF Receive, ReceiveList
  <2>2. gs \in GroupStates
    BY <1>2, InvTypes, GroupsReduced
  <2>3. ts \in [Lists -> Slice]
    <3>1. r.verb = "LIST" /\ r.group \in Groups \cup {NoGroup} /\ r.rows \subseteq Tasks /\ r.list \in Lists
          /\ phase \in Phases
      BY <1>1, <1>4, RequestFields DEF WorkspaceInv, RequestsAreSound, IsListing, Phases
    <3>2. Listed(ts, tasks, r.list, r, phase)
      BY <3>1, InvTypes, ListedFacts
    <3> QED
      BY <3>2 DEF Listed
  <2> HIDE DEF gs, ts
  <2>4. AnswersAddUp(net')
    BY <1>1, <2>1, <2>2, <2>3, InvTypes, RenderAddsUp
  <2>5. QueuesAddUp(queues')
    BY <1>1, <2>1 DEF QueuesAddUp, ListedStats
  <2> QED
    BY <2>4, <2>5 DEF SizesAddUp
<1>5. CASE r.kind = "core"
  <2>1. counts' \in [Lists -> Nat] /\ Render(ui, groups, counts', rest, tasks) /\ queues' = queues
    BY <1>2, <1>5, InvTypes DEF Receive, fetchCore
  <2>2. AnswersAddUp(net')
    BY <1>1, <2>1, InvTypes, RenderAddsUp
  <2> QED
    BY <1>1, <2>1, <2>2 DEF SizesAddUp
<1>6. CASE r.kind = "groups"
  <2>1. /\ groups' = groupsReducer(groups, "GROUPS", phase, r.sizes) /\ Render(ui, groups', counts, rest, tasks)
        /\ queues' = IF phase = "SUCCESS" THEN GroupedStats(queues, r.queue, r.stats) ELSE queues
    BY <1>6 DEF Receive, ReceiveGroups
  <2>2. groups' \in GroupStates
    BY <1>2, <2>1, InvTypes, GroupsReduced
  <2>3. AnswersAddUp(net')
    BY <1>1, <2>1, <2>2, InvTypes, RenderAddsUp
  <2>4. QueuesAddUp(queues')
    BY <1>1, <2>1 DEF QueuesAddUp, GroupedStats
  <2> QED
    BY <2>3, <2>4 DEF SizesAddUp
<1>7. CASE r.kind = "act"
  <2> DEFINE m == Msg(r, phase)
             ts == [tasks EXCEPT ![r.list] = tasksReducer(@, m)]
             u == IF r.scope = "batch" /\ r.mine THEN [ui EXCEPT !.selected = {}] ELSE ui
  <2>1. /\ m.phase \in Phases /\ m.scope \in {"one", "batch", "all"} /\ m.list = r.list /\ m.list \in Lists
        /\ m.verb \in TableOf[m.list][m.scope] /\ m.done \subseteq Tasks /\ m.count \in Nat
        /\ (m.scope = "all" => m.list = "aggregating")
    BY <1>7, ActMsg DEF BulkTables
  <2>2. Render(u, groups, counts, rest, ts) /\ queues' = CountedStats(queues, m)
    BY <1>7 DEF Receive, ReceiveAct
  <2>3. u \in Views
    BY InvTypes DEF Views
  <2> HIDE DEF m
  <2>4. Reduced(ts, tasks, m)
    BY <2>1, InvTypes, ReducedFacts
  <2> HIDE DEF ts, u
  <2>5. AnswersAddUp(net')
    <3>1. ts \in [Lists -> Slice]
      BY <2>4 DEF Reduced
    <3> QED
      BY <1>1, <2>2, <2>3, <3>1, InvTypes, RenderAddsUp
  <2>6. QueuesAddUp(queues')
    <3>1. \A q \in DOMAIN queues : queues[q] \in Stats /\ AddsUp(queues[q])
      BY <1>1, InvTypes DEF QueueTypes, QueuesAddUp
    <3>2. \A q \in DOMAIN queues : AddsUp(queuesReducer(queues[q], m))
      BY <2>1, <3>1, CountFacts
    <3> QED
      BY <2>2, <3>1, <3>2 DEF QueuesAddUp, CountedStats
  <2> QED
    BY <2>5, <2>6 DEF SizesAddUp
<1> QED
  BY <1>2, <1>3, <1>4, <1>5, <1>6, <1>7

LEMMA SizesStep ==
    ASSUME WorkspaceInv, SizesAddUp, BulkTables, [Next]_vars
    PROVE  SizesAddUp'
<1>1. CASE \E t \in Tasks : Progress(t)
  BY <1>1 DEF Progress, SizesAddUp, AnswersAddUp, QueuesAddUp
<1>2. CASE Send
  BY <1>2, SendAddsUp
<1>3. CASE Serve
  BY <1>3, ServeAddsUp DEF Serve
<1>4. CASE Settle
  <2>1. PICK i \in DOMAIN net : Deliver(i) \/ Fail(i)
    BY <1>4 DEF Settle
  <2>2. Settles(i)
    BY <2>1, SettleFacts
  <2>3. PICK rest, phase : Leaving(i, rest) /\ phase \in {"SUCCESS", "ERROR"} /\ Receive(net[i], phase, rest)
    BY <2>2 DEF Settles
  <2>4. Remains(i, rest) /\ AnswersAddUp(rest)
    BY <2>3, LeavingRemains, LeavingAddsUp DEF SizesAddUp
  <2> QED
    BY <2>3, <2>4, ReceiveAddsUp
<1>5. CASE UNCHANGED vars
  BY <1>5 DEF vars, SizesAddUp, AnswersAddUp, QueuesAddUp
<1> QED
  BY <1>1, <1>2, <1>3, <1>4, <1>5 DEF Next

LEMMA SizesInit == Init => SizesAddUp
<1> SUFFICES ASSUME Init PROVE SizesAddUp
  OBVIOUS
<1>1. QueuesAddUp(queues)
  BY DEF Init, QueuesAddUp
<1>2. AnswersAddUp(net)
  <2>1. PICK q \in Queues, l \in Tabs :
          /\ ui = [queue |-> q, list |-> l, group |-> NoGroup, page |-> 0, selected |-> {}]
          /\ \/ net = <<Request("core", q)>> \o <<Request("groups", q)>>
             \/ net = Append(<<Request("core", q)>>, ListRequest(ui, NoGroup))
    BY InitFacts
  <2> DEFINE c == Request("core", q)
             g == Request("groups", q)
             r == ListRequest(ui, NoGroup)
  <2>2. c.stats = NoStats /\ g.stats = NoStats
    BY CallFacts DEF Fresh
  <2>3. r.stats = NoStats
    <3>1. ui.queue \in Queues /\ ui.list \in Lists /\ ui.page \in Nat /\ r = ListRequest(ui, NoGroup)
      BY <2>1, WorkspaceAssumption
    <3> HIDE DEF r
    <3>2. Fresh(r, "list", ui.queue)
      BY <3>1, ListRequestFacts
    <3> QED
      BY <3>2 DEF Fresh
  <2> HIDE DEF c, g, r
  <2>4. CASE net = <<c>> \o <<g>>
    BY <2>2, <2>4, NothingAddsUp DEF AnswersAddUp
  <2>5. CASE net = Append(<<c>>, r)
    BY <2>2, <2>3, <2>5, NothingAddsUp DEF AnswersAddUp
  <2> QED
    BY <2>1, <2>4, <2>5 DEF c, g, r
<1> QED
  BY <1>1, <1>2 DEF SizesAddUp

\* queuesReducer moves its counts by deltas, out of order with the listings that replace them: with
\* the tables the pages use, the size a queue shows is always the sum of its lists.
THEOREM SizesAreSums ==
    ASSUME BulkTables
    PROVE  Spec => []SizeIsSumOfLists
<1>1. Init => SizesAddUp
  BY SizesInit
<1>2. WorkspaceInv /\ SizesAddUp /\ [Next]_vars => SizesAddUp'
  BY SizesStep
<1>3. WorkspaceInv /\ SizesAddUp => SizeIsSumOfLists
  <2> SUFFICES ASSUME WorkspaceInv, SizesAddUp, NEW q \in DOMAIN queues
               PROVE  queues[q].size = SumFunctionOnSet(queues[q].count, Lists)
    BY DEF SizeIsSumOfLists
  <2>1. queues[q].count \in [Lists -> Int] /\ AddsUp(queues[q])
    BY InvTypes DEF SizesAddUp, QueuesAddUp, QueueTypes, Stats
  <2> QED
    BY <2>1, SumFacts DEF AddsUp
<1> QED
  BY <1>1, <1>2, <1>3, WorkspaceAlways, PTL DEF Spec
=============================================================================
