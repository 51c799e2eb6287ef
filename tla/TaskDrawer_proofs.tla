--------------------------- MODULE TaskDrawer_proofs ---------------------------
(***************************************************************************)
(* Proofs about the Tasks console and its drawer, for every number of      *)
(* gestures, changes and requests in flight: the rows answer the query,    *)
(* they hold still while they are held, the pill announces what is held    *)
(* back, and verbs act on the rows they were chosen for.                   *)
(***************************************************************************)
EXTENDS TaskDrawer, TLAPS

-----------------------------------------------------------------------------
(* The invariant *)

Froms == {"first", "second"}
Frozen == [data : Rows, live : Rows, pending : Nat, frozen : BOOLEAN, flush : BOOLEAN]
Answers == [rows : Rows, of : Filters \cup {None}, from : Froms, more : BOOLEAN]
Appended == [rows : Rows, cont : {"null", ""}]
ScanJobs == [job : Filters \cup {None}, done : BOOLEAN, found : SUBSET Tasks, rows : Rows]

Searches == [kind : {"search"}, q : Filters, from : Froms, current : BOOLEAN, polled : BOOLEAN]
Results == [kind : {"results"}, q : Filters, current : BOOLEAN]
Others == [kind : {"continue", "create"}, q : Filters]
Acts == [kind : {"act"}, rows : Rows, q : Filters, from : Froms, ofSelection : BOOLEAN, ofJob : BOOLEAN]
Requests == Searches \cup Results \cup Others \cup Acts

Types ==
    /\ at \in [Tasks -> Filters \cup {None}]
    /\ url \in [q : Filters, peek : Tasks \cup {None}] /\ input \in Filters
    /\ base \in Answers /\ cursor \in Froms /\ ext \in Appended /\ scan \in ScanJobs /\ frz \in Frozen
    /\ hover \in BOOLEAN /\ pivot \in BOOLEAN /\ crossed \in BOOLEAN
    /\ selected \subseteq Tasks /\ net \subseteq Requests

\* Rows of one query, and rows that list no task twice.
OfOne(rows) == \A r, s \in rows : r[2] = s[2]
NotTwice(rows) == \A r, s \in rows : r[1] = s[1] => r = s
\* Each source of rows is of one query: Continue is answered once per query.
Sources ==
    /\ OfOne(base.rows) /\ OfOne(ext.rows) /\ OfOne(scan.rows) /\ NotTwice(frz.live)
    /\ \A c, d \in net : c.kind = "continue" /\ d.kind = "continue" => c = d
    /\ \A c \in net : c.kind = "continue" => ext.cont = "null"
    /\ ext.cont = "null" => ext.rows = {}

\* Until a change of query crosses a request, all that is shown or on its way is of the query.
AllOf(rows, q) == \A r \in rows : r[2] = q
OfTheQuery(c) == (c.kind = "search" => c.current) => c.q = url.q
Answering ==
    ~crossed => /\ AllOf(base.rows, url.q) /\ AllOf(ext.rows, url.q) /\ AllOf(scan.rows, url.q)
                /\ AllOf(frz.data, url.q) /\ AllOf(frz.live, url.q)
                /\ scan.job \in {None, url.q}
                /\ \A c \in net : OfTheQuery(c)

\* A buffer is announced.
Announced(z) == z.data # z.live => z.frozen /\ z.pending > 0
Held == frz.frozen = interacting(hover, selected, url.peek) /\ Announced(frz)

\* A confirmation; and until the query changes, the row it names is of the query.
Dialogs == {noDialog, [noDialog EXCEPT !.kind = "selection"]}
             \cup [kind : {"delete"}, row : Tasks \X Filters, astray : BOOLEAN]
Choice(d) == d \in Dialogs /\ (~crossed /\ d.kind = "delete" /\ ~d.astray => d.row[2] = url.q)

ConsoleInv == Types /\ Sources /\ Answering /\ Held /\ Choice(dialog)

Infos == {NoInfo} \cup [id : Tasks, of : Filters]
Reads == [kind : {"read"}, t : Tasks, polled : BOOLEAN]
DrawerVerbs == [kind : {"run", "delete"}, t : Tasks, of : Filters, mounted : BOOLEAN]
DrawerTypes == info \in Infos /\ confirm \in BOOLEAN /\ calls \subseteq Reads \cup DrawerVerbs

DrawerInv == ConsoleInv /\ DrawerTypes

-----------------------------------------------------------------------------
(* The operators of the model *)

\* Assumed by TaskConsole.
LEMMA NoneIsNoTask == None \notin Filters /\ None \notin Tasks
BY ConsoleAssumption

\* setFrozen holds or releases the rows: what is shown was shown or buffered before.
LEMMA HoldFacts ==
    ASSUME NEW z \in Frozen, NEW fr \in BOOLEAN
    PROVE  /\ setFrozen(z, fr) \in Frozen
           /\ setFrozen(z, fr).live = z.live
           /\ setFrozen(z, fr).flush = z.flush
           /\ setFrozen(z, fr).frozen = fr
           /\ setFrozen(z, fr).data \in {z.data, z.live}
           /\ z.frozen /\ fr => setFrozen(z, fr).data = z.data
           /\ Announced(z) => Announced(setFrozen(z, fr))
<1>1. CASE z.frozen /\ ~fr
  <2>1. setFrozen(z, fr) = [data |-> z.live, live |-> z.live, pending |-> 0, frozen |-> FALSE, flush |-> z.flush]
    BY <1>1 DEF setFrozen, frozenApply, Frozen
  <2>2. fr = FALSE
    BY <1>1
  <2>3. z.live \in Rows /\ z.flush \in BOOLEAN
    BY DEF Frozen
  <2>4. setFrozen(z, fr) \in Frozen
    BY ONLY <2>1, <2>3 DEF Frozen
  <2>5. setFrozen(z, fr).frozen = FALSE
    BY ONLY <2>1
  <2>6. setFrozen(z, fr).frozen = fr
    BY <2>5, <2>2, Zenon
  <2> QED
    <3>1. setFrozen(z, fr).live = z.live /\ setFrozen(z, fr).flush = z.flush /\ setFrozen(z, fr).data = z.live
      BY ONLY <2>1
    <3>2. Announced(setFrozen(z, fr))
      BY <3>1 DEF Announced
    <3> QED
      BY <3>1, <3>2, <2>4, <2>6, <1>1, Zenon
<1>2. CASE ~(z.frozen /\ ~fr)
  <2>1. setFrozen(z, fr) = [data |-> z.data, live |-> z.live, pending |-> z.pending, frozen |-> fr, flush |-> z.flush]
    BY <1>2 DEF setFrozen, Frozen
  <2> QED
    BY <2>1, <1>2 DEF Frozen, Announced
<1> QED
  BY <1>1, <1>2

\* An arrival is buffered while the rows are held, and the pill counts it.
LEMMA ArriveFacts ==
    ASSUME NEW z \in Frozen, NEW rows \in Rows
    PROVE  /\ arrive(z, rows) \in Frozen
           /\ arrive(z, rows).live = rows
           /\ arrive(z, rows).frozen = z.frozen
           /\ arrive(z, rows).data \in {z.data, rows}
           /\ z.frozen /\ ~z.flush => arrive(z, rows).data = z.data
           /\ Announced(z) => Announced(arrive(z, rows))
<1>1. CASE z.flush /\ rows # z.live
  <2>1. arrive(z, rows).data = rows /\ arrive(z, rows).live = rows /\ arrive(z, rows).frozen = z.frozen /\ arrive(z, rows).flush = FALSE
        /\ arrive(z, rows) = [data |-> rows, live |-> rows, pending |-> 0, frozen |-> z.frozen, flush |-> FALSE]
    BY <1>1 DEF arrive, frozenApply, liveArrived, Frozen
  <2> QED
    BY <2>1, <1>1 DEF Frozen, Announced
<1>2. CASE ~(z.flush /\ rows # z.live) /\ ~z.frozen
  <2>1. arrive(z, rows) = [data |-> rows, live |-> rows, pending |-> 0, frozen |-> z.frozen, flush |-> z.flush]
    BY <1>2 DEF arrive, liveArrived, Frozen
  <2> QED
    BY <2>1, <1>2 DEF Frozen, Announced
<1>3. CASE ~(z.flush /\ rows # z.live) /\ z.frozen /\ rows = z.live
  <2>1. arrive(z, rows) = [data |-> z.data, live |-> rows, pending |-> z.pending + 0, frozen |-> z.frozen, flush |-> z.flush]
    BY <1>3 DEF arrive, liveArrived, Frozen
  <2> QED
    BY <2>1, <1>3 DEF Frozen, Announced
<1>4. CASE ~(z.flush /\ rows # z.live) /\ z.frozen /\ rows # z.live
  <2>1. arrive(z, rows) = [data |-> z.data, live |-> rows, pending |-> z.pending + 1, frozen |-> z.frozen, flush |-> z.flush]
    BY <1>4 DEF arrive, liveArrived, Frozen
  <2>2. z.pending \in Nat
    BY DEF Frozen
  <2>3. z.pending + 1 > 0 /\ z.pending + 1 \in Nat
    BY <2>2
  <2> QED
    BY <2>1, <2>3, <1>4 DEF Frozen, Announced
<1> QED
  BY <1>1, <1>2, <1>3, <1>4

\* The flag of applyNextChange changes nothing else.
LEMMA FlushFacts ==
    ASSUME NEW y \in Frozen
    PROVE  /\ [y EXCEPT !.flush = TRUE] \in Frozen
           /\ [y EXCEPT !.flush = TRUE].data = y.data
           /\ [y EXCEPT !.flush = TRUE].live = y.live
           /\ Announced(y) => Announced([y EXCEPT !.flush = TRUE])
BY DEF Frozen, Announced

\* One window of a listing: rows of the tasks in it, under its query.
LEMMA WindowFacts ==
    ASSUME NEW f \in Filters, NEW from
    PROVE  Window(f, from) \in Rows /\ AllOf(Window(f, from), f) /\ OfOne(Window(f, from))
BY DEF Window, Listing, FirstOf, Rows, AllOf, OfOne

\* Rows of one query name no task twice.
LEMMA OneQueryNamesOnce ==
    ASSUME NEW rows \in Rows, OfOne(rows)
    PROVE  NotTwice(rows)
BY DEF Rows, OfOne, NotTwice

\* What is listed: the rows of the job, or the window and what Continue appended to it.
LEMMA VisibleFacts ==
    ASSUME NEW b \in Answers, NEW e \in Appended, NEW j \in ScanJobs,
           OfOne(b.rows), OfOne(e.rows), OfOne(j.rows)
    PROVE  /\ visibleTasks(b, e, j) \in Rows
           /\ NotTwice(visibleTasks(b, e, j))
           /\ \A q : AllOf(b.rows, q) /\ AllOf(e.rows, q) /\ AllOf(j.rows, q) => AllOf(visibleTasks(b, e, j), q)
<1> DEFINE more == {r \in e.rows : \A s \in b.rows : s[1] # r[1]}
<1>1. b.rows \in Rows /\ e.rows \in Rows /\ j.rows \in Rows
  BY DEF Answers, Appended, ScanJobs
<1>2. NotTwice(b.rows) /\ NotTwice(e.rows) /\ NotTwice(j.rows)
  BY <1>1, OneQueryNamesOnce
<1>3. CASE visibleTasks(b, e, j) = j.rows
  BY <1>1, <1>2, <1>3
<1>4. CASE visibleTasks(b, e, j) = b.rows \cup more
  <2>1. b.rows \cup more \in Rows
    BY <1>1 DEF Rows
  <2>2. NotTwice(b.rows \cup more)
    BY <1>2 DEF NotTwice
  <2>3. \A q : AllOf(b.rows, q) /\ AllOf(e.rows, q) => AllOf(b.rows \cup more, q)
    BY DEF AllOf
  <2> QED
    BY <2>1, <2>2, <2>3, <1>4
<1> QED
  BY <1>3, <1>4 DEF visibleTasks

\* Starting a request makes the earlier ones of its kind stale and leaves the others alone.
LEMMA BeginFacts ==
    ASSUME NEW n, n \subseteq Requests, NEW k \in {"search", "results"}
    PROVE  /\ begin(n, k) \subseteq Requests
           /\ \A c \in begin(n, k) : c.kind = k => ~c.current
           /\ \A c \in begin(n, k) : c.kind # k => c \in n
           /\ \A c \in begin(n, k) : \E d \in n : d.kind = c.kind /\ d.q = c.q
<1> SUFFICES ASSUME NEW c \in begin(n, k)
             PROVE  /\ c \in Requests /\ (c.kind = k => ~c.current) /\ (c.kind # k => c \in n)
                    /\ \E d \in n : d.kind = c.kind /\ d.q = c.q
  OBVIOUS
<1>1. PICK d \in n : c = IF d.kind = k THEN [d EXCEPT !.current = FALSE] ELSE d
  BY DEF begin
<1>2. d \in Requests
  OBVIOUS
<1>3. CASE d.kind # k
  BY <1>1, <1>2, <1>3
<1>4. CASE d.kind = k /\ d \in Searches
  <2>1. c = [kind |-> d.kind, q |-> d.q, from |-> d.from, current |-> FALSE, polled |-> d.polled]
    BY <1>1, <1>4 DEF Searches
  <2>2. c \in Searches /\ c.kind = d.kind /\ c.q = d.q /\ ~c.current
    BY <2>1, <1>4 DEF Searches
  <2> QED
    BY <2>2, <1>4 DEF Requests
<1>5. CASE d.kind = k /\ d \in Results
  <2>1. c = [kind |-> d.kind, q |-> d.q, current |-> FALSE]
    BY <1>1, <1>5 DEF Results
  <2>2. c \in Results /\ c.kind = d.kind /\ c.q = d.q /\ ~c.current
    BY <2>1, <1>5 DEF Results
  <2> QED
    BY <2>2, <1>5 DEF Requests
<1>6. d \in Others \cup Acts => d.kind # k
  BY DEF Others, Acts
<1> QED
  BY <1>2, <1>3, <1>4, <1>5, <1>6 DEF Requests

LEMMA FetchFacts ==
    ASSUME NEW n, n \subseteq Requests, NEW q \in Filters, NEW from \in Froms, NEW polled \in BOOLEAN
    PROVE  /\ beginTasksFetch(n, q, from, polled) \subseteq Requests
           /\ \A c \in beginTasksFetch(n, q, from, polled) :
                 /\ c.kind = "search" => (c.current => c.q = q)
                 /\ c.kind # "search" => c \in n
<1> DEFINE new == [kind |-> "search", q |-> q, from |-> from, current |-> TRUE, polled |-> polled]
<1>1. new \in Requests /\ new.kind = "search" /\ new.q = q
  BY DEF Requests, Searches
<1>2. beginTasksFetch(n, q, from, polled) = begin(n, "search") \cup {new}
  BY DEF beginTasksFetch
<1> HIDE DEF new
<1> QED
  BY <1>1, <1>2, BeginFacts

LEMMA FetchResultsFacts ==
    ASSUME NEW n, n \subseteq Requests, NEW q \in Filters
    PROVE  /\ beginJobResultsFetch(n, q) \subseteq Requests
           /\ \A c \in beginJobResultsFetch(n, q) :
                 /\ c.kind = "results" => c.q = q \/ \E d \in n : d.kind = "results" /\ d.q = c.q
                 /\ c.kind # "results" => c \in n
<1> DEFINE new == [kind |-> "results", q |-> q, current |-> TRUE]
<1>1. new \in Requests /\ new.kind = "results" /\ new.q = q
  BY DEF Requests, Results
<1>2. beginJobResultsFetch(n, q) = begin(n, "results") \cup {new}
  BY DEF beginJobResultsFetch
<1> HIDE DEF new
<1> QED
  BY <1>1, <1>2, BeginFacts

-----------------------------------------------------------------------------
(* What a step that keeps the query must show of the state it leaves *)

StepTypes ==
    /\ at' \in [Tasks -> Filters \cup {None}] /\ input' \in Filters /\ cursor' \in Froms
    /\ url' \in [q : Filters, peek : Tasks \cup {None}] /\ url'.q = url.q /\ crossed' = crossed
    /\ hover' \in BOOLEAN /\ Choice(dialog') /\ pivot' \in BOOLEAN /\ selected' \subseteq Tasks
Listed ==
    /\ base' \in Answers /\ ext' \in Appended /\ scan' \in ScanJobs
    /\ OfOne(base'.rows) /\ OfOne(ext'.rows) /\ OfOne(scan'.rows)
    /\ ext'.cont = "null" => ext'.rows = {}
    /\ ~crossed => /\ AllOf(base'.rows, url.q) /\ AllOf(ext'.rows, url.q) /\ AllOf(scan'.rows, url.q)
                   /\ scan'.job \in {None, url.q}
Asking ==
    /\ net' \subseteq Requests
    /\ \A c, d \in net' : c.kind = "continue" /\ d.kind = "continue" => c = d
    /\ \A c \in net' : c.kind = "continue" => ext'.cont = "null"
    /\ ~crossed => \A c \in net' : OfTheQuery(c)
Shown ==
    /\ frz' \in Frozen /\ NotTwice(frz'.live) /\ Announced(frz')
    /\ frz'.frozen = interacting(hover', selected', url'.peek)
    /\ ~crossed => AllOf(frz'.data, url.q) /\ AllOf(frz'.live, url.q)

LEMMA Assembled ==
    ASSUME StepTypes, Listed, Asking, Shown, crossed \in BOOLEAN
    PROVE  ConsoleInv'
<1>1. Types'
  BY DEF StepTypes, Listed, Asking, Shown, Types
<1>2. Sources'
  BY DEF Listed, Asking, Shown, Sources
<1>3. (\A c \in net : OfTheQuery(c))' <=> \A c \in net' : OfTheQuery(c)
  BY DEF StepTypes, OfTheQuery
<1>4. Answering'
  BY <1>3 DEF StepTypes, Listed, Asking, Shown, Answering
<1>5. Held'
  BY DEF Shown, Held
<1>6. Choice(dialog)'
  BY DEF StepTypes, Choice
<1> QED
  BY <1>1, <1>2, <1>4, <1>5, <1>6 DEF ConsoleInv

\* The parts a step leaves alone.
LEMMA StillTyped ==
    ASSUME Types, UNCHANGED <<url, crossed, hover, pivot, selected>>,
           at' \in [Tasks -> Filters \cup {None}], input' \in Filters, cursor' \in Froms, Choice(dialog')
    PROVE  StepTypes
BY DEF Types, StepTypes

LEMMA StillListed ==
    ASSUME Types, Sources, Answering, UNCHANGED <<base, ext, scan>>
    PROVE  Listed
BY DEF Types, Sources, Answering, Listed

LEMMA StillShown ==
    ASSUME Types, Sources, Answering, Held, UNCHANGED <<frz, hover, selected>>, url'.peek = url.peek
    PROVE  Shown
BY DEF Types, Sources, Answering, Held, Shown

\* Requests that follow the ones in flight: no new Continue, and of the query.
Follows(n) ==
    /\ n \subseteq Requests
    /\ \A c \in n : c.kind = "continue" => c \in net
    /\ ~crossed => \A c \in n : OfTheQuery(c)
LEMMA FollowersAsk ==
    ASSUME Sources, Follows(net'),
           ext'.cont = ext.cont \/ ext'.cont = "null" \/ \A c \in net' : c.kind # "continue"
    PROVE  Asking
BY DEF Sources, Follows, Asking

LEMMA FewerFollow ==
    ASSUME Types, Answering, NEW n \in SUBSET net
    PROVE  Follows(n)
BY DEF Types, Answering, Follows

LEMMA FetchFollows ==
    ASSUME Types, Follows(net), NEW n \in SUBSET net, NEW q \in Filters, ~crossed => q = url.q,
           NEW from \in Froms, NEW polled \in BOOLEAN
    PROVE  Follows(beginTasksFetch(n, q, from, polled))
<1> DEFINE after == beginTasksFetch(n, q, from, polled)
<1>1. n \subseteq Requests
  BY DEF Types
<1>2. /\ after \subseteq Requests
      /\ \A c \in after : /\ c.kind = "search" => (c.current => c.q = q)
                          /\ c.kind # "search" => c \in n
  BY <1>1, FetchFacts
<1> HIDE DEF after
<1>3. \A c \in after : c.kind = "continue" => c \in net
  BY <1>2
<1>4. ASSUME ~crossed, NEW c \in after PROVE OfTheQuery(c)
  <2>1. CASE c.kind = "search"
    BY <1>2, <1>4, <2>1 DEF OfTheQuery
  <2>2. CASE c.kind # "search"
    BY <1>2, <1>4, <2>2 DEF Follows
  <2> QED
    BY <2>1, <2>2
<1>5. Follows(after)
  BY <1>2, <1>3, <1>4 DEF Follows
<1> QED
  BY <1>5 DEF after

LEMMA FetchResultsFollows ==
    ASSUME Types, Follows(net), NEW n \in SUBSET net, NEW q \in Filters, ~crossed => q = url.q
    PROVE  Follows(beginJobResultsFetch(n, q))
<1> DEFINE after == beginJobResultsFetch(n, q)
<1>1. n \subseteq Requests
  BY DEF Types
<1>2. /\ after \subseteq Requests
      /\ \A c \in after : /\ c.kind = "results" => c.q = q \/ \E d \in n : d.kind = "results" /\ d.q = c.q
                          /\ c.kind # "results" => c \in n
  BY <1>1, FetchResultsFacts
<1> HIDE DEF after
<1>3. \A c \in after : c.kind = "continue" => c \in net
  BY <1>2
<1>4. ASSUME ~crossed, NEW c \in after PROVE OfTheQuery(c)
  <2>1. CASE c.kind = "results"
    <3>1. \A d \in n : d.kind = "results" => d.q = url.q
      BY <1>4 DEF Follows, OfTheQuery
    <3> QED
      BY <1>2, <1>4, <2>1, <3>1 DEF OfTheQuery
  <2>2. CASE c.kind # "results"
    BY <1>2, <1>4, <2>2 DEF Follows
  <2> QED
    BY <2>1, <2>2
<1>5. Follows(after)
  BY <1>2, <1>3, <1>4 DEF Follows
<1> QED
  BY <1>5 DEF after

\* A render with new rows shows them or announces them.
LEMMA Rendered ==
    ASSUME Types, Sources, Answering, Held, StepTypes, Listed,
           frz' = Render(base', ext', scan', hover', selected', url'.peek)
    PROVE  /\ Shown
           /\ frz.frozen /\ interacting(hover', selected', url'.peek) /\ ~frz.flush => frz'.data = frz.data
<1> DEFINE hold == interacting(hover', selected', url'.peek)
           z == setFrozen(frz, hold)
           rows == visibleTasks(base', ext', scan')
<1>1. frz \in Frozen /\ Announced(frz)
  BY DEF Types, Held
<1>2. hold \in BOOLEAN
  BY DEF interacting
<1>3. frz' = arrive(z, rows)
  BY DEF Render
<1>4. /\ rows \in Rows /\ NotTwice(rows)
      /\ \A q : AllOf(base'.rows, q) /\ AllOf(ext'.rows, q) /\ AllOf(scan'.rows, q) => AllOf(rows, q)
  BY VisibleFacts DEF Listed
<1> HIDE DEF hold, rows
<1>5. /\ z \in Frozen /\ z.live = frz.live /\ z.flush = frz.flush /\ z.frozen = hold
      /\ z.data \in {frz.data, frz.live} /\ (frz.frozen /\ hold => z.data = frz.data) /\ Announced(z)
  BY <1>1, <1>2, HoldFacts
<1> HIDE DEF z
<1>6. /\ frz' \in Frozen /\ frz'.live = rows /\ frz'.frozen = z.frozen /\ frz'.data \in {z.data, rows}
      /\ (z.frozen /\ ~z.flush => frz'.data = z.data) /\ Announced(frz')
  BY <1>3, <1>4, <1>5, ArriveFacts
<1>7. ~crossed => AllOf(frz'.data, url.q) /\ AllOf(frz'.live, url.q)
  BY <1>4, <1>5, <1>6 DEF Answering, Listed
<1>8. frz'.frozen = hold
  BY <1>5, <1>6
<1>9. Shown
  BY <1>4, <1>6, <1>7, <1>8 DEF Shown, hold
<1>10. frz.frozen /\ hold /\ ~frz.flush => frz'.data = frz.data
  <2> SUFFICES ASSUME frz.frozen, hold, ~frz.flush PROVE frz'.data = frz.data
    OBVIOUS
  <2>1. z.data = frz.data /\ z.flush = frz.flush /\ z.frozen = hold
    BY <1>5
  <2>2. ~z.flush /\ z.frozen
    BY <2>1, Zenon
  <2> QED
    BY <2>1, <2>2, <1>6
<1> QED
  BY <1>9, <1>10 DEF hold

\* A render that leaves the rows alone holds or releases them.
LEMMA HeldStill ==
    ASSUME Types, Sources, Answering, NEW z \in Frozen, z.data = frz.data, z.live = frz.live, Announced(z),
           frz' = Hold(z, hover', selected', url'.peek)
    PROVE  Shown
<1> DEFINE hold == interacting(hover', selected', url'.peek)
<1>1. hold \in BOOLEAN
  BY DEF interacting
<1>2. frz' = setFrozen(z, hold)
  BY DEF Hold
<1> HIDE DEF hold
<1>3. /\ frz' \in Frozen /\ frz'.live = z.live /\ frz'.frozen = hold
      /\ frz'.data \in {z.data, z.live} /\ Announced(frz')
  BY <1>1, <1>2, HoldFacts
<1>4. NotTwice(frz'.live)
  BY <1>3 DEF Sources
<1>5. ~crossed => AllOf(frz'.data, url.q) /\ AllOf(frz'.live, url.q)
  BY <1>3 DEF Answering
<1> QED
  BY <1>3, <1>4, <1>5 DEF Shown, hold

-----------------------------------------------------------------------------
(* Steps that leave rows, query and freeze alone *)

Lists == <<url, base, cursor, ext, scan, frz, hover, selected, pivot, crossed>>

\* All that can change is the text, the dialog, the server and the requests in flight.
LEMMA OnlyAsks ==
    ASSUME ConsoleInv, UNCHANGED <<url, base, ext, scan, frz, hover, selected, pivot, crossed>>,
           at' \in [Tasks -> Filters \cup {None}], input' \in Filters, cursor' \in Froms, Choice(dialog'),
           Asking
    PROVE  ConsoleInv'
<1>1. StepTypes
  BY StillTyped DEF ConsoleInv
<1>2. Listed
  BY StillListed DEF ConsoleInv
<1>3. Shown
  BY StillShown DEF ConsoleInv
<1> QED
  BY <1>1, <1>2, <1>3, Assembled DEF ConsoleInv, Types

LEMMA QuietStep ==
    ASSUME ConsoleInv, UNCHANGED <<Lists, net>>,
           at' \in [Tasks -> Filters \cup {None}], input' \in Filters, Choice(dialog')
    PROVE  ConsoleInv'
<1>1. Follows(net')
  BY FewerFollow DEF ConsoleInv, Lists
<1>2. Asking
  BY <1>1, FollowersAsk DEF ConsoleInv, Lists
<1>3. cursor' \in Froms
  BY DEF ConsoleInv, Types, Lists
<1> QED
  BY <1>2, <1>3, OnlyAsks DEF Lists

LEMMA PollTickKeeps ==
    ASSUME ConsoleInv, PollTick
    PROVE  ConsoleInv'
<1>1. url.q \in Filters /\ cursor \in Froms
  BY DEF ConsoleInv, Types
<1>2. Follows(net)
  BY FewerFollow DEF ConsoleInv
<1>3. Follows(net')
  BY <1>1, <1>2, FetchFollows DEF ConsoleInv, PollTick
<1>4. Asking
  BY <1>3, FollowersAsk DEF ConsoleInv, PollTick
<1> QED
  BY <1>4, OnlyAsks DEF ConsoleInv, Types, PollTick, screen

LEMMA SetWindowKeeps ==
    ASSUME ConsoleInv, NEW w \in Froms, SetWindow(w)
    PROVE  ConsoleInv'
<1>1. url.q \in Filters
  BY DEF ConsoleInv, Types
<1>2. Follows(net)
  BY FewerFollow DEF ConsoleInv
<1>3. Follows(net')
  BY <1>1, <1>2, FetchFollows DEF ConsoleInv, SetWindow
<1>4. Asking
  BY <1>3, FollowersAsk DEF ConsoleInv, SetWindow
<1>5. cursor' \in Froms
  BY DEF SetWindow
<1> QED
  BY <1>4, <1>5, OnlyAsks DEF ConsoleInv, Types, SetWindow, screen

LEMMA fetchFailsKeeps ==
    ASSUME ConsoleInv, NEW c \in net, fetchFails(c)
    PROVE  ConsoleInv'
<1>1. Follows(net')
  BY FewerFollow DEF ConsoleInv, fetchFails
<1>2. Asking
  BY <1>1, FollowersAsk DEF ConsoleInv, fetchFails
<1> QED
  BY <1>2, OnlyAsks DEF ConsoleInv, Types, fetchFails, screen

\* A request of its own kind, under the query.
LEMMA OneMoreAsks ==
    ASSUME ConsoleInv, UNCHANGED ext, NEW new \in Requests,
           net' = net \cup {new}, ~crossed => new.q = url.q,
           new.kind = "continue" => ext.cont = "null" /\ \A c \in net : c.kind # "continue"
    PROVE  Asking
<1>1. ~crossed => \A c \in net' : OfTheQuery(c)
  BY DEF ConsoleInv, Answering, OfTheQuery
<1>2. net' \subseteq Requests
  BY DEF ConsoleInv, Types
<1>3. \A c, d \in net' : c.kind = "continue" /\ d.kind = "continue" => c = d
  BY DEF ConsoleInv, Sources
<1>4. \A c \in net' : c.kind = "continue" => ext'.cont = "null"
  BY DEF ConsoleInv, Sources
<1> QED
  BY <1>1, <1>2, <1>3, <1>4 DEF Asking

LEMMA continueScanKeeps ==
    ASSUME ConsoleInv, continueScan
    PROVE  ConsoleInv'
<1> DEFINE new == [kind |-> "continue", q |-> url.q]
<1>1. new \in Requests /\ new.kind = "continue" /\ new.q = url.q
  BY DEF ConsoleInv, Types, Requests, Others
<1>2. net' = net \cup {new} /\ ext.cont = "null" /\ (\A c \in net : c.kind # "continue") /\ UNCHANGED ext
  BY DEF continueScan, scanPartial
<1> HIDE DEF new
<1>3. Asking
  BY <1>1, <1>2, OneMoreAsks
<1> QED
  BY <1>3, OnlyAsks DEF ConsoleInv, Types, continueScan, screen

LEMMA scanAsJobKeeps ==
    ASSUME ConsoleInv, scanAsJob
    PROVE  ConsoleInv'
<1> DEFINE new == [kind |-> "create", q |-> url.q]
<1>1. new \in Requests /\ new.kind = "create" /\ new.q = url.q
  BY DEF ConsoleInv, Types, Requests, Others
<1>2. net' = net \cup {new} /\ UNCHANGED ext
  BY DEF scanAsJob
<1> HIDE DEF new
<1>3. Asking
  BY <1>1, <1>2, OneMoreAsks
<1> QED
  BY <1>3, OnlyAsks DEF ConsoleInv, Types, scanAsJob, screen

\* A verb is sent under the query of the render.
LEMMA SendAsks ==
    ASSUME ConsoleInv, UNCHANGED ext, NEW rows \in Rows, NEW ofSelection \in BOOLEAN, Send(rows, ofSelection)
    PROVE  Asking
<1> DEFINE new == [kind |-> "act", rows |-> rows, q |-> url.q, from |-> cursor,
                   ofSelection |-> ofSelection, ofJob |-> jobResultsMode(scan)]
<1>1. jobResultsMode(scan) \in BOOLEAN
  BY DEF jobResultsMode, ConsoleInv, Types, ScanJobs
<1>2. new \in Requests /\ new.kind = "act" /\ new.q = url.q
  BY <1>1 DEF ConsoleInv, Types, Requests, Acts
<1>3. net' = net \cup {new}
  BY DEF Send
<1> HIDE DEF new
<1> QED
  BY <1>2, <1>3, OneMoreAsks

LEMMA runActionKeeps ==
    ASSUME ConsoleInv, NEW r \in frz.data, runAction(r)
    PROVE  ConsoleInv'
<1>1. {r} \in Rows
  BY DEF ConsoleInv, Types, Frozen, Rows
<1>2. Asking
  BY <1>1, SendAsks DEF runAction
<1> QED
  BY <1>2, OnlyAsks DEF ConsoleInv, Types, runAction, screen

\* No dialog, or that of a verb on the selection.
LEMMA OtherChoices == Choice(noDialog) /\ Choice([noDialog EXCEPT !.kind = "selection"])
BY DEF Choice, Dialogs, noDialog

LEMMA deleteRowKeeps ==
    ASSUME ConsoleInv, deleteRow
    PROVE  ConsoleInv'
<1>1. {dialog.row} \in Rows
  BY DEF ConsoleInv, Choice, Dialogs, noDialog, deleteRow, Rows
<1>2. CASE Send({dialog.row}, FALSE)
  <2>1. Asking
    BY <1>1, <1>2, SendAsks DEF deleteRow
  <2> QED
    BY <2>1, OtherChoices, OnlyAsks DEF ConsoleInv, Types, deleteRow
<1>3. CASE UNCHANGED net
  BY <1>3, OtherChoices, QuietStep DEF ConsoleInv, Types, deleteRow, Lists
<1> QED
  BY <1>2, <1>3 DEF deleteRow

LEMMA runSelectionVerbKeeps ==
    ASSUME ConsoleInv, runSelectionVerb
    PROVE  ConsoleInv'
<1>1. selectedTasks \in Rows
  BY DEF ConsoleInv, Types, Frozen, Rows, selectedTasks
<1>2. Asking
  BY <1>1, SendAsks DEF runSelectionVerb
<1> QED
  BY <1>2, OtherChoices, OnlyAsks DEF ConsoleInv, Types, runSelectionVerb

\* The text, the dialog, and the server's own doings.
LEMMA QuietActions ==
    ASSUME ConsoleInv,
           \/ (\E f \in Filters : Type(f)) \/ openSelectionVerb \/ closeDialog \/ Progress
           \/ \E r \in frz.data : confirmRowDelete(r)
    PROVE  ConsoleInv'
<1>1. Types /\ Choice(dialog)
  BY DEF ConsoleInv
<1>2. ASSUME NEW f \in Filters, Type(f) PROVE ConsoleInv'
  BY <1>1, <1>2, QuietStep DEF Type, Types, Lists
<1>3. CASE openSelectionVerb
  BY <1>1, <1>3, OtherChoices, QuietStep DEF openSelectionVerb, Types, Lists
<1>4. CASE closeDialog
  BY <1>1, <1>4, OtherChoices, QuietStep DEF closeDialog, Types, Lists
<1>5. CASE Progress
  <2>1. at' \in [Tasks -> Filters \cup {None}]
    BY <1>1, <1>5 DEF Progress, Types
  <2> QED
    BY <1>1, <1>5, <2>1, QuietStep DEF Progress, Types, Lists
\* The row on screen answers the query.
<1>6. ASSUME NEW r \in frz.data, confirmRowDelete(r) PROVE ConsoleInv'
  <2>1. r \in Tasks \X Filters
    BY <1>1 DEF Types, Frozen, Rows
  <2>2. ~crossed => r[2] = url.q
    BY DEF ConsoleInv, Answering, AllOf
  <2>3. Choice(dialog')
    BY <1>6, <2>1, <2>2 DEF confirmRowDelete, Choice, Dialogs
  <2> QED
    BY <1>1, <1>6, <2>3, QuietStep DEF confirmRowDelete, Types, Lists
<1> QED
  BY <1>2, <1>3, <1>4, <1>5, <1>6

-----------------------------------------------------------------------------
(* Steps that hold or release the rows *)

\* They keep the rows listed and the requests in flight.
LEMMA HoldStep ==
    ASSUME ConsoleInv, UNCHANGED <<input, cursor, dialog, base, ext, scan, net, crossed, pivot>>,
           at' \in [Tasks -> Filters \cup {None}],
           url' \in [q : Filters, peek : Tasks \cup {None}], url'.q = url.q,
           hover' \in BOOLEAN, selected' \subseteq Tasks,
           frz' = Hold(frz, hover', selected', url'.peek)
    PROVE  ConsoleInv'
<1>1. StepTypes
  BY DEF ConsoleInv, Types, StepTypes
<1>2. Listed
  BY StillListed DEF ConsoleInv
<1>3. Follows(net')
  BY FewerFollow DEF ConsoleInv
<1>4. Asking
  BY <1>3, FollowersAsk DEF ConsoleInv
<1>5. Shown
  BY HeldStill DEF ConsoleInv, Types, Held
<1> QED
  BY <1>1, <1>2, <1>4, <1>5, Assembled DEF ConsoleInv, Types

LEMMA setPeekParamKeeps ==
    ASSUME ConsoleInv, NEW pk \in Tasks \cup {None}, setPeekParam(pk)
    PROVE  ConsoleInv'
<1>1. url' \in [q : Filters, peek : Tasks \cup {None}] /\ url'.q = url.q /\ url'.peek = pk
  BY DEF ConsoleInv, Types, setPeekParam
<1>2. frz' = Hold(frz, hover', selected', url'.peek)
  BY <1>1 DEF setPeekParam
<1> QED
  BY <1>1, <1>2, HoldStep DEF ConsoleInv, Types, setPeekParam, screen

LEMMA setHoveringTableKeeps ==
    ASSUME ConsoleInv, setHoveringTable
    PROVE  ConsoleInv'
<1>1. hover' \in BOOLEAN
  BY DEF ConsoleInv, Types, setHoveringTable
<1>2. frz' = Hold(frz, hover', selected', url'.peek)
  BY DEF setHoveringTable
<1> QED
  BY <1>1, <1>2, HoldStep DEF ConsoleInv, Types, setHoveringTable, screen

LEMMA SelectKeeps ==
    ASSUME ConsoleInv, NEW sel \in SUBSET Tasks, Select(sel)
    PROVE  ConsoleInv'
<1>1. frz' = Hold(frz, hover', selected', url'.peek)
  BY DEF Select
<1> QED
  BY <1>1, HoldStep DEF ConsoleInv, Types, Select, screen

LEMMA toggleSelectKeeps ==
    ASSUME ConsoleInv, NEW t \in Tasks, toggleSelect(t)
    PROVE  ConsoleInv'
<1>1. (IF t \in selected THEN selected \ {t} ELSE selected \cup {t}) \in SUBSET Tasks
  BY DEF ConsoleInv, Types
<1> QED
  BY <1>1, SelectKeeps DEF toggleSelect

\* The pill shows what is buffered and goes on holding.
LEMMA applyUpdatesKeeps ==
    ASSUME ConsoleInv, applyUpdates
    PROVE  ConsoleInv'
<1>1. frz' = [data |-> frz.live, live |-> frz.live, pending |-> 0, frozen |-> frz.frozen, flush |-> frz.flush]
  BY DEF applyUpdates, frozenApply, ConsoleInv, Types, Frozen
<1>2. frz' \in Frozen /\ Announced(frz')
  BY <1>1 DEF ConsoleInv, Types, Frozen, Announced
<1>3. Shown
  BY <1>1, <1>2 DEF applyUpdates, ConsoleInv, Sources, Answering, Held, Shown
<1>4. StepTypes
  BY DEF ConsoleInv, Types, StepTypes, applyUpdates, screen
<1>5. Listed
  BY StillListed DEF ConsoleInv, applyUpdates
<1>6. Follows(net')
  BY FewerFollow DEF ConsoleInv, applyUpdates
<1>7. Asking
  BY <1>6, FollowersAsk DEF ConsoleInv, applyUpdates
<1> QED
  BY <1>3, <1>4, <1>5, <1>7, Assembled DEF ConsoleInv, Types

\* After a verb the selection goes, the next change passes the freeze, and a fetch starts under
\* the query of the verb.
LEMMA ActedKeeps ==
    ASSUME ConsoleInv, NEW c \in net, Acted(c)
    PROVE  ConsoleInv'
<1> DEFINE z == [frz EXCEPT !.flush = TRUE]
<1>1. c \in Acts
  BY DEF ConsoleInv, Types, Requests, Searches, Results, Others, Acts, Acted
<1>2. c.q \in Filters /\ c.from \in Froms /\ c.ofSelection \in BOOLEAN
  BY <1>1 DEF Acts
<1>3. ~crossed => c.q = url.q
  BY DEF ConsoleInv, Answering, OfTheQuery, Acted
<1>4. StepTypes
  <2>1. at' \in [Tasks -> Filters \cup {None}]
    BY DEF ConsoleInv, Types, Acted
  <2>2. selected' \subseteq Tasks
    BY DEF ConsoleInv, Types, Acted
  <2> QED
    BY <2>1, <2>2 DEF ConsoleInv, Types, StepTypes, Acted
<1>5. Listed
  BY StillListed DEF ConsoleInv, Acted
<1>6. Asking
  <2>1. Follows(net)
    BY FewerFollow DEF ConsoleInv
  <2>2. Follows(beginJobResultsFetch(net \ {c}, c.q))
    BY <1>2, <1>3, <2>1, FetchResultsFollows DEF ConsoleInv
  <2>3. Follows(beginTasksFetch(net \ {c}, c.q, c.from, FALSE))
    BY <1>2, <1>3, <2>1, FetchFollows DEF ConsoleInv
  <2>4. Follows(net') /\ UNCHANGED ext
    BY <2>2, <2>3 DEF Acted
  <2> QED
    BY <2>4, FollowersAsk DEF ConsoleInv
<1>7. Shown
  <2>0. frz \in Frozen /\ Announced(frz)
    BY DEF ConsoleInv, Types, Held
  <2>2. z \in Frozen /\ z.data = frz.data /\ z.live = frz.live /\ Announced(z)
    BY <2>0, FlushFacts
  <2>3. frz' = Hold(z, hover', selected', url'.peek)
    BY DEF Acted
  <2> HIDE DEF z
  <2> QED
    BY <2>2, <2>3, HeldStill DEF ConsoleInv
<1> QED
  BY <1>4, <1>5, <1>6, <1>7, Assembled DEF ConsoleInv, Types

-----------------------------------------------------------------------------
(* Steps that bring rows *)

\* What a render must show of the rows it brings.
LEMMA RenderStep ==
    ASSUME ConsoleInv, StepTypes, Listed, Asking,
           frz' = Render(base', ext', scan', hover', selected', url'.peek)
    PROVE  ConsoleInv'
<1>1. Shown
  BY Rendered DEF ConsoleInv
<1> QED
  BY <1>1, Assembled DEF ConsoleInv, Types

LEMMA fetchTasksKeeps ==
    ASSUME ConsoleInv, NEW c \in net, fetchTasks(c)
    PROVE  ConsoleInv'
<1> DEFINE from == Asked(c.q, c.from)
           rows == Window(c.q, from)
           more == from = "first" /\ Cardinality(Listing(c.q)) > 1
           gone == pivot /\ url.peek # None /\ \A r \in rows : r[1] # url.peek
<1>1. c \in Searches
  BY DEF ConsoleInv, Types, Requests, Searches, Results, Others, Acts, fetchTasks
<1>2. c.q \in Filters /\ from \in Froms
  BY <1>1 DEF Searches, Asked, Froms
<1>3. Asking
  <2>1. Follows(net')
    BY FewerFollow DEF ConsoleInv, fetchTasks
  <2> QED
    BY <2>1, FollowersAsk DEF ConsoleInv, fetchTasks
<1>4. CASE ~c.current
  <2>1. UNCHANGED <<url, base, ext, scan, frz, hover, selected, pivot, crossed, cursor, at, input, dialog>>
    BY <1>4 DEF fetchTasks, screen
  <2> QED
    BY <2>1, <1>3, OnlyAsks DEF ConsoleInv, Types
<1>5. CASE c.current
  <2>1. /\ base' = [rows |-> rows, of |-> c.q, from |-> from, more |-> more]
        /\ pivot' = FALSE
        /\ url' = [url EXCEPT !.peek = IF gone THEN None ELSE @]
        /\ frz' = Render(base', ext, scan, hover, selected, url'.peek)
        /\ UNCHANGED <<screen, cursor, ext, scan, hover, selected, crossed>>
    BY <1>5 DEF fetchTasks
  <2>2. rows \in Rows /\ AllOf(rows, c.q) /\ OfOne(rows)
    BY <1>2, WindowFacts
  <2>3. more \in BOOLEAN
    OBVIOUS
  <2> HIDE DEF rows, from, more, gone
  <2>4. base' \in Answers
    BY <1>2, <2>1, <2>2, <2>3 DEF Answers
  <2>5. ~crossed => c.q = url.q
    BY <1>5 DEF ConsoleInv, Answering, OfTheQuery
  <2>6. Listed
    <3>1. base'.rows = rows
      BY <2>1
    <3>2. AllOf(base'.rows, c.q) /\ OfOne(base'.rows)
      BY <2>2, <3>1
    <3> QED
      BY <2>1, <2>4, <2>5, <3>2 DEF ConsoleInv, Types, Sources, Answering, Listed
  <2>7. url' \in [q : Filters, peek : Tasks \cup {None}] /\ url'.q = url.q
    BY <2>1 DEF ConsoleInv, Types
  <2>8. StepTypes
    BY <2>1, <2>7 DEF ConsoleInv, Types, StepTypes, screen
  <2>9. frz' = Render(base', ext', scan', hover', selected', url'.peek)
    BY <2>1
  <2> QED
    BY <1>3, <2>6, <2>8, <2>9, RenderStep
<1> QED
  BY <1>1, <1>4, <1>5 DEF Searches

\* Continue was answered: no other is in flight, and none starts before the query changes.
LEMMA ContinuedKeeps ==
    ASSUME ConsoleInv, NEW c \in net, Continued(c)
    PROVE  ConsoleInv'
<1> DEFINE more == Window(c.q, "second")
<1>1. c.q \in Filters
  BY DEF ConsoleInv, Types, Requests, Searches, Results, Others, Acts, Continued
<1>2. ~crossed => c.q = url.q
  BY DEF ConsoleInv, Answering, OfTheQuery, Continued
<1>3. more \in Rows /\ AllOf(more, c.q) /\ OfOne(more)
  BY <1>1, WindowFacts
<1>4. Asking
  <2>1. Follows(net')
    BY FewerFollow DEF ConsoleInv, Continued
  <2>2. \A d \in net' : d.kind # "continue"
    BY DEF ConsoleInv, Sources, Continued
  <2> QED
    BY <2>1, <2>2, FollowersAsk DEF ConsoleInv
<1>5. StepTypes
  BY StillTyped DEF ConsoleInv, Types, Continued, screen
<1>6. CASE UNCHANGED <<ext, frz>>
  BY <1>4, <1>6, OnlyAsks DEF ConsoleInv, Types, Continued, screen
<1>7. CASE ext' = [rows |-> ext.rows \cup more, cont |-> ""] /\ frz' = Render(base, ext', scan, hover, selected, url.peek)
  <2>1. ext.rows = {}
    BY DEF ConsoleInv, Sources, Continued
  <2>2. ext'.rows = more /\ ext'.cont = ""
    BY <1>7, <2>1
  <2> HIDE DEF more
  <2>3. ext' \in Appended
    BY <1>3, <1>7, <2>1 DEF Appended
  <2>4. Listed
    <3>1. OfOne(ext'.rows) /\ AllOf(ext'.rows, c.q)
      BY <1>3, <2>2
    <3>2. base' = base /\ scan' = scan
      BY DEF Continued
    <3> QED
      BY <1>2, <2>2, <2>3, <3>1, <3>2 DEF ConsoleInv, Types, Sources, Answering, Listed
  <2>5. frz' = Render(base', ext', scan', hover', selected', url'.peek)
    BY <1>7 DEF Continued
  <2> QED
    BY <1>4, <1>5, <2>4, <2>5, RenderStep
<1> QED
  BY <1>6, <1>7 DEF Continued

LEMMA ScanJobCreatedKeeps ==
    ASSUME ConsoleInv, NEW c \in net, ScanJobCreated(c)
    PROVE  ConsoleInv'
<1>1. c.q \in Filters
  BY DEF ConsoleInv, Types, Requests, Searches, Results, Others, Acts, ScanJobCreated
<1>2. ~crossed => c.q = url.q
  BY DEF ConsoleInv, Answering, OfTheQuery, ScanJobCreated
<1>3. Asking
  <2>1. Follows(net')
    BY FewerFollow DEF ConsoleInv, ScanJobCreated
  <2> QED
    BY <2>1, FollowersAsk DEF ConsoleInv, ScanJobCreated
<1>4. StepTypes
  BY StillTyped DEF ConsoleInv, Types, ScanJobCreated, screen
<1>5. CASE UNCHANGED <<scan, frz>>
  BY <1>3, <1>5, OnlyAsks DEF ConsoleInv, Types, ScanJobCreated, screen
<1>6. CASE scan' = [noJob EXCEPT !.job = c.q] /\ frz' = Render(base, ext, scan', hover, selected, url.peek)
  <2>1. scan' = [job |-> c.q, done |-> FALSE, found |-> {}, rows |-> {}]
    BY <1>6 DEF noJob
  <2>2. scan' \in ScanJobs /\ scan'.rows = {} /\ scan'.job = c.q
    BY <1>1, <2>1 DEF ScanJobs, Rows
  <2>3. Listed
    BY <1>2, <2>2 DEF ConsoleInv, Types, Sources, Answering, Listed, ScanJobCreated, OfOne, AllOf
  <2>4. frz' = Render(base', ext', scan', hover', selected', url'.peek)
    BY <1>6 DEF ScanJobCreated
  <2> QED
    BY <1>3, <1>4, <2>3, <2>4, RenderStep
<1> QED
  BY <1>5, <1>6 DEF ScanJobCreated


LEMMA onScanSettledKeeps ==
    ASSUME ConsoleInv, onScanSettled
    PROVE  ConsoleInv'
<1> DEFINE found == Listing(scan.job)
<1>1. scan \in ScanJobs /\ scan.job \in Filters /\ found \subseteq Tasks
  BY DEF ConsoleInv, Types, ScanJobs, onScanSettled, Listing
<1>2. ~crossed => scan.job = url.q
  BY DEF ConsoleInv, Answering, onScanSettled
<1>3. scan' = [scan EXCEPT !.done = TRUE, !.found = found] /\ ext' = noExt
      /\ net' = beginJobResultsFetch(net, scan.job)
      /\ frz' = Render(base, noExt, scan', hover, selected, url.peek)
      /\ UNCHANGED <<screen, url, base, cursor, hover, selected, pivot, crossed>>
  BY DEF onScanSettled
<1> HIDE DEF found
<1>4. scan' \in ScanJobs /\ scan'.rows = scan.rows /\ scan'.job = scan.job
  BY <1>1, <1>3 DEF ScanJobs
<1>5. ext' \in Appended /\ ext'.rows = {} /\ ext'.cont = "null"
  BY <1>3 DEF noExt, Appended, Rows
<1>6. Asking
  <2>1. Follows(net)
    BY FewerFollow DEF ConsoleInv
  <2>2. Follows(net')
    BY <1>1, <1>2, <1>3, <2>1, FetchResultsFollows DEF ConsoleInv
  <2> QED
    BY <1>5, <2>2, FollowersAsk DEF ConsoleInv
<1>7. Listed
  BY <1>3, <1>4, <1>5 DEF ConsoleInv, Types, Sources, Answering, Listed, OfOne, AllOf
<1>8. StepTypes
  BY <1>3, StillTyped DEF ConsoleInv, Types, screen
<1>9. frz' = Render(base', ext', scan', hover', selected', url'.peek)
  BY <1>3
<1> QED
  BY <1>6, <1>7, <1>8, <1>9, RenderStep

LEMMA fetchJobResultsKeeps ==
    ASSUME ConsoleInv, NEW c \in net, fetchJobResults(c)
    PROVE  ConsoleInv'
<1> DEFINE rows == {<<t, c.q>> : t \in {u \in scan.found : at[u] # None}}
<1>1. c.q \in Filters
  BY DEF ConsoleInv, Types, Requests, Searches, Results, Others, Acts, fetchJobResults
<1>2. ~crossed => c.q = url.q
  BY DEF ConsoleInv, Answering, OfTheQuery, fetchJobResults
<1>3. scan \in ScanJobs /\ scan.found \subseteq Tasks
  BY DEF ConsoleInv, Types, ScanJobs
<1>4. rows \in Rows /\ AllOf(rows, c.q) /\ OfOne(rows)
  BY <1>1, <1>3 DEF Rows, AllOf, OfOne
<1>5. Asking
  <2>1. Follows(net')
    BY FewerFollow DEF ConsoleInv, fetchJobResults
  <2> QED
    BY <2>1, FollowersAsk DEF ConsoleInv, fetchJobResults
<1>6. StepTypes
  BY StillTyped DEF ConsoleInv, Types, fetchJobResults, screen
<1>7. CASE UNCHANGED <<scan, frz>>
  BY <1>5, <1>7, OnlyAsks DEF ConsoleInv, Types, fetchJobResults, screen
<1>8. CASE scan' = [scan EXCEPT !.rows = rows] /\ frz' = Render(base, ext, scan', hover, selected, url.peek)
  <2> HIDE DEF rows
  <2>1. scan' \in ScanJobs /\ scan'.rows = rows /\ scan'.job = scan.job
    BY <1>3, <1>4, <1>8 DEF ScanJobs
  <2>2. OfOne(scan'.rows) /\ AllOf(scan'.rows, c.q)
    BY <1>4, <2>1
  <2>3. Listed
    BY <1>2, <2>1, <2>2 DEF ConsoleInv, Types, Sources, Answering, Listed, fetchJobResults
  <2>4. frz' = Render(base', ext', scan', hover', selected', url'.peek)
    BY <1>8 DEF fetchJobResults
  <2> QED
    BY <1>5, <1>6, <2>3, <2>4, RenderStep
<1> QED
  BY <1>7, <1>8 DEF fetchJobResults

LEMMA setScanJobParamKeeps ==
    ASSUME ConsoleInv, setScanJobParam
    PROVE  ConsoleInv'
<1>1. scan' = noJob /\ scan' \in ScanJobs /\ scan'.rows = {} /\ scan'.job = None
  BY DEF setScanJobParam, noJob, ScanJobs, Rows
<1>2. Listed
  BY <1>1 DEF ConsoleInv, Types, Sources, Answering, Listed, setScanJobParam, OfOne, AllOf
<1>3. Asking
  <2>1. Follows(net)
    BY FewerFollow DEF ConsoleInv
  <2>2. url.q \in Filters /\ cursor \in Froms
    BY DEF ConsoleInv, Types
  <2>3. Follows(beginTasksFetch(net, url.q, cursor, TRUE))
    BY <2>1, <2>2, FetchFollows DEF ConsoleInv
  <2>4. Follows(net')
    BY <2>1, <2>3 DEF setScanJobParam
  <2> QED
    BY <2>4, FollowersAsk DEF ConsoleInv, setScanJobParam
<1>4. StepTypes
  BY StillTyped DEF ConsoleInv, Types, setScanJobParam, screen
<1>5. frz' = Render(base', ext', scan', hover', selected', url'.peek)
  BY <1>1 DEF setScanJobParam
<1> QED
  BY <1>2, <1>3, <1>4, <1>5, RenderStep

-----------------------------------------------------------------------------
(* A change of query: nothing is listed until its search answers *)

LEMMA RequeryKeeps ==
    ASSUME ConsoleInv, NEW f \in Filters, NEW pk \in Tasks \cup {None}, Requery(f, pk), pivot' \in BOOLEAN
    PROVE  ConsoleInv'
<1> DEFINE hold == interacting(hover, selected, pk)
           hold2 == interacting(hover, {}, pk)
           old == visibleTasks(base, ext, scan)
           reset == frozenInit(old, hold, TRUE)
           z == setFrozen(reset, hold2)
<1>1. hold \in BOOLEAN /\ hold2 \in BOOLEAN
  BY DEF interacting
<1>2. old \in Rows
  BY VisibleFacts DEF ConsoleInv, Types, Sources
<1>3. frz' = arrive(z, {})
  BY DEF Requery, Hold
<1>4. url' = [q |-> f, peek |-> pk] /\ input' = f /\ net' = beginTasksFetch(net, f, "first", TRUE)
      /\ base' = [base EXCEPT !.rows = {}] /\ cursor' = "first" /\ ext' = noExt /\ scan' = noJob
      /\ selected' = {} /\ crossed' = (crossed \/ \E c \in net : c.kind # "search")
      /\ UNCHANGED <<at, hover>>
  BY DEF Requery
<1> HIDE DEF hold, hold2, old
<1>5. reset \in Frozen /\ Announced(reset)
  BY <1>1, <1>2 DEF frozenInit, Frozen, Announced
<1>6. reset.data = reset.live /\ reset.live = old /\ reset.flush = TRUE
  BY DEF frozenInit
<1> HIDE DEF reset
<1>7. z \in Frozen /\ Announced(z) /\ z.live = old /\ z.frozen = hold2
  BY <1>1, <1>5, <1>6, HoldFacts
<1>8. z.data = old /\ z.flush
  BY <1>1, <1>5, <1>6, HoldFacts
<1> HIDE DEF z
<1>9. {} \in Rows
  BY DEF Rows
<1>10. frz' \in Frozen /\ Announced(frz') /\ frz'.live = {} /\ frz'.frozen = hold2
  BY <1>3, <1>7, <1>9, ArriveFacts
<1>11. frz'.data = {}
  <2>1. CASE old = {}
    BY <1>3, <1>7, <1>8, <1>9, <2>1, ArriveFacts
  <2>2. CASE old # {}
    <3>1. z.flush /\ {} # z.live
      BY <1>7, <1>8, <2>2
    <3>2. frz' = [frozenApply(liveArrived(z, {})) EXCEPT !.flush = FALSE]
      BY <1>3, <3>1 DEF arrive
    <3> QED
      BY <1>7, <3>2 DEF frozenApply, liveArrived, Frozen
  <2> QED
    BY <2>1, <2>2
<1>12. base' \in Answers /\ base'.rows = {}
  BY <1>4, <1>9 DEF ConsoleInv, Types, Answers
<1>13. scan' \in ScanJobs /\ scan'.rows = {} /\ scan'.job = None
  BY <1>4, <1>9 DEF noJob, ScanJobs
<1>14. ext' \in Appended /\ ext'.rows = {} /\ ext'.cont = "null"
  BY <1>4, <1>9 DEF noExt, Appended
<1>15. url' \in [q : Filters, peek : Tasks \cup {None}] /\ url'.q = f /\ url'.peek = pk
  BY <1>4
<1>16. /\ net' \subseteq Requests
       /\ \A c \in net' : /\ c.kind = "search" => (c.current => c.q = f)
                          /\ c.kind # "search" => c \in net
  BY <1>4, FetchFacts DEF ConsoleInv, Types, Froms
<1>17. Types'
  <2>1. crossed' \in BOOLEAN
    BY <1>4
  <2> QED
    BY <1>4, <1>10, <1>12, <1>13, <1>14, <1>15, <1>16, <2>1 DEF ConsoleInv, Types, Froms
<1>18. Sources'
  <2>1. OfOne(base.rows)' /\ OfOne(ext.rows)' /\ OfOne(scan.rows)' /\ NotTwice(frz.live)'
    BY <1>10, <1>12, <1>13, <1>14 DEF OfOne, NotTwice
  <2>2. \A c, d \in net' : c.kind = "continue" /\ d.kind = "continue" => c = d
    BY <1>16 DEF ConsoleInv, Sources
  <2> QED
    BY <1>14, <2>1, <2>2 DEF Sources
<1>19. Answering'
  <2>1. ASSUME ~crossed', NEW c \in net' PROVE OfTheQuery(c)'
    <3>1. c.kind = "search"
      BY <1>4, <1>16, <2>1
    <3> QED
      BY <1>15, <1>16, <3>1 DEF OfTheQuery
  <2>2. \A q : AllOf(base'.rows, q) /\ AllOf(ext'.rows, q) /\ AllOf(scan'.rows, q) /\ AllOf(frz'.data, q) /\ AllOf(frz'.live, q)
    BY <1>10, <1>11, <1>12, <1>13, <1>14 DEF AllOf
  <2> QED
    BY <1>13, <2>1, <2>2 DEF Answering
<1>20. Held'
  BY <1>4, <1>10, <1>15 DEF Held, hold2
\* A confirmation of a delete has gone astray.
<1>21. Choice(dialog)'
  <2>1. dialog \in Dialogs
    BY DEF ConsoleInv, Choice
  <2>2. CASE dialog.kind = "delete"
    <3>1. dialog' = [dialog EXCEPT !.astray = TRUE]
      BY <2>2 DEF Requery
    <3>2. dialog \in [kind : {"delete"}, row : Tasks \X Filters, astray : BOOLEAN]
      BY <2>1, <2>2 DEF Dialogs, noDialog
    <3> QED
      BY <3>1, <3>2 DEF Choice, Dialogs
  <2>3. CASE dialog.kind # "delete"
    <3>1. dialog' = dialog
      BY <2>3 DEF Requery
    <3> QED
      BY <2>1, <2>3, <3>1 DEF Choice, Dialogs, noDialog
  <2> QED
    BY <2>2, <2>3
<1> QED
  BY <1>17, <1>18, <1>19, <1>20, <1>21 DEF ConsoleInv

-----------------------------------------------------------------------------
(* The invariant *)

LEMMA InitConsole ==
    ASSUME Init
    PROVE  ConsoleInv
<1> DEFINE new == [kind |-> "search", q |-> input, from |-> "first", current |-> TRUE, polled |-> TRUE]
<1>1. net = {new}
  BY DEF Init, beginTasksFetch, begin
<1>2. new \in Requests /\ new.kind = "search" /\ new.q = input
  BY DEF Init, Requests, Searches, Froms
<1>3. {} \in Rows
  BY DEF Rows
<1>4. scan \in ScanJobs /\ scan.rows = {} /\ scan.job \in {None, input}
  <2>1. PICK j \in {None} \cup ({input} \cap ScanFilters) : scan = [noJob EXCEPT !.job = j]
    BY DEF Init
  <2>2. scan = [job |-> j, done |-> FALSE, found |-> {}, rows |-> {}]
    BY <2>1 DEF noJob
  <2> QED
    BY <1>3, <2>2 DEF ScanJobs, Init
<1>5. frz = [data |-> {}, live |-> {}, pending |-> 0, frozen |-> FALSE, flush |-> FALSE]
  BY DEF Init, frozenInit
<1>6. frz \in Frozen /\ frz.data = {} /\ frz.live = {} /\ frz.frozen = FALSE
  BY <1>3, <1>5 DEF Frozen
<1>7. base \in Answers /\ base.rows = {} /\ ext \in Appended /\ ext.rows = {}
  BY <1>3 DEF Init, noExt, Answers, Appended, Froms
<1>8. url \in [q : Filters, peek : Tasks \cup {None}] /\ url.q = input /\ url.peek = None
  BY DEF Init
<1> HIDE DEF new
<1>9. Types
  <2>1. at \in [Tasks -> Filters \cup {None}]
    BY DEF Init
  <2>2. net \subseteq Requests
    BY <1>1, <1>2
  <2> QED
    BY <1>4, <1>6, <1>7, <1>8, <2>1, <2>2 DEF Init, Types, Froms
<1>10. Sources
  BY <1>1, <1>2, <1>4, <1>6, <1>7 DEF Sources, OfOne, NotTwice
<1>11. Answering
  BY <1>1, <1>2, <1>4, <1>6, <1>7, <1>8 DEF Answering, AllOf, OfTheQuery
<1>12. Held
  <2>1. ~interacting(hover, selected, url.peek)
    BY <1>8 DEF Init, interacting
  <2>2. interacting(hover, selected, url.peek) \in BOOLEAN
    BY DEF interacting
  <2>3. interacting(hover, selected, url.peek) = FALSE
    BY <2>1, <2>2, Zenon
  <2> QED
    BY <1>6, <2>3 DEF Held, Announced
<1>13. Choice(dialog)
  BY OtherChoices DEF Init
<1> QED
  BY <1>9, <1>10, <1>11, <1>12, <1>13 DEF ConsoleInv

LEMMA NextKeeps ==
    ASSUME ConsoleInv, Next
    PROVE  ConsoleInv'
<1>1. CASE PollTick \/ continueScan \/ scanAsJob \/ runSelectionVerb \/ deleteRow
  BY <1>1, PollTickKeeps, continueScanKeeps, scanAsJobKeeps, runSelectionVerbKeeps, deleteRowKeeps
<1>2. CASE openSelectionVerb \/ closeDialog \/ Progress
  BY <1>2, QuietActions
<1>3. CASE setHoveringTable \/ applyUpdates
  BY <1>3, setHoveringTableKeeps, applyUpdatesKeeps
<1>4. CASE clearSelection
  BY <1>4, SelectKeeps DEF clearSelection
<1>5. CASE onScanSettled \/ setScanJobParam
  BY <1>5, onScanSettledKeeps, setScanJobParamKeeps
<1>6. ASSUME NEW c \in net, fetchTasks(c) \/ fetchFails(c) \/ Continued(c)
      PROVE  ConsoleInv'
  BY <1>6, fetchTasksKeeps, fetchFailsKeeps, ContinuedKeeps
<1>7. ASSUME NEW c \in net, Acted(c) \/ ScanJobCreated(c) \/ fetchJobResults(c)
      PROVE  ConsoleInv'
  BY <1>7, ActedKeeps, ScanJobCreatedKeeps, fetchJobResultsKeeps
<1>8. url.peek \in Tasks \cup {None} /\ input \in Filters /\ pivot \in BOOLEAN
  BY DEF ConsoleInv, Types
<1>9. CASE Debounce
  BY <1>8, <1>9, RequeryKeeps DEF Debounce
<1>10. ASSUME NEW f \in Filters, Type(f) PROVE ConsoleInv'
  BY <1>10, QuietActions
<1>11. ASSUME NEW f \in Filters, Compose(f) PROVE ConsoleInv'
  BY <1>8, <1>11, RequeryKeeps DEF Compose
<1>12. ASSUME NEW f \in Filters, handlePivot(f) PROVE ConsoleInv'
  BY <1>8, <1>12, RequeryKeeps DEF handlePivot
<1>13. ASSUME NEW f \in Filters, NEW pk \in Tasks \cup {None}, Navigate(f, pk) PROVE ConsoleInv'
  BY <1>8, <1>13, RequeryKeeps DEF Navigate
<1>14. ASSUME NEW pk \in Tasks \cup {None}, setPeekParam(pk) PROVE ConsoleInv'
  BY <1>14, setPeekParamKeeps
<1>15. ASSUME NEW w \in {"first", "second"}, SetWindow(w) PROVE ConsoleInv'
  BY <1>15, SetWindowKeeps DEF Froms
<1>16. ASSUME NEW t \in Tasks, toggleSelect(t) PROVE ConsoleInv'
  BY <1>16, toggleSelectKeeps
<1>17. ASSUME NEW r \in frz.data, runAction(r) \/ confirmRowDelete(r) PROVE ConsoleInv'
  BY <1>17, runActionKeeps, QuietActions
<1> QED
  BY <1>1, <1>2, <1>3, <1>4, <1>5, <1>6, <1>7, <1>9, <1>10, <1>11, <1>12, <1>13, <1>14, <1>15,
     <1>16, <1>17 DEF Next

\* The drawer's reads and verbs.
LEMMA CallTypes ==
    /\ \A t \in Tasks, polled \in BOOLEAN : Read(t, polled) \in Reads
    /\ \A verb \in {"run", "delete"}, seen \in Infos \ {NoInfo} : Verb(verb, seen) \in DrawerVerbs
BY DEF Read, Reads, Verb, DrawerVerbs, Infos

LEMMA Unmounted ==
    ASSUME NEW d \in Reads \cup DrawerVerbs, d.kind # "read"
    PROVE  [d EXCEPT !.mounted = FALSE] \in DrawerVerbs /\ ~[d EXCEPT !.mounted = FALSE].mounted
BY DEF Reads, DrawerVerbs

LEMMA TaskIsRead ==
    ASSUME ConsoleInv, DrawerTypes
    PROVE  task \in Infos /\ (task # NoInfo => task = info /\ info.id = url.peek)
BY DEF DrawerTypes, task, NoInfo, Infos

LEMMA PeekedTypes ==
    ASSUME DrawerTypes, NEW pk \in Tasks \cup {None}, Peeked(pk)
    PROVE  DrawerTypes'
<1>1. info' \in Infos /\ confirm' \in BOOLEAN
  BY DEF Peeked, NoInfo, Infos
<1>2. CASE pk # None
  <2>1. Read(pk, TRUE) \in Reads
    BY <1>2, CallTypes
  <2> QED
    BY <1>1, <1>2, <2>1 DEF Peeked, DrawerTypes
<1>3. CASE pk = None
  <2>1. calls' = {[c EXCEPT !.mounted = FALSE] : c \in {d \in calls : d.kind # "read"}}
    BY <1>3 DEF Peeked
  <2>2. calls' \subseteq DrawerVerbs
    BY <2>1, Unmounted DEF DrawerTypes
  <2> QED
    BY <1>1, <2>2 DEF DrawerTypes
<1> QED
  BY <1>2, <1>3

\* What a step of the drawer itself leaves of the console.
LEMMA DrawerStepKeeps ==
    ASSUME ConsoleInv, UNCHANGED <<Lists, net, input, dialog>>, at' \in [Tasks -> Filters \cup {None}]
    PROVE  ConsoleInv'
BY QuietStep DEF ConsoleInv, Types

LEMMA DoneTypes ==
    ASSUME ConsoleInv, NEW c, Done(c)
    PROVE  at' \in [Tasks -> Filters \cup {None}]
BY DEF ConsoleInv, Types, Done

LEMMA DrawerInitHolds ==
    ASSUME DrawerInit
    PROVE  DrawerInv
BY InitConsole DEF DrawerInit, DrawerInv, DrawerTypes, NoInfo, Infos

LEMMA DrawerNextKeeps ==
    ASSUME DrawerInv, DrawerNext
    PROVE  DrawerInv'
<1>0. ConsoleInv /\ DrawerTypes /\ at \in [Tasks -> Filters \cup {None}] /\ url.peek \in Tasks \cup {None}
  BY DEF DrawerInv, ConsoleInv, Types
<1>1. CASE ConsoleStep
  <2>1. ConsoleInv'
    BY <1>0, <1>1, NextKeeps DEF ConsoleStep
  <2>2. url'.peek \in Tasks \cup {None}
    BY <2>1 DEF ConsoleInv, Types
  <2>3. CASE Peeked(url'.peek)
    BY <1>0, <2>1, <2>2, <2>3, PeekedTypes DEF DrawerInv
  <2>4. CASE UNCHANGED drawerVars
    BY <1>0, <2>1, <2>4 DEF DrawerInv, DrawerTypes, drawerVars
  <2> QED
    BY <1>1, <2>3, <2>4 DEF ConsoleStep
<1>2. CASE drawerTick
  <2>1. ConsoleInv'
    BY <1>0, <1>2, DrawerStepKeeps DEF drawerTick, consoleVars, Lists
  <2>2. Read(url.peek, TRUE) \in Reads
    BY <1>0, <1>2, CallTypes DEF drawerTick
  <2> QED
    BY <1>0, <1>2, <2>1, <2>2 DEF DrawerInv, DrawerTypes, drawerTick
<1>3. CASE setConfirmDelete \/ cancelDelete
  <2>1. ConsoleInv'
    BY <1>0, <1>3, DrawerStepKeeps DEF setConfirmDelete, cancelDelete, consoleVars, Lists
  <2> QED
    BY <1>0, <1>3, <2>1 DEF DrawerInv, DrawerTypes, setConfirmDelete, cancelDelete
<1>4. CASE doRun
  <2>1. ConsoleInv'
    BY <1>0, <1>4, DrawerStepKeeps DEF doRun, Lists
  <2>2. Verb("run", task) \in DrawerVerbs
    BY <1>0, <1>4, TaskIsRead, CallTypes DEF doRun
  <2> QED
    BY <1>0, <1>4, <2>1, <2>2 DEF DrawerInv, DrawerTypes, doRun
<1>5. CASE doDelete
  <2>1. ConsoleInv'
    BY <1>0, <1>5, DrawerStepKeeps DEF doDelete, consoleVars, Lists
  <2>2. Verb("delete", task) \in DrawerVerbs
    BY <1>0, <1>5, TaskIsRead, CallTypes DEF doDelete
  <2> QED
    BY <1>0, <1>5, <2>1, <2>2 DEF DrawerInv, DrawerTypes, doDelete
<1>6. ASSUME NEW c \in calls, fetchInfo(c) PROVE DrawerInv'
  <2>1. ConsoleInv'
    BY <1>0, <1>6, DrawerStepKeeps DEF fetchInfo, consoleVars, Lists
  <2>2. c.t \in Tasks
    BY <1>0, <1>6 DEF DrawerTypes, Reads, DrawerVerbs, fetchInfo
  <2>3. at[c.t] \in Filters \cup {None}
    BY <1>0, <2>2
  <2>4. info' \in Infos
    BY <1>0, <1>6, <2>2, <2>3 DEF fetchInfo, Infos, DrawerTypes
  <2> QED
    BY <1>0, <1>6, <2>1, <2>4 DEF DrawerInv, DrawerTypes, fetchInfo
<1>7. ASSUME NEW c \in calls, Ran(c) PROVE DrawerInv'
  <2>1. at' \in [Tasks -> Filters \cup {None}]
    BY <1>0, <1>7, DoneTypes DEF Ran
  <2>2. ConsoleInv'
    BY <1>0, <1>7, <2>1, DrawerStepKeeps DEF Ran, Done, Lists
  <2>3. c \in DrawerVerbs
    BY <1>0, <1>7 DEF DrawerTypes, Ran, Reads
  <2>4. c.t \in Tasks
    BY <2>3 DEF DrawerVerbs
  <2> QED
    BY <1>0, <1>7, <2>2, <2>4, CallTypes DEF DrawerInv, DrawerTypes, Ran
<1>8. ASSUME NEW c \in calls, Deleted(c) PROVE DrawerInv'
  <2>1. at' \in [Tasks -> Filters \cup {None}]
    BY <1>0, <1>8, DoneTypes DEF Deleted
  <2>2. url' \in [q : Filters, peek : Tasks \cup {None}] /\ url'.q = url.q /\ url'.peek = None
    BY <1>0, <1>8 DEF Deleted, ConsoleInv, Types
  <2>3. /\ UNCHANGED <<input, cursor, dialog, base, ext, scan, net, crossed, pivot, hover, selected>>
        /\ frz' = Hold(frz, hover', selected', url'.peek)
    BY <1>8, <2>2 DEF Deleted, Done
  <2>4. ConsoleInv'
    BY <1>0, <2>1, <2>2, <2>3, HoldStep DEF ConsoleInv, Types
  <2>5. calls' \subseteq DrawerVerbs
    BY <1>0, <1>8, Unmounted DEF Deleted, DrawerTypes
  <2>6. info' \in Infos /\ confirm' \in BOOLEAN
    BY <1>8 DEF Deleted, NoInfo, Infos
  <2> QED
    BY <2>4, <2>5, <2>6 DEF DrawerInv, DrawerTypes
<1> QED
  BY <1>1, <1>2, <1>3, <1>4, <1>5, <1>6, <1>7, <1>8 DEF DrawerNext

LEMMA DrawerStutterKeeps ==
    ASSUME DrawerInv, UNCHANGED explorerVars
    PROVE  DrawerInv'
<1>1. ConsoleInv'
  BY DrawerStepKeeps DEF DrawerInv, ConsoleInv, Types, explorerVars, consoleVars, Lists
<1> QED
  BY <1>1 DEF DrawerInv, DrawerTypes, explorerVars, drawerVars

LEMMA DrawerInvHolds == DrawerSpec => []DrawerInv
<1>1. DrawerInit => DrawerInv
  BY DrawerInitHolds
<1>2. DrawerInv /\ [DrawerNext]_explorerVars => DrawerInv'
  BY DrawerNextKeeps, DrawerStutterKeeps
<1> QED
  BY <1>1, <1>2, PTL DEF DrawerSpec

-----------------------------------------------------------------------------
(* Theorems *)

\* Every variable of the console holds a value of its kind, and no task is listed twice
\* (TasksGlobalView.tsx: the rows Continue appends that the window holds already are dropped).
THEOREM ConsoleTypeCorrect == DrawerSpec => []ConsoleTypeOK
<1>1. DrawerInv => ConsoleTypeOK
  BY DEF DrawerInv, ConsoleInv, Types, Sources, NotTwice, Choice, Dialogs, ConsoleTypeOK, Answers,
         Appended, ScanJobs, Frozen, Froms
<1> QED
  BY <1>1, DrawerInvHolds, PTL

\* Until a mutation or a continuation is overtaken by a change of query, the rows on screen and
\* those buffered behind them answer the query in the URL (useLatestOnly, TasksGlobalView.tsx).
THEOREM RowsAreOfTheQuery == DrawerSpec => []RowsAnswerTheQuery
<1>1. DrawerInv => RowsAnswerTheQuery
  BY DEF DrawerInv, ConsoleInv, Answering, AllOf, RowsAnswerTheQuery
<1> QED
  BY <1>1, DrawerInvHolds, PTL

\* Rows are held exactly while the operator holds them, and a buffer that differs from what is
\* on screen is announced by the pill (lib/frozen.ts, hooks/useFrozenData.ts).
THEOREM BuffersAreAnnounced == DrawerSpec => []PausedIsAnnounced
<1>1. DrawerInv => PausedIsAnnounced
  <2> SUFFICES ASSUME DrawerInv PROVE PausedIsAnnounced
    OBVIOUS
  <2>1. frz.frozen = interacting(hover, selected, url.peek) /\ Announced(frz)
    BY DEF DrawerInv, ConsoleInv, Held
  <2>2. frz.frozen <=> interacting(hover, selected, url.peek)
    BY <2>1, Zenon
  <2> QED
    BY <2>1, <2>2 DEF Announced, interacting, PausedIsAnnounced
<1> QED
  BY <1>1, DrawerInvHolds, PTL

-----------------------------------------------------------------------------
(* Rows hold still *)

\* A held table buffers what a render brings, unless a verb lifted the freeze for one change.
LEMMA HeldRowsStay ==
    ASSUME frz \in Frozen, frz.frozen, ~frz.flush, NEW b, NEW e, NEW j, NEW h, NEW sel, NEW pk,
           interacting(h, sel, pk)
    PROVE  Render(b, e, j, h, sel, pk).data = frz.data
<1> DEFINE hold == interacting(h, sel, pk)
           z == setFrozen(frz, hold)
           rows == visibleTasks(b, e, j)
<1>1. hold \in BOOLEAN
  BY DEF interacting
<1>2. Render(b, e, j, h, sel, pk) = arrive(z, rows)
  BY DEF Render
<1> HIDE DEF hold, rows
<1>3. z \in Frozen /\ z.data = frz.data /\ z.flush = frz.flush /\ z.frozen = hold
  BY <1>1, HoldFacts DEF hold
<1> HIDE DEF z
<1>4. hold
  BY DEF hold
<1>5. ~z.flush /\ z.frozen
  BY <1>3, <1>4, Zenon
<1>6. arrive(z, rows) = liveArrived(z, rows)
  BY <1>5 DEF arrive
<1>7. liveArrived(z, rows).data = z.data
  BY <1>3, <1>5 DEF liveArrived, Frozen
<1> QED
  BY <1>2, <1>3, <1>6, <1>7

\* Rows do not move under the operator: while the query stays and he holds the table, an answer
\* changes what he sees only after a verb of his own (hooks/useFrozenData.ts).
THEOREM RowsStayUnderThePointer == DrawerSpec => RowsHoldStill
<1>1. DrawerInv /\ [DrawerNext]_explorerVars =>
        [ /\ url'.q = url.q /\ <<base, ext>>' # <<base, ext>>
          /\ \/ hover /\ hover'
             \/ selected # {} /\ selected' # {}
             \/ url.peek # None /\ url'.peek # None
          => frz'.data = frz.data \/ frz.flush ]_consoleVars
  <2> SUFFICES ASSUME DrawerInv, [DrawerNext]_explorerVars,
                      url'.q = url.q, <<base, ext>>' # <<base, ext>>,
                      \/ hover /\ hover'
                      \/ selected # {} /\ selected' # {}
                      \/ url.peek # None /\ url'.peek # None,
                      ~frz.flush
               PROVE  frz'.data = frz.data
    OBVIOUS
  <2>1. frz \in Frozen /\ frz.frozen
    <3>1. interacting(hover, selected, url.peek)
      BY DEF interacting
    <3>2. frz.frozen = interacting(hover, selected, url.peek)
      BY DEF DrawerInv, ConsoleInv, Held
    <3>3. frz.frozen
      BY <3>1, <3>2, Zenon
    <3> QED
      BY <3>3 DEF DrawerInv, ConsoleInv, Types
  <2>2. interacting(hover', selected', url'.peek)
    BY DEF interacting
  <2>3. Next
    BY DEF DrawerNext, ConsoleStep, drawerTick, setConfirmDelete, cancelDelete, doRun, doDelete, fetchInfo,
           Ran, Deleted, Done, explorerVars, consoleVars
  <2>4. ASSUME NEW f, NEW pk, Requery(f, pk) PROVE FALSE
    BY <2>4 DEF Requery
  <2>5. (\E c \in net : fetchTasks(c) \/ Continued(c)) \/ onScanSettled
    <3>1. ~Debounce /\ \A f \in Filters : ~Compose(f) /\ ~handlePivot(f) /\ \A pk : ~Navigate(f, pk)
      BY <2>4 DEF Debounce, Compose, handlePivot, Navigate
    <3>2. ~PollTick /\ ~continueScan /\ ~setHoveringTable /\ ~clearSelection /\ ~applyUpdates
      BY DEF PollTick, continueScan, setHoveringTable, clearSelection, Select, applyUpdates
    <3>3. /\ ~openSelectionVerb /\ ~runSelectionVerb /\ ~deleteRow /\ ~closeDialog
          /\ ~Progress /\ ~scanAsJob /\ ~setScanJobParam
      BY DEF openSelectionVerb, runSelectionVerb, deleteRow, closeDialog, Progress, scanAsJob, setScanJobParam
    <3>4. \A c \in net : ~fetchFails(c) /\ ~Acted(c) /\ ~ScanJobCreated(c) /\ ~fetchJobResults(c)
      BY DEF fetchFails, Acted, ScanJobCreated, fetchJobResults
    <3>5. \A f : ~Type(f)
      BY DEF Type
    <3>6. \A pk : ~setPeekParam(pk)
      BY DEF setPeekParam
    <3>7. \A w : ~SetWindow(w)
      BY DEF SetWindow
    <3>8. \A t : ~toggleSelect(t)
      BY DEF toggleSelect, Select
    <3>9. \A r : ~runAction(r) /\ ~confirmRowDelete(r)
      BY DEF runAction, confirmRowDelete
    <3> QED
      BY <2>3, <3>1, <3>2, <3>3, <3>4, <3>5, <3>6, <3>7, <3>8, <3>9 DEF Next
  <2>6. PICK b, e, j : frz' = Render(b, e, j, hover, selected, url'.peek) /\ hover' = hover /\ selected' = selected
    <3>1. ASSUME NEW c \in net, fetchTasks(c)
          PROVE  frz' = Render(base', ext, scan, hover, selected, url'.peek) /\ hover' = hover /\ selected' = selected
      BY <3>1 DEF fetchTasks
    <3>2. ASSUME NEW c \in net, Continued(c)
          PROVE  frz' = Render(base, ext', scan, hover, selected, url'.peek) /\ hover' = hover /\ selected' = selected
      BY <3>2 DEF Continued
    <3>3. ASSUME onScanSettled
          PROVE  frz' = Render(base, noExt, scan', hover, selected, url'.peek) /\ hover' = hover /\ selected' = selected
      BY <3>3 DEF onScanSettled
    <3> QED
      BY <2>5, <3>1, <3>2, <3>3
  <2> QED
    BY <2>1, <2>2, <2>6, HeldRowsStay
<1> QED
  BY <1>1, DrawerInvHolds, PTL DEF DrawerSpec, RowsHoldStill

-----------------------------------------------------------------------------
(* Verbs act on what was chosen *)

\* Only a click sends a verb.
LEMMA NoVerbIsSent ==
    ASSUME ConsoleInv, Next, ~runSelectionVerb, ~deleteRow, \A r \in frz.data : ~runAction(r),
           NEW c \in net', c.kind = "act"
    PROVE  c \in net
<1>0. net \subseteq Requests /\ url.q \in Filters /\ cursor \in Froms /\ input \in Filters
  BY DEF ConsoleInv, Types
<1>1. \A q \in Filters, from \in Froms, polled \in BOOLEAN, n \in SUBSET net :
         c \in beginTasksFetch(n, q, from, polled) => c \in n
  <2> TAKE q \in Filters, from \in Froms, polled \in BOOLEAN, n \in SUBSET net
  <2>1. n \subseteq Requests
    BY <1>0
  <2> QED
    BY <2>1, FetchFacts
<1>2. \A q \in Filters, n \in SUBSET net : c \in beginJobResultsFetch(n, q) => c \in n
  <2> TAKE q \in Filters, n \in SUBSET net
  <2>1. n \subseteq Requests
    BY <1>0
  <2> QED
    BY <2>1, FetchResultsFacts
<1>3. CASE net' = beginTasksFetch(net, url.q, cursor, TRUE)
  BY <1>0, <1>1, <1>3
<1>4. ASSUME NEW f \in Filters, NEW pk, Requery(f, pk) PROVE c \in net
  BY <1>1, <1>4 DEF Requery, Froms
<1>5. ASSUME NEW w \in {"first", "second"}, SetWindow(w) PROVE c \in net
  BY <1>0, <1>1, <1>5 DEF SetWindow, Froms
<1>6. ASSUME NEW d \in net, Acted(d) PROVE c \in net
  <2>1. d.q \in Filters /\ d.from \in Froms
    BY <1>0, <1>6 DEF Requests, Searches, Results, Others, Acts, Acted
  <2>2. net \ {d} \in SUBSET net
    OBVIOUS
  <2>3. c \in beginTasksFetch(net \ {d}, d.q, d.from, FALSE) => c \in net
    BY <1>1, <2>1, <2>2
  <2>4. c \in beginJobResultsFetch(net \ {d}, d.q) => c \in net
    BY <1>2, <2>1, <2>2
  <2>5. net' = beginTasksFetch(net \ {d}, d.q, d.from, FALSE) \/ net' = beginJobResultsFetch(net \ {d}, d.q)
    BY <1>6 DEF Acted
  <2> QED
    BY <2>3, <2>4, <2>5
<1>7. CASE onScanSettled
  <2>1. scan.job \in Filters
    BY <1>7 DEF onScanSettled, ConsoleInv, Types, ScanJobs
  <2> QED
    BY <1>2, <1>7, <2>1 DEF onScanSettled
<1>8. CASE PollTick
  BY <1>3, <1>8 DEF PollTick
<1>9. CASE setScanJobParam
  BY <1>3, <1>9 DEF setScanJobParam
<1>10. CASE continueScan \/ scanAsJob
  BY <1>10 DEF continueScan, scanAsJob
<1>11. CASE setHoveringTable \/ clearSelection \/ applyUpdates \/ openSelectionVerb \/ closeDialog \/ Progress
  BY <1>11 DEF setHoveringTable, clearSelection, Select, applyUpdates, openSelectionVerb, closeDialog, Progress
<1>12. ASSUME NEW d \in net, fetchTasks(d) \/ fetchFails(d) \/ Continued(d) \/ ScanJobCreated(d) \/ fetchJobResults(d)
       PROVE  c \in net
  BY <1>12 DEF fetchTasks, fetchFails, Continued, ScanJobCreated, fetchJobResults
<1>13. ASSUME NEW f \in Filters, Type(f) PROVE c \in net
  BY <1>13 DEF Type
<1>14. ASSUME NEW pk, setPeekParam(pk) PROVE c \in net
  BY <1>14 DEF setPeekParam
<1>15. ASSUME NEW t, toggleSelect(t) PROVE c \in net
  BY <1>15 DEF toggleSelect, Select
<1>16. ASSUME NEW r, confirmRowDelete(r) PROVE c \in net
  BY <1>16 DEF confirmRowDelete
<1> QED
  BY <1>0, <1>4, <1>5, <1>6, <1>7, <1>8, <1>9, <1>10, <1>11, <1>12, <1>13, <1>14, <1>15, <1>16
     DEF Next, Debounce, Compose, Navigate, handlePivot

\* A verb is sent for the rows that were chosen for it, to the endpoint of the query they were
\* searched under: a confirmed delete too, unless the query changed while its dialog was open
\* (TasksGlobalView.tsx, bulk and row actions, confirmDelete).
THEOREM VerbsActOnWhatWasChosen == DrawerSpec => VerbsActOnChosen
<1>1. DrawerInv /\ [DrawerNext]_explorerVars =>
        [ \A c \in net' \ net : c.kind = "act" =>
            /\ IF dialog.kind = "delete" THEN c.rows = {dialog.row} ELSE c.rows \subseteq frz.data
            /\ c.ofSelection => \A r \in c.rows : r[1] \in selected
            /\ ~crossed /\ ~dialog.astray => \A r \in c.rows : r[2] = c.q ]_consoleVars
  <2> SUFFICES ASSUME DrawerInv, [DrawerNext]_explorerVars, NEW c \in net', c \notin net, c.kind = "act"
               PROVE  /\ IF dialog.kind = "delete" THEN c.rows = {dialog.row} ELSE c.rows \subseteq frz.data
                      /\ c.ofSelection => \A r \in c.rows : r[1] \in selected
                      /\ ~crossed /\ ~dialog.astray => \A r \in c.rows : r[2] = c.q
    OBVIOUS
  <2>1. Next
    BY DEF DrawerNext, ConsoleStep, drawerTick, setConfirmDelete, cancelDelete, doRun, doDelete, fetchInfo,
           Ran, Deleted, Done, explorerVars, consoleVars
  <2>2. ConsoleInv
    BY DEF DrawerInv
  <2>3. ~crossed => \A r \in frz.data : r[2] = url.q
    BY <2>2 DEF ConsoleInv, Answering, AllOf
  <2>4. CASE runSelectionVerb
    <3>1. c = [kind |-> "act", rows |-> selectedTasks, q |-> url.q, from |-> cursor,
               ofSelection |-> TRUE, ofJob |-> jobResultsMode(scan)]
      BY <2>4 DEF runSelectionVerb, Send
    <3>2. c.rows = selectedTasks /\ c.q = url.q
      BY <3>1
    <3>3. dialog.kind # "delete"
      BY <2>4 DEF runSelectionVerb
    <3> QED
      BY <2>3, <3>2, <3>3 DEF selectedTasks
  \* The dialog kept a row of the query it was opened under.
  <2>5. CASE deleteRow
    <3>1. Send({dialog.row}, FALSE) /\ dialog.kind = "delete"
      BY <2>5 DEF deleteRow
    <3>2. c = [kind |-> "act", rows |-> {dialog.row}, q |-> url.q, from |-> cursor,
               ofSelection |-> FALSE, ofJob |-> jobResultsMode(scan)]
      BY <3>1 DEF Send
    <3>3. c.rows = {dialog.row} /\ c.q = url.q /\ ~c.ofSelection
      BY <3>2
    <3>4. ~crossed /\ ~dialog.astray => dialog.row[2] = url.q
      BY <2>2, <3>1 DEF ConsoleInv, Choice
    <3> QED
      BY <3>1, <3>3, <3>4
  <2>6. ASSUME NEW r \in frz.data, runAction(r)
        PROVE  c.rows = {r} /\ c.q = url.q /\ ~c.ofSelection /\ dialog.kind # "delete"
    <3>1. c = [kind |-> "act", rows |-> {r}, q |-> url.q, from |-> cursor,
               ofSelection |-> FALSE, ofJob |-> jobResultsMode(scan)]
      BY <2>6 DEF runAction, Send
    <3>2. dialog.kind = "none"
      BY <2>6 DEF runAction, Uncovered, noDialog
    <3> QED
      BY <3>1, <3>2
  <2>7. CASE \E r \in frz.data : runAction(r)
    BY <2>3, <2>6, <2>7
  <2> QED
    BY <2>1, <2>2, <2>4, <2>5, <2>7, NoVerbIsSent
<1> QED
  BY <1>1, DrawerInvHolds, PTL DEF DrawerSpec, VerbsActOnChosen

\* A verb of the drawer is sent for the task the drawer is open on, in the listing it was read
\* in, whatever reads of other tasks answer meanwhile (TaskDrawer.tsx, the route-match guard).
THEOREM DrawerActsOnItsTask == DrawerSpec => DrawerActsOnPeeked
<1>1. DrawerInv /\ [DrawerNext]_explorerVars =>
        [ \A c \in calls' \ calls : c.kind # "read" /\ c.mounted =>
            c.t = url.peek /\ c.t = url'.peek /\ info = [id |-> c.t, of |-> c.of] ]_explorerVars
  <2> SUFFICES ASSUME DrawerInv, DrawerNext, NEW c \in calls', c \notin calls, c.kind # "read", c.mounted
               PROVE  c.t = url.peek /\ c.t = url'.peek /\ info = [id |-> c.t, of |-> c.of]
    BY DEF explorerVars
  <2>0. ConsoleInv /\ DrawerTypes
    BY DEF DrawerInv
  <2>1. \A t, polled : c # Read(t, polled)
    BY DEF Read
  <2>2. ASSUME NEW d \in calls, d.kind # "read" PROVE c # [d EXCEPT !.mounted = FALSE]
    BY <2>0, <2>2, Unmounted DEF DrawerTypes
  <2>3. c \notin {[d EXCEPT !.mounted = FALSE] : d \in {e \in calls : e.kind # "read"}}
    BY <2>2
  <2>4. ~ConsoleStep
    <3>1. ~UNCHANGED drawerVars
      BY DEF drawerVars
    <3>2. ~Peeked(url'.peek)
      BY <2>1, <2>3 DEF Peeked
    <3> QED
      BY <3>1, <3>2 DEF ConsoleStep
  <2>5. ASSUME drawerTick \/ setConfirmDelete \/ cancelDelete PROVE FALSE
    BY <2>1, <2>5 DEF drawerTick, setConfirmDelete, cancelDelete
  <2>6. ASSUME NEW d \in calls, fetchInfo(d) \/ Ran(d) \/ Deleted(d) PROVE FALSE
    <3>1. CASE fetchInfo(d)
      BY <3>1 DEF fetchInfo
    <3>2. CASE Ran(d)
      BY <2>1, <3>2 DEF Ran
    <3>3. CASE Deleted(d)
      BY <2>2, <3>3 DEF Deleted
    <3> QED
      BY <2>6, <3>1, <3>2, <3>3
  <2>7. doRun \/ doDelete
    BY <2>4, <2>5, <2>6 DEF DrawerNext
  <2>8. PICK verb : c = Verb(verb, task) /\ task # NoInfo /\ url' = url
    BY <2>7 DEF doRun, doDelete, consoleVars
  <2>9. task = info /\ info.id = url.peek /\ info \in [id : Tasks, of : Filters]
    BY <2>0, <2>8, TaskIsRead DEF DrawerTypes, Infos
  <2>10. c.t = info.id /\ c.of = info.of
    BY <2>8, <2>9 DEF Verb
  <2> QED
    BY <2>8, <2>9, <2>10
<1> QED
  BY <1>1, DrawerInvHolds, PTL DEF DrawerSpec, DrawerActsOnPeeked

===============================================================================
