---- MODULE TaskConsole ----
(* The Tasks console (ui/src/views/TasksGlobalView.tsx): a query in the URL, searches that     *)
(* answer late, windows that extend the rows, rows that freeze while the operator holds them   *)
(* (hooks/useFrozenData.ts), and the verbs on rows and selections.  A filter stands for a      *)
(* whole query string; a row is a task with the filter it was searched under, for a task is    *)
(* listed in one state at a time.  A listing has at most two windows.  External: React, which  *)
(* runs the effects of a render in order before the next event, and the server's search.       *)
EXTENDS Integers, FiniteSets, FiniteSetsExt

CONSTANTS Filters,       \* queries
          ScanFilters,   \* those the server answers by a scan that Continue resumes; the others
                         \* page by a cursor over an exact listing
          Deletable,     \* those of a state whose tasks can be deleted: all but active
          Tasks,         \* numbered in listing order
          None,
          MaxMoves,      \* bound: gestures of the operator
          MaxChanges,    \* bound: moves of tasks on the server
          MaxInFlight    \* bound: requests in flight

ASSUME ConsoleAssumption ==
  /\ ScanFilters \cup Deletable \subseteq Filters /\ Tasks \subseteq Nat /\ None \notin Filters \cup Tasks
  /\ {MaxMoves, MaxChanges, MaxInFlight} \subseteq Nat

VARIABLES
  at,          \* server: the filter that matches a task; None when it left
  url,         \* the query and the peeked task
  input,       \* the text in the query bar
  base,        \* last answer: its rows, query, window, and whether it handed out a cursor
  cursor,      \* top of cursorStack: the window asked for, "first" or "second"
  ext,         \* rows appended by Continue, and contCursor: "null", or "" when it was resumed
  scan,        \* the scan job of the URL, by its query; whether its enumeration is known to be
               \* complete, the tasks it found, and the rows fetched of them (jobTasks)
  frz,         \* what the table renders, the buffer, the pill, the freeze, and flushNext
  hover,       \* the pointer rests on the table
  selected,    \* selected rows
  dialog,      \* the confirmation that is open: of a verb on the selection, or of the delete of a
               \* row; history: whether the query changed since
  pivot,       \* pivotPending
  net,         \* requests in flight
  moves, changes,
  crossed      \* history: a request other than a search was in flight at a change of query

screen == <<at, changes, input, dialog>>
consoleVars == <<at, url, input, base, cursor, ext, scan, frz, hover, selected, dialog, pivot, net,
                 moves, changes, crossed>>

---------------------------------------------------------------------------------------------
(* The server: one window of a listing.                                                       *)
Listing(f) == {t \in Tasks : at[t] = f}
FirstOf(f) == {t \in Listing(f) : \A u \in Listing(f) : t <= u}
Window(f, from) == {<<t, f>> : t \in IF from = "first" THEN FirstOf(f)
                                                       ELSE Listing(f) \ FirstOf(f)}
\* A query is answered by its first window unless it pages by a cursor.
Asked(f, from) == IF f \in ScanFilters THEN "first" ELSE from

---------------------------------------------------------------------------------------------
(* Freeze on interaction: lib/frozen.ts and useFrozenData.ts.                                 *)
frozenInit(rows, fr, fl) == [data |-> rows, live |-> rows, pending |-> 0, frozen |-> fr,
                             flush |-> fl]
frozenApply(z) == [z EXCEPT !.data = z.live, !.pending = 0]
setFrozen(z, fr) == IF z.frozen /\ ~fr THEN [frozenApply(z) EXCEPT !.frozen = FALSE]
                                       ELSE [z EXCEPT !.frozen = fr]
\* Mutant: a change that keeps the number of rows is not counted.
liveArrivedBySize(z, rows) ==
  IF ~z.frozen THEN [z EXCEPT !.data = rows, !.live = rows, !.pending = 0]
  ELSE [z EXCEPT !.live = rows,
                 !.pending = @ + (IF Cardinality(rows) # Cardinality(z.live) THEN 1 ELSE 0)]
liveArrived(z, rows) ==
  IF ~z.frozen THEN [z EXCEPT !.data = rows, !.live = rows, !.pending = 0]
  ELSE [z EXCEPT !.live = rows, !.pending = @ + (IF rows # z.live THEN 1 ELSE 0)]
\* Mutant: every arrival is applied.
arriveApplied(z, rows) == frozenApply(liveArrived(z, rows))
\* The flag of applyNextChange is spent by the first arrival that changes the buffer.
arrive(z, rows) ==
  IF z.flush /\ rows # z.live THEN [frozenApply(liveArrived(z, rows)) EXCEPT !.flush = FALSE]
                              ELSE liveArrived(z, rows)

noExt == [rows |-> {}, cont |-> "null"]
noJob == [job |-> None, done |-> FALSE, found |-> {}, rows |-> {}]
jobResultsMode(j) == j.job # None /\ j.done
\* Mutant: the appended rows are not compared with the first window's.
visibleTasksTwice(b, e, j) == IF jobResultsMode(j) THEN j.rows ELSE b.rows \cup e.rows
visibleTasks(b, e, j) == IF jobResultsMode(j) THEN j.rows
                         ELSE b.rows \cup {r \in e.rows : \A s \in b.rows : s[1] # r[1]}
interacting(h, sel, pk) == h \/ sel # {} \/ pk # None
\* The effects of a render with new rows: the freeze, then the arrival.
Render(b, e, j, h, sel, pk) ==
  arrive(setFrozen(frz, interacting(h, sel, pk)), visibleTasks(b, e, j))
\* The effects of a render that leaves the rows alone.
Hold(z, h, sel, pk) == setFrozen(z, interacting(h, sel, pk))
\* The tasks on screen that are selected: what a verb on the selection acts on.
selectedTasks == {r \in frz.data : r[1] \in selected}

---------------------------------------------------------------------------------------------
(* Searches.  useLatestOnly: starting one makes every earlier one stale.                      *)
begin(calls, kind) == {IF c.kind = kind THEN [c EXCEPT !.current = FALSE] ELSE c : c \in calls}
beginTasksFetch(calls, q, from, polled) ==
  begin(calls, "search")
    \cup {[kind |-> "search", q |-> q, from |-> from, current |-> TRUE, polled |-> polled]}
beginJobResultsFetch(calls, q) ==
  begin(calls, "results") \cup {[kind |-> "results", q |-> q, current |-> TRUE]}
Room == Cardinality(net) < MaxInFlight
Gesture == moves < MaxMoves /\ moves' = moves + 1
\* A dialog and the drawer's backdrop lie over the page; the pill lies over the backdrop.
noDialog  == [kind |-> "none", row |-> <<None, None>>, astray |-> FALSE]
Uncovered == dialog = noDialog /\ url.peek = None

\* usePolling: a tick is skipped while a call of its own is pending.
PollTick ==
  /\ Room /\ ~jobResultsMode(scan) /\ \A c \in net : c.kind = "search" => ~c.polled
  /\ net' = beginTasksFetch(net, url.q, cursor, TRUE)
  /\ UNCHANGED <<screen, url, base, cursor, ext, scan, frz, hover, selected, pivot, moves, crossed>>

\* The answer of the newest search replaces the base rows; a stale one is dropped.  After a
\* pivot the drawer closes when its task is not among the rows.
\* Mutant: the answer of any search is taken.
fetchTasksAny(c) ==
  LET from == Asked(c.q, c.from)
      rows == Window(c.q, from)
  IN /\ c.kind = "search" /\ net' = net \ {c} /\ pivot' = FALSE /\ UNCHANGED url
     /\ base' = [rows |-> rows, of |-> c.q, from |-> from,
                 more |-> from = "first" /\ Cardinality(Listing(c.q)) > 1]
     /\ frz' = Render(base', ext, scan, hover, selected, url'.peek)
     /\ UNCHANGED <<screen, cursor, ext, scan, hover, selected, moves, crossed>>
fetchTasks(c) ==
  LET from == Asked(c.q, c.from)
      rows == Window(c.q, from)
      gone == pivot /\ url.peek # None /\ \A r \in rows : r[1] # url.peek
  IN /\ c.kind = "search" /\ net' = net \ {c}
     /\ IF c.current
          THEN /\ base' = [rows |-> rows, of |-> c.q, from |-> from,
                           more |-> from = "first" /\ Cardinality(Listing(c.q)) > 1]
               /\ pivot' = FALSE
               /\ url' = [url EXCEPT !.peek = IF gone THEN None ELSE @]
               /\ frz' = Render(base', ext, scan, hover, selected, url'.peek)
          ELSE UNCHANGED <<base, pivot, url, frz>>
     /\ UNCHANGED <<screen, cursor, ext, scan, hover, selected, moves, crossed>>
\* A failed search, current or not, leaves the rows of the last good one.
fetchFails(c) ==
  /\ c.kind = "search" /\ net' = net \ {c}
  /\ UNCHANGED <<screen, url, base, cursor, ext, scan, frz, hover, selected, pivot, moves, crossed>>

---------------------------------------------------------------------------------------------
(* The query changes, by any road.  Effects of the render: the text follows the query, a       *)
(* search is forced, the filter effect drops rows, windows, cursors and selection but keeps    *)
(* the last answer's own cursor, the scan job is dropped from the URL, and the frozen rows     *)
(* start over from what is on screen with the flush flag set.  The next render brings the      *)
(* dropped rows, and they spend the flag.  An open confirmation stays open.  (A search        *)
(* under the old cursor, begun and made stale by the same effects, is left out.)               *)
Requery(f, pk) ==
  /\ f # url.q /\ Room
  /\ url' = [q |-> f, peek |-> pk] /\ input' = f
  /\ net' = beginTasksFetch(net, f, "first", TRUE)
  /\ base' = [base EXCEPT !.rows = {}]
  /\ cursor' = "first" /\ ext' = noExt /\ scan' = noJob /\ selected' = {}
  /\ frz' = LET reset == frozenInit(visibleTasks(base, ext, scan), interacting(hover, selected, pk), TRUE)
            IN arrive(Hold(reset, hover, {}, pk), {})
  /\ crossed' = (crossed \/ \E c \in net : c.kind # "search")
  /\ dialog' = IF dialog.kind = "delete" THEN [dialog EXCEPT !.astray = TRUE] ELSE dialog
  /\ UNCHANGED <<at, changes, hover>>

\* Typing echoes at once; the URL follows 300 ms later.
Type(f) ==
  /\ Gesture /\ Uncovered /\ f # input /\ input' = f
  /\ UNCHANGED <<at, changes, dialog, url, base, cursor, ext, scan, frz, hover, selected, pivot, net, crossed>>
Debounce == Requery(input, url.peek) /\ UNCHANGED <<moves, pivot>>
\* A state pill, a facet or a time chip; Back and Forward, which a dialog does not stop.
Compose(f)      == Gesture /\ Uncovered /\ Requery(f, url.peek) /\ UNCHANGED pivot
Navigate(f, pk) == Gesture /\ Requery(f, pk) /\ UNCHANGED pivot
\* "Find all like this", from the open drawer.
handlePivot(f)  == Gesture /\ url.peek # None /\ Requery(f, url.peek) /\ pivot' = TRUE

\* The drawer opens on a row, walks to another, closes.
setPeekParam(pk) ==
  /\ Gesture /\ dialog = noDialog /\ pk # url.peek
  /\ pk = None \/ \E r \in frz.data : r[1] = pk
  /\ url' = [url EXCEPT !.peek = pk] /\ frz' = Hold(frz, hover, selected, pk)
  /\ UNCHANGED <<screen, base, cursor, ext, scan, hover, selected, pivot, net, crossed>>

\* Next and Previous window of an exact listing: the query stays, so the rows stay too.
SetWindow(w) ==
  /\ Gesture /\ Uncovered /\ Room
  /\ base.of \notin ScanFilters \cup {None} /\ ~jobResultsMode(scan) /\ w # cursor /\ (w = "second" => base.more)
  /\ cursor' = w /\ net' = beginTasksFetch(net, url.q, w, TRUE)
  /\ UNCHANGED <<screen, url, base, ext, scan, frz, hover, selected, pivot, crossed>>

\* The scan meter, until it turns into the tracker of a scan job.
scanPartial == base.of \in ScanFilters /\ base.more /\ ext.cont = "null" /\ scan.job = None
\* Continue: the scan is resumed under the query of the click.
continueScan ==
  /\ Gesture /\ Uncovered /\ Room /\ scanPartial
  /\ \A c \in net : c.kind # "continue"
  /\ net' = net \cup {[kind |-> "continue", q |-> url.q]}
  /\ UNCHANGED <<screen, url, base, cursor, ext, scan, frz, hover, selected, pivot, crossed>>
\* Its answer is appended whatever the query is by now; a failure changes no row.
Continued(c) ==
  /\ c.kind = "continue" /\ net' = net \ {c}
  /\ \/ /\ ext' = [rows |-> ext.rows \cup Window(c.q, "second"), cont |-> ""]
        /\ frz' = Render(base, ext', scan, hover, selected, url.peek)
     \/ UNCHANGED <<ext, frz>>
  /\ UNCHANGED <<screen, url, base, cursor, scan, hover, selected, pivot, moves, crossed>>

---------------------------------------------------------------------------------------------
(* Scan to completion as a job: its id rides in the URL, so a reload finds it again.          *)
scanAsJob ==
  /\ Gesture /\ Uncovered /\ Room /\ scanPartial
  /\ net' = net \cup {[kind |-> "create", q |-> url.q]}
  /\ UNCHANGED <<screen, url, base, cursor, ext, scan, frz, hover, selected, pivot, crossed>>
\* The answer puts the job in the URL whatever the query is by now; a failure does nothing.
ScanJobCreated(c) ==
  /\ c.kind = "create" /\ net' = net \ {c}
  /\ \/ /\ scan' = [noJob EXCEPT !.job = c.q]
        /\ frz' = Render(base, ext, scan', hover, selected, url.peek)
     \/ UNCHANGED <<scan, frz>>
  /\ UNCHANGED <<screen, url, base, cursor, ext, hover, selected, pivot, moves, crossed>>
\* useJobProgress reports the enumeration complete: its result set replaces the live rows.
onScanSettled ==
  /\ scan.job # None /\ ~scan.done /\ Room
  /\ scan' = [scan EXCEPT !.done = TRUE, !.found = Listing(scan.job)]
  /\ ext' = noExt /\ net' = beginJobResultsFetch(net, scan.job)
  /\ frz' = Render(base, noExt, scan', hover, selected, url.peek)
  /\ UNCHANGED <<screen, url, base, cursor, hover, selected, pivot, moves, crossed>>
\* The tasks found that still exist; or a failure.
fetchJobResults(c) ==
  /\ c.kind = "results" /\ net' = net \ {c}
  /\ \/ /\ c.current
        /\ scan' = [scan EXCEPT !.rows = {<<t, c.q>> : t \in {u \in scan.found : at[u] # None}}]
        /\ frz' = Render(base, ext, scan', hover, selected, url.peek)
     \/ UNCHANGED <<scan, frz>>
  /\ UNCHANGED <<screen, url, base, cursor, ext, hover, selected, pivot, moves, crossed>>
\* Back to live search, or the tracker's Dismiss.
setScanJobParam ==
  /\ Gesture /\ Uncovered /\ Room /\ scan.job # None
  /\ scan' = noJob /\ frz' = Render(base, ext, noJob, hover, selected, url.peek)
  /\ net' = (IF scan.done THEN beginTasksFetch(net, url.q, cursor, TRUE) ELSE net)
  /\ UNCHANGED <<screen, url, base, cursor, ext, hover, selected, pivot, crossed>>

---------------------------------------------------------------------------------------------
(* Holding rows.                                                                              *)
setHoveringTable ==
  /\ Gesture /\ (Uncovered \/ hover) /\ hover' = ~hover /\ frz' = Hold(frz, hover', selected, url.peek)
  /\ UNCHANGED <<screen, url, base, cursor, ext, scan, selected, pivot, net, crossed>>
Select(sel) ==
  /\ Gesture /\ Uncovered
  /\ selected' = sel /\ frz' = Hold(frz, hover, sel, url.peek)
  /\ UNCHANGED <<screen, url, base, cursor, ext, scan, hover, pivot, net, crossed>>
toggleSelect(t) ==
  /\ \E r \in frz.data : r[1] = t
  /\ Select(IF t \in selected THEN selected \ {t} ELSE selected \cup {t})
clearSelection == selected # {} /\ Select({})
\* The pill.
applyUpdates ==
  /\ Gesture /\ dialog = noDialog /\ frz.pending > 0 /\ frz' = frozenApply(frz)
  /\ UNCHANGED <<screen, url, base, cursor, ext, scan, hover, selected, pivot, net, crossed>>

---------------------------------------------------------------------------------------------
(* Verbs.  A request carries the query and window of the render it was made in: its            *)
(* continuation fetches for them.                                                             *)
\* Mutant: the endpoint is that of the text in the bar.
SendByInput(rows, ofSelection) ==
  /\ Room
  /\ net' = net \cup {[kind |-> "act", rows |-> rows, q |-> input, from |-> cursor,
                       ofSelection |-> ofSelection, ofJob |-> jobResultsMode(scan)]}
Send(rows, ofSelection) ==
  /\ Room
  /\ net' = net \cup {[kind |-> "act", rows |-> rows, q |-> url.q, from |-> cursor,
                       ofSelection |-> ofSelection, ofJob |-> jobResultsMode(scan)]}
\* Run, Cancel or Archive of a row is sent at once.
runAction(r) ==
  /\ Gesture /\ Uncovered /\ r \in frz.data /\ Send({r}, FALSE)
  /\ UNCHANGED <<screen, url, base, cursor, ext, scan, frz, hover, selected, pivot, crossed>>
\* Delete of a row keeps the row until it is confirmed, whatever is listed by then, and is sent
\* to the endpoint of the state shown by then, if that has one.
confirmRowDelete(r) ==
  /\ Gesture /\ Uncovered /\ r \in frz.data /\ url.q \in Deletable
  /\ dialog' = [kind |-> "delete", row |-> r, astray |-> FALSE]
  /\ UNCHANGED <<at, changes, input, url, base, cursor, ext, scan, frz, hover, selected, pivot, net, crossed>>
deleteRow ==
  /\ dialog.kind = "delete" /\ dialog' = noDialog
  /\ IF url.q \in Deletable THEN Send({dialog.row}, FALSE) ELSE UNCHANGED net
  /\ UNCHANGED <<at, changes, input, url, base, cursor, ext, scan, frz, hover, selected, pivot, moves, crossed>>
openSelectionVerb ==
  /\ Gesture /\ Uncovered /\ selectedTasks # {} /\ dialog' = [noDialog EXCEPT !.kind = "selection"]
  /\ UNCHANGED <<at, changes, input, url, base, cursor, ext, scan, frz, hover, selected, pivot, net, crossed>>
runSelectionVerb ==
  /\ dialog.kind = "selection" /\ dialog' = noDialog /\ Send(selectedTasks, TRUE)
  /\ UNCHANGED <<at, changes, input, url, base, cursor, ext, scan, frz, hover, selected, pivot, moves, crossed>>
closeDialog ==
  /\ dialog # noDialog /\ dialog' = noDialog
  /\ UNCHANGED <<at, changes, input, url, base, cursor, ext, scan, frz, hover, selected, pivot, net, moves, crossed>>
\* The server acts on the tasks its verb still fits, in whichever state they are by then, and on
\* some of them when a call fails.  Then the selection goes, the next change passes the freeze,
\* and a search starts.
Acted(c) ==
  /\ c.kind = "act"
  /\ \E done \in SUBSET {r[1] : r \in c.rows} :
       at' = [t \in Tasks |-> IF t \in done THEN None ELSE at[t]]
  /\ net' = (IF c.ofJob THEN beginJobResultsFetch(net \ {c}, c.q)
                        ELSE beginTasksFetch(net \ {c}, c.q, c.from, FALSE))
  /\ selected' = (IF c.ofSelection THEN {} ELSE selected)
  /\ frz' = Hold([frz EXCEPT !.flush = TRUE], hover, selected', url.peek)
  /\ UNCHANGED <<url, input, base, cursor, ext, scan, hover, dialog, pivot, moves, changes, crossed>>

\* Workers and other people move a task to another listing.
Progress ==
  /\ changes < MaxChanges /\ changes' = changes + 1
  /\ \E t \in Tasks, f \in Filters \cup {None} : f # at[t] /\ at' = [at EXCEPT ![t] = f]
  /\ UNCHANGED <<url, input, base, cursor, ext, scan, frz, hover, selected, dialog, pivot, net, moves, crossed>>

---------------------------------------------------------------------------------------------
Init ==
  /\ at \in [Tasks -> Filters] /\ input \in Filters
  /\ url = [q |-> input, peek |-> None]
  /\ base = [rows |-> {}, of |-> None, from |-> "first", more |-> FALSE]
  /\ cursor = "first" /\ ext = noExt
  /\ scan \in {[noJob EXCEPT !.job = j] : j \in {None} \cup ({input} \cap ScanFilters)}
  /\ frz = frozenInit({}, FALSE, FALSE)
  /\ hover = FALSE /\ selected = {} /\ dialog = noDialog /\ pivot = FALSE
  /\ net = beginTasksFetch({}, input, "first", TRUE)
  /\ moves = 0 /\ changes = 0 /\ crossed = FALSE

Next ==
  \/ PollTick \/ Debounce \/ continueScan \/ setHoveringTable \/ clearSelection \/ applyUpdates
  \/ openSelectionVerb \/ runSelectionVerb \/ deleteRow \/ closeDialog \/ Progress
  \/ scanAsJob \/ onScanSettled \/ setScanJobParam
  \/ \E c \in net : fetchTasks(c) \/ fetchFails(c) \/ Continued(c) \/ Acted(c)
                     \/ ScanJobCreated(c) \/ fetchJobResults(c)
  \/ \E f \in Filters : Type(f) \/ Compose(f) \/ handlePivot(f)
  \/ \E f \in Filters, pk \in Tasks \cup {None} : Navigate(f, pk)
  \/ \E pk \in Tasks \cup {None} : setPeekParam(pk)
  \/ \E w \in {"first", "second"} : SetWindow(w)
  \/ \E t \in Tasks : toggleSelect(t)
  \/ \E r \in frz.data : runAction(r) \/ confirmRowDelete(r)
Spec == Init /\ [][Next]_consoleVars

---------------------------------------------------------------------------------------------
(* Every variable holds a value of its kind, and a row is never listed twice (useFrozenData    *)
(* and visibleTasks drop the row of Continue that the first window holds already).             *)
Rows == SUBSET (Tasks \X Filters)
ConsoleTypeOK ==
  /\ at \in [Tasks -> Filters \cup {None}]
  /\ url \in [q : Filters, peek : Tasks \cup {None}] /\ input \in Filters
  /\ base.rows \in Rows /\ base.of \in Filters \cup {None} /\ base.more \in BOOLEAN
  /\ {base.from, cursor} \subseteq {"first", "second"}
  /\ ext.rows \in Rows /\ ext.cont \in {"null", ""}
  /\ {frz.data, frz.live} \subseteq Rows /\ frz.pending \in Nat
  /\ {frz.frozen, frz.flush, scan.done, hover, pivot, crossed} \subseteq BOOLEAN
  /\ \/ dialog \in {noDialog, [noDialog EXCEPT !.kind = "selection"]}
     \/ dialog \in [kind : {"delete"}, row : Tasks \X Filters, astray : BOOLEAN]
  /\ scan.job \in Filters \cup {None} /\ scan.found \subseteq Tasks /\ scan.rows \in Rows
  /\ selected \subseteq Tasks
  /\ \A r, s \in frz.live : r[1] = s[1] => r = s

\* Unless a mutation or a continuation was under way when the query changed, the rows on screen
\* and those buffered behind them answer the query in the URL (TasksGlobalView.tsx:395-399).
RowsAnswerTheQuery == ~crossed => \A r \in frz.data \cup frz.live : r[2] = url.q

\* Rows are held exactly while the operator holds them, and a buffer that differs from what is
\* on screen is announced by the pill (lib/frozen.ts:1-16, TasksGlobalView.tsx:669-697).
PausedIsAnnounced ==
  /\ frz.frozen <=> (hover \/ selected # {} \/ url.peek # None)
  /\ frz.data # frz.live => frz.frozen /\ frz.pending > 0

\* Rows do not move under the operator: while the query stays and the table is hovered, a
\* selection is held or the drawer is open, an answer changes them only after a verb of his own.
RowsHoldStill ==
  [][ /\ url'.q = url.q /\ <<base, ext>>' # <<base, ext>>
      /\ \/ hover /\ hover'
         \/ selected # {} /\ selected' # {}
         \/ url.peek # None /\ url'.peek # None
      => frz'.data = frz.data \/ frz.flush ]_consoleVars

\* A verb is sent for the rows that were chosen for it: on screen, and selected where the
\* selection is meant; a delete that was confirmed, for the row the dialog names.  And it goes
\* to the endpoint of the query those rows were searched under, unless the query changed while
\* the dialog was open (TasksGlobalView.tsx:753, 782-799, 1416-1467).
VerbsActOnChosen ==
  [][ \A c \in net' \ net : c.kind = "act" =>
        /\ IF dialog.kind = "delete" THEN c.rows = {dialog.row} ELSE c.rows \subseteq frz.data
        /\ c.ofSelection => \A r \in c.rows : r[1] \in selected
        /\ ~crossed /\ ~dialog.astray => \A r \in c.rows : r[2] = c.q ]_consoleVars

\* A deliberate change of view is never paused (useFrozenData.ts:23-25): the answer that brings
\* another query or window is shown.
ViewChangeIsShown ==
  [][ base.of # None /\ <<base'.of, base'.from>> # <<base.of, base.from>>
      => frz'.data = frz'.live ]_consoleVars
====
