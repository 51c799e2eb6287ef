---- MODULE TaskDrawer ----
(* The task drawer (ui/src/components/TaskDrawer.tsx) over the Tasks console: the peek         *)
(* parameter of the URL says whose detail it shows, reads of that detail answer late, and its  *)
(* verbs act on what was read.  The drawer is mounted while a task is peeked.                  *)
EXTENDS TaskConsole

VARIABLES
  info,       \* taskInfo: the task last read and the listing it was in
  confirm,    \* confirmDelete
  calls       \* reads and verbs of the drawer in flight
drawerVars   == <<info, confirm, calls>>
explorerVars == <<consoleVars, drawerVars>>

NoInfo == [id |-> None, of |-> None]
Read(t, polled)  == [kind |-> "read", t |-> t, polled |-> polled]
Verb(verb, seen) == [kind |-> verb, t |-> seen.id, of |-> seen.of, mounted |-> TRUE]

\* The route-match guard: what was read counts only if it is of the peeked task.
\* Mutant: what was read last.
taskRead == info
task == IF info.id = url.peek THEN info ELSE NoInfo

\* A change of the peeked task: per-task state starts over and a read is forced.  Closing the
\* drawer leaves its reads without a reader; what follows a verb still runs.
Peeked(pk) ==
  /\ info' = NoInfo /\ confirm' = FALSE
  /\ calls' = IF pk # None THEN calls \cup {Read(pk, TRUE)}
              ELSE {[c EXCEPT !.mounted = FALSE] : c \in {d \in calls : d.kind # "read"}}
\* A step of the console; a pivot needs a detail on screen to click.
ConsoleStep ==
  /\ Next
  /\ pivot' /\ ~pivot => task # NoInfo
  /\ IF url'.peek # url.peek THEN Peeked(url'.peek) ELSE UNCHANGED drawerVars

CallsRoom == Cardinality(net) + Cardinality(calls) < MaxInFlight
drawerTick ==
  /\ CallsRoom /\ url.peek # None /\ \A c \in calls : c.kind = "read" => ~c.polled
  /\ calls' = calls \cup {Read(url.peek, TRUE)}
  /\ UNCHANGED <<consoleVars, info, confirm>>
\* A read that fails, as one of a task that is gone does, keeps the last one.
fetchInfo(c) ==
  /\ c.kind = "read" /\ calls' = calls \ {c}
  /\ \/ at[c.t] # None /\ info' = [id |-> c.t, of |-> at[c.t]]
     \/ UNCHANGED info
  /\ UNCHANGED <<consoleVars, confirm>>

setConfirmDelete ==
  /\ task # NoInfo /\ ~confirm /\ confirm' = TRUE
  /\ UNCHANGED <<consoleVars, info, calls>>
cancelDelete == confirm /\ confirm' = FALSE /\ UNCHANGED <<consoleVars, info, calls>>
doRun ==
  /\ Gesture /\ CallsRoom /\ task # NoInfo /\ ~confirm
  /\ calls' = calls \cup {Verb("run", task)}
  /\ UNCHANGED <<at, url, input, base, cursor, ext, scan, frz, hover, selected, dialog, pivot, net,
                 changes, crossed, info, confirm>>
doDelete ==
  /\ confirm /\ confirm' = FALSE /\ CallsRoom /\ task # NoInfo
  /\ calls' = calls \cup {Verb("delete", task)}
  /\ UNCHANGED <<consoleVars, info>>

\* The server acts, in whichever state the task is by then, if the call gets through.  Then
\* Run reads the task of the click again, and Delete closes the drawer on whichever task it is.
Done(c) ==
  /\ \/ at' = [at EXCEPT ![c.t] = None]
     \/ UNCHANGED at
  /\ UNCHANGED <<input, base, cursor, ext, scan, hover, selected, dialog, pivot, net, moves, changes,
                 crossed>>
Ran(c) ==
  /\ c.kind = "run" /\ Done(c)
  /\ calls' = (calls \ {c}) \cup (IF c.mounted THEN {Read(c.t, FALSE)} ELSE {})
  /\ UNCHANGED <<url, frz, info, confirm>>
Deleted(c) ==
  /\ c.kind = "delete" /\ Done(c)
  /\ url' = [url EXCEPT !.peek = None] /\ frz' = Hold(frz, hover, selected, None)
  /\ info' = NoInfo /\ confirm' = FALSE
  /\ calls' = {[d EXCEPT !.mounted = FALSE] : d \in {e \in calls \ {c} : e.kind # "read"}}

DrawerInit == Init /\ info = NoInfo /\ confirm = FALSE /\ calls = {}
DrawerNext ==
  \/ ConsoleStep \/ drawerTick \/ setConfirmDelete \/ cancelDelete \/ doRun \/ doDelete
  \/ \E c \in calls : fetchInfo(c) \/ Ran(c) \/ Deleted(c)
DrawerSpec == DrawerInit /\ [][DrawerNext]_explorerVars

---------------------------------------------------------------------------------------------
\* A verb of the drawer is sent for the task the drawer is open on, in the listing it was read
\* in, so that a fast walk followed by Delete or Run never hits another task
\* (TaskDrawer.tsx:286-289).
DrawerActsOnPeeked ==
  [][ \A c \in calls' \ calls : c.kind # "read" /\ c.mounted =>
        c.t = url.peek /\ c.t = url'.peek /\ info = [id |-> c.t, of |-> c.of] ]_explorerVars
====
