---- MODULE BulkJobModal ----
(* The dialog of a bulk action (ui/src/components/BulkJobModal.tsx with the gate of            *)
(* ui/src/lib/bulkjob.ts): opening it creates a preview job, whose count streams in; the       *)
(* operator confirms it, or closes the dialog.  Requests answer late, or never.  External: the *)
(* job server, as BulkJob.tla has it, reduced to what the dialog can tell apart.               *)
EXTENDS Integers, Sequences, FiniteSets

CONSTANTS Verbs,          \* verbs the operator picks
          Typed,          \* counts he types: phrases are told apart by their count
          TYPED_CONFIRM_THRESHOLD,
          MaxCount,       \* bound: tasks a preview finds
          MaxOpenings,    \* bound: times the dialog is opened
          MaxInFlight     \* bound: requests in flight when the operator sends one

ASSUME ModalAssumption ==
  /\ Typed \subseteq Nat \ {0}
  /\ {TYPED_CONFIRM_THRESHOLD, MaxCount, MaxOpenings, MaxInFlight} \subseteq Nat

VARIABLES
  dlg,       \* the dialog: an opening is a new instance of the component
  jobs,      \* the server's jobs
  net,       \* requests in flight
  openings,  \* times it was opened
  excused    \* history: jobs no close could cancel
modalVars == <<dlg, jobs, net, openings, excused>>

Null == [n |-> 0, complete |-> FALSE]
Fresh(v, inst) ==
  [open |-> TRUE, inst |-> inst, verb |-> v, id |-> 0, job |-> Null, reason |-> FALSE,
   proceedOnPartial |-> FALSE, typedConfirm |-> 0, busy |-> FALSE, started |-> FALSE]
Snapshot(i) == [n |-> jobs[i].n, complete |-> jobs[i].complete]
Job(v) == [verb |-> v, phase |-> "preview", n |-> 0, complete |-> FALSE,
           typed |-> 0, acked |-> FALSE]
\* Unmounted, the component's state is gone, and with it whoever reads a detail.
Gone == [Fresh(dlg.verb, dlg.inst) EXCEPT !.open = FALSE]
Unread == {c \in net : c.kind = "detail"}
\* Mutant: some instance is on screen.
mountedAny(c) == dlg.open
\* The instance a request was sent from is still on screen.
Mounted(c) == dlg.open /\ c.inst = dlg.inst

---------------------------------------------------------------------------------------------
(* Opening and closing.                                                                       *)
createPreview(v) ==
  /\ ~dlg.open /\ openings < MaxOpenings /\ openings' = openings + 1
  /\ dlg' = Fresh(v, openings')
  /\ net' = net \cup {[kind |-> "create", inst |-> openings', verb |-> v]}
  /\ UNCHANGED <<jobs, excused>>

\* The job exists; its answer may be lost, or find the dialog closed.  A known id starts the
\* live feed, and one read of the detail.
Created(c) ==
  /\ c.kind = "create"
  /\ \/ /\ net' = net \ {c} /\ UNCHANGED <<dlg, jobs, excused>>
     \/ LET i == Len(jobs) + 1 IN
        /\ jobs' = Append(jobs, Job(c.verb))
        /\ \/ /\ Mounted(c) /\ dlg' = [dlg EXCEPT !.id = i]
              /\ net' = (net \ {c}) \cup {[kind |-> "detail", inst |-> c.inst, id |-> i, job |-> Null,
                                          read |-> FALSE]}
              /\ UNCHANGED excused
           \/ net' = net \ {c} /\ excused' = excused \cup {i} /\ UNCHANGED dlg
  /\ UNCHANGED openings
\* The server reads the detail; the answer arrives later, over what the feed brought since.
DetailRead(c) ==
  /\ c.kind = "detail" /\ ~c.read
  /\ net' = (net \ {c}) \cup {[c EXCEPT !.read = TRUE, !.job = Snapshot(c.id)]}
  /\ UNCHANGED <<dlg, jobs, openings, excused>>
DetailAnswered(c) ==
  /\ c.kind = "detail" /\ net' = net \ {c}
  /\ dlg' = (IF c.read THEN [dlg EXCEPT !.job = c.job] ELSE dlg)
  /\ UNCHANGED <<jobs, openings, excused>>
\* useJobProgress brings the job as it is.
liveJob ==
  /\ dlg.open /\ dlg.id # 0 /\ dlg' = [dlg EXCEPT !.job = Snapshot(dlg.id)]
  /\ UNCHANGED <<jobs, net, openings, excused>>

\* Esc, the scrim, Cancel (idle only), the link to Operations: an id that was not handed over
\* is cancelled, best effort.
\* Mutant: the dialog just goes away.
closeOnly ==
  /\ dlg.open /\ dlg' = Gone /\ net' = net \ Unread /\ UNCHANGED <<jobs, openings, excused>>
handleClose ==
  /\ dlg.open /\ dlg' = Gone
  /\ net' = (net \ Unread) \cup (IF dlg.id # 0 /\ ~dlg.started
                                 THEN {[kind |-> "cancel", id |-> dlg.id]} ELSE {})
  /\ UNCHANGED <<jobs, openings, excused>>
\* The view goes, by Back or the side bar: the dialog is unmounted, nothing is sent.
Unmount ==
  /\ dlg.open /\ dlg' = Gone /\ net' = net \ Unread
  /\ excused' = excused \cup ({dlg.id} \ {0}) /\ UNCHANGED <<jobs, openings>>
Cancelled(c) ==
  /\ c.kind = "cancel" /\ net' = net \ {c}
  /\ \/ /\ jobs' = [jobs EXCEPT ![c.id].phase = IF @ = "done" THEN @ ELSE "canceled"]
        /\ UNCHANGED excused
     \/ excused' = excused \cup {c.id} /\ UNCHANGED jobs
  /\ UNCHANGED <<dlg, openings>>

---------------------------------------------------------------------------------------------
(* The confirmation.                                                                          *)
Edit(d) == dlg.open /\ ~dlg.started /\ dlg' = d /\ UNCHANGED <<jobs, net, openings, excused>>
setReason           == Edit([dlg EXCEPT !.reason = ~@])
setProceedOnPartial == dlg.verb # "delete" /\ ~dlg.job.complete /\ Edit([dlg EXCEPT !.proceedOnPartial = ~@])
typedConfirmPhrase(verb, count) ==
  IF verb = "delete" /\ count > TYPED_CONFIRM_THRESHOLD THEN count ELSE 0
setTypedConfirm(k) ==
  /\ dlg.job.complete /\ typedConfirmPhrase(dlg.verb, dlg.job.n) # 0
  /\ Edit([dlg EXCEPT !.typedConfirm = k])

\* Mutant: the phrase is asked for and not compared.
gateExecuteUntyped(d) == d.reason /\ (d.job.complete \/ (d.verb # "delete" /\ d.proceedOnPartial))
gateExecute(d) ==
  /\ d.reason
  /\ ~d.job.complete => d.verb # "delete" /\ d.proceedOnPartial
  /\ LET phrase == typedConfirmPhrase(d.verb, d.job.n)
     IN d.job.complete /\ phrase # 0 => d.typedConfirm = phrase

\* Mutant: the button stays live while a request is under way.
handleExecuteAgain ==
  /\ dlg.open /\ ~dlg.started /\ gateExecute(dlg) /\ dlg.id # 0
  /\ Cardinality(net) < MaxInFlight
  /\ dlg' = [dlg EXCEPT !.busy = TRUE]
  /\ net' = net \cup {[kind |-> "execute", inst |-> dlg.inst, id |-> dlg.id, status |-> "sent",
                       acked |-> dlg.proceedOnPartial, typed |-> dlg.typedConfirm]}
  /\ UNCHANGED <<jobs, openings, excused>>
handleExecute ==
  /\ dlg.open /\ ~dlg.started /\ gateExecute(dlg) /\ ~dlg.busy /\ dlg.id # 0
  /\ Cardinality(net) < MaxInFlight
  /\ dlg' = [dlg EXCEPT !.busy = TRUE]
  /\ net' = net \cup {[kind |-> "execute", inst |-> dlg.inst, id |-> dlg.id, status |-> "sent",
                       acked |-> dlg.proceedOnPartial, typed |-> dlg.typedConfirm]}
  /\ UNCHANGED <<jobs, openings, excused>>
\* The server checks the gate again, the phrase excepted.
RequestExecute(c) ==
  LET j  == jobs[c.id]
      ok == j.phase = "preview" /\ (j.complete \/ (j.verb # "delete" /\ c.acked))
  IN /\ c.kind = "execute" /\ c.status = "sent"
     /\ net' = (net \ {c}) \cup {[c EXCEPT !.status = IF ok THEN "ok" ELSE "refused"]}
     /\ jobs' = IF ok THEN [jobs EXCEPT ![c.id] = [@ EXCEPT !.phase = "executing", !.typed = c.typed,
                                                            !.acked = c.acked]]
                ELSE jobs
     /\ UNCHANGED <<dlg, openings, excused>>
ExecuteAnswered(c) ==
  /\ c.kind = "execute" /\ c.status # "sent" /\ net' = net \ {c}
  /\ dlg' = (IF Mounted(c) THEN [dlg EXCEPT !.busy = FALSE, !.started = @ \/ c.status = "ok"] ELSE dlg)
  /\ UNCHANGED <<jobs, openings, excused>>
\* axios gives up after 15 s: the request may still be carried out.
ExecuteTimedOut(c) ==
  /\ c.kind = "execute" /\ c.inst # 0
  /\ net' = (net \ {c}) \cup (IF c.status = "sent" THEN {[c EXCEPT !.inst = 0]} ELSE {})
  /\ dlg' = (IF Mounted(c) THEN [dlg EXCEPT !.busy = FALSE] ELSE dlg)
  /\ UNCHANGED <<jobs, openings, excused>>

---------------------------------------------------------------------------------------------
(* The job runner: the preview finds tasks and completes, an execution ends.                  *)
Runs(i) ==
  /\ \/ /\ jobs[i].phase = "preview" /\ ~jobs[i].complete
        /\ \/ jobs[i].n < MaxCount /\ jobs' = [jobs EXCEPT ![i].n = @ + 1]
           \/ jobs' = [jobs EXCEPT ![i].complete = TRUE]
     \/ jobs[i].phase = "executing" /\ jobs' = [jobs EXCEPT ![i].phase = "done"]
  /\ UNCHANGED <<dlg, net, openings, excused>>

Init ==
  /\ \E v \in Verbs : dlg = [Fresh(v, 0) EXCEPT !.open = FALSE]
  /\ jobs = << >> /\ net = {} /\ openings = 0 /\ excused = {}
Next ==
  \/ \E v \in Verbs : createPreview(v)
  \/ \E c \in net : Created(c) \/ DetailRead(c) \/ DetailAnswered(c) \/ Cancelled(c)
                    \/ RequestExecute(c) \/ ExecuteAnswered(c) \/ ExecuteTimedOut(c)
  \/ liveJob \/ handleClose \/ Unmount \/ setReason \/ setProceedOnPartial \/ handleExecute
  \/ \E k \in Typed : setTypedConfirm(k)
  \/ \E i \in DOMAIN jobs : Runs(i)
Spec == Init /\ [][Next]_modalVars

---------------------------------------------------------------------------------------------
(* Every variable holds a value of its kind; the dialog never shows more tasks than its job    *)
(* found, nor a complete count that is not the job's (BulkJobModal.tsx:105-124).               *)
ModalTypeOK ==
  /\ dlg.verb \in Verbs /\ dlg.inst \in 0..openings /\ dlg.id \in 0..Len(jobs)
  /\ {dlg.open, dlg.reason, dlg.proceedOnPartial, dlg.busy, dlg.started} \subseteq BOOLEAN
  /\ dlg.typedConfirm \in Typed \cup {0} /\ excused \subseteq DOMAIN jobs
  /\ \A i \in DOMAIN jobs :
       jobs[i] \in [verb : Verbs, phase : {"preview", "executing", "done", "canceled"},
                    n : 0..MaxCount, complete : BOOLEAN, typed : Typed \cup {0}, acked : BOOLEAN]
  /\ dlg.id # 0 => /\ dlg.job.n <= jobs[dlg.id].n
                   /\ dlg.job.complete => dlg.job = Snapshot(dlg.id)

\* What runs was confirmed for what it is: a delete has an exact count, and above the threshold
\* the operator typed that very count, though previews stream in out of order and the server
\* does not see the phrase; another verb is exact, or its partial count was acknowledged
\* (lib/bulkjob.ts:95-100).
ExecutedAsConfirmed ==
  \A i \in DOMAIN jobs : jobs[i].phase \in {"executing", "done"} =>
    /\ jobs[i].verb = "delete" => jobs[i].complete
    /\ jobs[i].verb = "delete" /\ jobs[i].n > TYPED_CONFIRM_THRESHOLD => jobs[i].typed = jobs[i].n
    /\ jobs[i].complete \/ jobs[i].acked

\* A dialog waits for one execute at most, none once its job was handed over, and it is busy
\* exactly while it waits (BulkJobModal.tsx:79-81: "started guards double-execute").
HandsOverOnce ==
  dlg.open => LET waits == {c \in net : c.kind = "execute" /\ c.inst = dlg.inst}
              IN /\ Cardinality(waits) <= 1
                 /\ dlg.busy <=> waits # {}
                 /\ dlg.started => waits = {}

\* A preview that is never executed is cancelled on close (BulkJobModal.tsx:123-124): one that
\* still waits belongs to the dialog on screen, or its cancel is on the way, unless the dialog
\* went before it knew the id, was torn down with its view, or the cancel was lost.
NoStrayPreview ==
  \A i \in DOMAIN jobs : jobs[i].phase = "preview" =>
    \/ dlg.open /\ dlg.id = i
    \/ [kind |-> "cancel", id |-> i] \in net
    \/ i \in excused
====
