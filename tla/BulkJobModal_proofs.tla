------------------------- MODULE BulkJobModal_proofs -------------------------
(***************************************************************************)
(* Proofs about BulkJobModal, for every number of openings, requests in    *)
(* flight and tasks: what the dialog shows, what runs was confirmed, a job *)
(* is handed over once, no preview strays.                                 *)
(***************************************************************************)
EXTENDS BulkJobModal, FiniteSetTheorems, TLAPS

-----------------------------------------------------------------------------
(* The invariant *)

Shown == [n : Nat, complete : BOOLEAN]
JobRecords ==
    [verb : Verbs, phase : {"preview", "executing", "done", "canceled"}, n : 0..MaxCount,
     complete : BOOLEAN, typed : Typed \cup {0}, acked : BOOLEAN]
Dialogs ==
    [open : BOOLEAN, inst : Nat, verb : Verbs, id : Nat, job : Shown, reason : BOOLEAN,
     proceedOnPartial : BOOLEAN, typedConfirm : Typed \cup {0}, busy : BOOLEAN, started : BOOLEAN]

Creates == [kind : {"create"}, inst : Nat, verb : Verbs]
Details == [kind : {"detail"}, inst : Nat, id : Nat, job : Shown, read : BOOLEAN]
Cancels == [kind : {"cancel"}, id : Nat]
Executes == [kind : {"execute"}, inst : Nat, id : Nat, status : {"sent", "ok", "refused"},
             acked : BOOLEAN, typed : Typed \cup {0}]

Types ==
    /\ dlg \in Dialogs /\ openings \in Nat /\ jobs \in Seq(JobRecords)
    /\ net \subseteq Creates \cup Details \cup Cancels \cup Executes
    /\ excused \subseteq DOMAIN jobs
    /\ dlg.inst <= openings /\ dlg.id \in 0..Len(jobs) /\ (dlg.open => dlg.inst > 0)
    /\ \A c \in net : /\ c.kind # "create" => c.id \in DOMAIN jobs
                      /\ c.kind # "cancel" => c.inst <= openings

\* What was read of job i: not more tasks than it has, and exact once it is complete.
ReadOf(i, shown) == shown.n <= jobs[i].n /\ (shown.complete => shown = Snapshot(i))

\* What is shown, or on its way to be, was read of the job.
ShowsItsJob ==
    /\ dlg.id # 0 => ReadOf(dlg.id, dlg.job) /\ jobs[dlg.id].verb = dlg.verb
    /\ dlg.id = 0 => dlg.job = Null
    /\ \A c \in net : c.kind = "detail" /\ c.read => ReadOf(c.id, c.job)

\* The requests of the dialog on screen are about its job.
AnswersAreItsOwn ==
    /\ \A c \in net : c.kind = "detail" => dlg.open /\ c.inst = dlg.inst /\ c.id = dlg.id
    /\ \A c \in net : c.kind = "create" /\ Mounted(c) => dlg.id = 0 /\ c.verb = dlg.verb
    /\ \A c, d \in net : c.kind = "create" /\ d.kind = "create" /\ c.inst = d.inst => c = d
    /\ \A c \in net : c.kind = "execute" /\ Mounted(c) => c.id = dlg.id
    /\ \A c \in net : c.kind = "execute" /\ c.status = "ok" => jobs[c.id].phase # "preview"
    /\ dlg.started => dlg.id # 0 /\ jobs[dlg.id].phase # "preview"

\* An execute request in flight has passed the gate of the dialog.
ConfirmedFor(j, typed, acked) ==
    /\ j.verb = "delete" => j.complete
    /\ j.verb = "delete" /\ j.n > TYPED_CONFIRM_THRESHOLD => typed = j.n
    /\ j.complete \/ acked
RequestsAreConfirmed ==
    \A c \in net : c.kind = "execute" => ConfirmedFor(jobs[c.id], c.typed, c.acked)

\* The dialog waits for at most one execute request.
Waits(c) == c.kind = "execute" /\ Mounted(c)
WaitsForOne ==
    dlg.open => /\ \A c, d \in net : Waits(c) /\ Waits(d) => c = d
                /\ dlg.busy <=> \E c \in net : Waits(c)
                /\ dlg.started => \A c \in net : ~Waits(c)

ModalInv ==
    /\ Types /\ ShowsItsJob /\ AnswersAreItsOwn
    /\ ExecutedAsConfirmed /\ RequestsAreConfirmed /\ WaitsForOne /\ NoStrayPreview

\* The kind of a request says what it holds.
LEMMA Kinds ==
    ASSUME Types, NEW c \in net
    PROVE  /\ c.kind = "create" => c \in Creates
           /\ c.kind = "detail" => c \in Details
           /\ c.kind = "cancel" => c \in Cancels
           /\ c.kind = "execute" => c \in Executes
           /\ c.kind \in {"create", "detail", "cancel", "execute"}
BY DEF Types, Creates, Details, Cancels, Executes

-----------------------------------------------------------------------------
(* The initial state, and what the invariant says *)

LEMMA ModalInit == Init => ModalInv
<1> SUFFICES ASSUME Init PROVE ModalInv
  OBVIOUS
<1>1. PICK v \in Verbs : dlg = [Fresh(v, 0) EXCEPT !.open = FALSE]
  BY DEF Init
<1>2. /\ dlg.open = FALSE /\ dlg.inst = 0 /\ dlg.verb = v /\ dlg.id = 0 /\ dlg.job = Null
      /\ dlg.started = FALSE /\ dlg \in Dialogs
  BY <1>1 DEF Fresh, Dialogs, Null, Shown
<1>3. Types
  BY <1>2 DEF Init, Types
<1>4. ShowsItsJob /\ AnswersAreItsOwn /\ RequestsAreConfirmed /\ WaitsForOne
  BY <1>2 DEF Init, ShowsItsJob, AnswersAreItsOwn, RequestsAreConfirmed, WaitsForOne, Null
<1>5. ExecutedAsConfirmed /\ NoStrayPreview
  BY DEF Init, ExecutedAsConfirmed, NoStrayPreview
<1> QED
  BY <1>3, <1>4, <1>5 DEF ModalInv

\* The invariant implies what the runs check.
LEMMA ModalImplies == ModalInv => ModalTypeOK /\ HandsOverOnce
<1> SUFFICES ASSUME ModalInv PROVE ModalTypeOK /\ HandsOverOnce
  OBVIOUS
<1>1. ModalTypeOK
  <2>1. Types /\ ShowsItsJob
    BY DEF ModalInv
  <2>2. /\ dlg.verb \in Verbs /\ dlg.inst \in 0..openings /\ dlg.id \in 0..Len(jobs)
        /\ dlg.typedConfirm \in Typed \cup {0} /\ excused \subseteq DOMAIN jobs
    BY <2>1 DEF Types, Dialogs
  <2>3. {dlg.open, dlg.reason, dlg.proceedOnPartial, dlg.busy, dlg.started} \subseteq BOOLEAN
    BY <2>1 DEF Types, Dialogs
  <2>4. \A i \in DOMAIN jobs : jobs[i] \in JobRecords
    BY <2>1 DEF Types
  <2>5. dlg.id # 0 => /\ dlg.job.n <= jobs[dlg.id].n
                      /\ dlg.job.complete => dlg.job = Snapshot(dlg.id)
    BY <2>1 DEF ShowsItsJob, ReadOf
  <2> QED
    BY <2>2, <2>3, <2>4, <2>5 DEF ModalTypeOK, JobRecords
<1>2. HandsOverOnce
  <2> DEFINE waits == {c \in net : c.kind = "execute" /\ c.inst = dlg.inst}
  <2>1. ASSUME dlg.open
        PROVE  /\ \A c, d \in waits : c = d
               /\ dlg.busy <=> waits # {}
               /\ dlg.started => waits = {}
    BY <2>1 DEF ModalInv, WaitsForOne, Waits, Mounted
  <2>2. ASSUME dlg.open
        PROVE  Cardinality(waits) <= 1
    <3>1. CASE waits = {}
      BY <3>1, FS_EmptySet
    <3>2. CASE waits # {}
      <4>1. PICK c \in waits : waits = {c}
        BY <2>1, <2>2, <3>2
      <4>2. Cardinality({c}) = 1
        BY FS_Singleton
      <4> QED
        BY <4>1, <4>2
    <3> QED
      BY <3>1, <3>2
  <2> QED
    BY <2>1, <2>2 DEF HandsOverOnce
<1> QED
  BY <1>1, <1>2

-----------------------------------------------------------------------------
(* Jobs move on: what was read of one stays true of it *)

Later(j, k) ==
    /\ k.verb = j.verb /\ j.n <= k.n
    /\ j.complete => k.complete /\ k.n = j.n
    /\ j.phase # "preview" => k.phase # "preview"

LEMMA ReadStays ==
    ASSUME Types, jobs' \in Seq(JobRecords), NEW i \in DOMAIN jobs, i \in DOMAIN jobs',
           Later(jobs[i], jobs'[i]), NEW shown \in Shown, ReadOf(i, shown)
    PROVE  ReadOf(i, shown)'
<1>1. jobs[i] \in JobRecords /\ jobs'[i] \in JobRecords
  BY DEF Types
<1>2. jobs[i].n \in Nat /\ jobs'[i].n \in Nat /\ shown.n \in Nat
  BY <1>1, ModalAssumption DEF JobRecords, Shown
<1>3. shown.n <= jobs[i].n /\ jobs[i].n <= jobs'[i].n
  BY DEF ReadOf, Later
<1>4. shown.n <= jobs'[i].n
  BY <1>2, <1>3
<1>5. ASSUME shown.complete
      PROVE  shown = [n |-> jobs'[i].n, complete |-> jobs'[i].complete]
  <2>1. shown = [n |-> jobs[i].n, complete |-> jobs[i].complete]
    BY <1>5 DEF ReadOf, Snapshot
  <2>2. jobs[i].complete
    BY <1>5, <2>1
  <2>3. jobs'[i].complete /\ jobs'[i].n = jobs[i].n
    BY <2>2 DEF Later
  <2>4. jobs'[i].complete = jobs[i].complete
    BY <1>1, <2>2, <2>3 DEF JobRecords
  <2> QED
    BY <2>1, <2>3, <2>4
<1> QED
  BY <1>4, <1>5 DEF ReadOf, Snapshot

LEMMA ConfirmedStays ==
    ASSUME NEW j \in JobRecords, NEW k \in JobRecords, Later(j, k), NEW typed, NEW acked,
           ConfirmedFor(j, typed, acked)
    PROVE  ConfirmedFor(k, typed, acked)
BY DEF Later, ConfirmedFor

\* A step that only moves the jobs on keeps what is said of the dialog and of the requests.
JobsMove ==
    /\ jobs' \in Seq(JobRecords) /\ DOMAIN jobs \subseteq DOMAIN jobs'
    /\ \A i \in DOMAIN jobs : Later(jobs[i], jobs'[i])

LEMMA JobsMoveOn ==
    ASSUME ModalInv, JobsMove
    PROVE  /\ \A i \in DOMAIN jobs : \A shown \in Shown : ReadOf(i, shown) => ReadOf(i, shown)'
           /\ \A c \in net : c.kind = "execute" => ConfirmedFor(jobs'[c.id], c.typed, c.acked)
           /\ \A c \in net : c.kind = "execute" /\ c.status = "ok" => jobs'[c.id].phase # "preview"
<1>0. Types /\ ShowsItsJob /\ AnswersAreItsOwn /\ RequestsAreConfirmed
  BY DEF ModalInv
<1>1. ASSUME NEW i \in DOMAIN jobs, NEW shown \in Shown, ReadOf(i, shown)
      PROVE  ReadOf(i, shown)'
  <2>1. /\ jobs' \in Seq(JobRecords) /\ i \in DOMAIN jobs' /\ Later(jobs[i], jobs'[i])
    BY DEF JobsMove
  <2> QED
    BY <1>0, <1>1, <2>1, ReadStays
<1>2. ASSUME NEW c \in net, c.kind = "execute"
      PROVE  /\ ConfirmedFor(jobs'[c.id], c.typed, c.acked)
             /\ (c.status = "ok" => jobs'[c.id].phase # "preview")
  <2>1. c.id \in DOMAIN jobs
    BY <1>0, <1>2 DEF Types
  <2>2. jobs[c.id] \in JobRecords /\ jobs'[c.id] \in JobRecords /\ Later(jobs[c.id], jobs'[c.id])
    BY <1>0, <2>1 DEF Types, JobsMove
  <2>3. ConfirmedFor(jobs[c.id], c.typed, c.acked)
    BY <1>0, <1>2 DEF RequestsAreConfirmed
  <2>4. c.status = "ok" => jobs[c.id].phase # "preview"
    BY <1>0, <1>2 DEF AnswersAreItsOwn
  <2> QED
    BY <2>2, <2>3, <2>4, ConfirmedStays DEF Later
<1> QED
  BY <1>1, <1>2

-----------------------------------------------------------------------------
(* The steps of the dialog *)

\* The operator edits: reason, acknowledgement and phrase.
LEMMA EditStep ==
    ASSUME ModalInv, setReason \/ setProceedOnPartial \/ \E k \in Typed : setTypedConfirm(k)
    PROVE  ModalInv'
<1>0. /\ Types /\ ShowsItsJob /\ AnswersAreItsOwn
      /\ ExecutedAsConfirmed /\ RequestsAreConfirmed /\ WaitsForOne /\ NoStrayPreview
  BY DEF ModalInv
<1>1. dlg \in Dialogs
  BY <1>0 DEF Types
<1>2. /\ dlg' \in Dialogs /\ dlg'.open = dlg.open /\ dlg'.inst = dlg.inst /\ dlg'.verb = dlg.verb
      /\ dlg'.id = dlg.id /\ dlg'.job = dlg.job /\ dlg'.busy = dlg.busy /\ dlg'.started = dlg.started
  BY <1>1 DEF setReason, setProceedOnPartial, setTypedConfirm, Edit, Dialogs
<1>3. UNCHANGED <<jobs, net, openings, excused>>
  BY DEF setReason, setProceedOnPartial, setTypedConfirm, Edit
<1>4. Types'
  BY <1>0, <1>2, <1>3 DEF Types
<1>5. ShowsItsJob'
  BY <1>0, <1>2, <1>3 DEF ShowsItsJob, ReadOf, Snapshot
<1>6. AnswersAreItsOwn'
  BY <1>0, <1>2, <1>3 DEF AnswersAreItsOwn, Mounted
<1>7. ExecutedAsConfirmed' /\ RequestsAreConfirmed'
  BY <1>0, <1>3 DEF ExecutedAsConfirmed, RequestsAreConfirmed, ConfirmedFor
<1>8. WaitsForOne'
  BY <1>0, <1>2, <1>3 DEF WaitsForOne, Waits, Mounted
<1>9. NoStrayPreview'
  BY <1>0, <1>2, <1>3 DEF NoStrayPreview
<1> QED
  BY <1>4, <1>5, <1>6, <1>7, <1>8, <1>9 DEF ModalInv

\* The feed brings the job.
LEMMA LiveStep ==
    ASSUME ModalInv, liveJob
    PROVE  ModalInv'
<1>0. /\ Types /\ ShowsItsJob /\ AnswersAreItsOwn
      /\ ExecutedAsConfirmed /\ RequestsAreConfirmed /\ WaitsForOne /\ NoStrayPreview
  BY DEF ModalInv
<1>1. dlg \in Dialogs /\ dlg.id \in DOMAIN jobs /\ dlg.id # 0
  BY <1>0 DEF Types, liveJob, Dialogs
<1>2. jobs[dlg.id] \in JobRecords
  BY <1>0, <1>1 DEF Types
<1>3. Snapshot(dlg.id) \in Shown /\ Snapshot(dlg.id).n = jobs[dlg.id].n
  BY <1>2, ModalAssumption DEF Snapshot, Shown, JobRecords
<1>4. dlg' = [dlg EXCEPT !.job = Snapshot(dlg.id)] /\ UNCHANGED <<jobs, net, openings, excused>>
  BY DEF liveJob
<1>5. /\ dlg' \in Dialogs /\ dlg'.open = dlg.open /\ dlg'.inst = dlg.inst /\ dlg'.verb = dlg.verb
      /\ dlg'.id = dlg.id /\ dlg'.busy = dlg.busy /\ dlg'.started = dlg.started
      /\ dlg'.job = Snapshot(dlg.id)
  <2> HIDE DEF Snapshot
  <2> QED
    BY <1>1, <1>3, <1>4 DEF Dialogs
<1>6. Types'
  BY <1>0, <1>4, <1>5 DEF Types
<1>7. ShowsItsJob'
  <2>1. ReadOf(dlg.id, dlg.job)'
    <3>1. jobs[dlg.id].n \in Nat
      BY <1>2, ModalAssumption DEF JobRecords
    <3> QED
      BY <1>3, <1>4, <1>5, <3>1 DEF ReadOf, Snapshot
  <2>2. \A c \in net : c.kind = "detail" /\ c.read => ReadOf(c.id, c.job)'
    BY <1>0, <1>4 DEF ShowsItsJob, ReadOf, Snapshot
  <2> QED
    BY <1>0, <1>1, <1>4, <1>5, <2>1, <2>2 DEF ShowsItsJob
<1>8. AnswersAreItsOwn'
  BY <1>0, <1>4, <1>5 DEF AnswersAreItsOwn, Mounted
<1>9. ExecutedAsConfirmed' /\ RequestsAreConfirmed'
  BY <1>0, <1>4 DEF ExecutedAsConfirmed, RequestsAreConfirmed, ConfirmedFor
<1>10. WaitsForOne'
  BY <1>0, <1>4, <1>5 DEF WaitsForOne, Waits, Mounted
<1>11. NoStrayPreview'
  BY <1>0, <1>4, <1>5 DEF NoStrayPreview
<1> QED
  BY <1>6, <1>7, <1>8, <1>9, <1>10, <1>11 DEF ModalInv

\* The dialog goes, by the operator or with its view.
LEMMA CloseStep ==
    ASSUME ModalInv, handleClose \/ Unmount
    PROVE  ModalInv'
<1>0. /\ Types /\ ShowsItsJob /\ AnswersAreItsOwn
      /\ ExecutedAsConfirmed /\ RequestsAreConfirmed /\ WaitsForOne /\ NoStrayPreview
  BY DEF ModalInv
<1>1. dlg \in Dialogs /\ dlg.open
  BY <1>0 DEF Types, handleClose, Unmount
<1>2. /\ dlg' \in Dialogs /\ dlg'.open = FALSE /\ dlg'.inst = dlg.inst /\ dlg'.id = 0
      /\ dlg'.job = Null /\ dlg'.started = FALSE
  <2>1. dlg' = Gone
    BY DEF handleClose, Unmount
  <2>2. dlg.verb \in Verbs /\ dlg.inst \in Nat
    BY <1>1 DEF Dialogs
  <2> QED
    BY <2>1, <2>2 DEF Gone, Fresh, Dialogs, Null, Shown
<1>3. UNCHANGED <<jobs, openings>>
  BY DEF handleClose, Unmount
<1>4. /\ \A c \in net' : \/ c \in net /\ c.kind # "detail"
                         \/ c = [kind |-> "cancel", id |-> dlg.id] /\ dlg.id # 0
      /\ \A c \in net : c.kind # "detail" => c \in net'
  <2>1. \/ net' = net \ Unread
        \/ net' = (net \ Unread) \cup {[kind |-> "cancel", id |-> dlg.id]} /\ dlg.id # 0
    BY DEF handleClose, Unmount
  <2>2. \A c \in net : c \in Unread <=> c.kind = "detail"
    BY DEF Unread
  <2>3. \A c \in net : c.kind # "detail" => c \in net'
    BY <2>1, <2>2
  <2>4. CASE net' = net \ Unread
    BY <2>2, <2>3, <2>4
  <2>5. CASE net' = (net \ Unread) \cup {[kind |-> "cancel", id |-> dlg.id]} /\ dlg.id # 0
    BY <2>2, <2>3, <2>5
  <2> QED
    BY <2>1, <2>4, <2>5
<1>5. excused' \subseteq DOMAIN jobs /\ excused \subseteq excused'
  BY <1>0 DEF handleClose, Unmount, Types
<1>6. Types'
  <2>1. net' \subseteq Creates \cup Details \cup Cancels \cup Executes
    <3>1. dlg.id \in Nat
      BY <1>1 DEF Dialogs
    <3>2. [kind |-> "cancel", id |-> dlg.id] \in Cancels
      BY <3>1 DEF Cancels
    <3>3. net \subseteq Creates \cup Details \cup Cancels \cup Executes
      BY <1>0 DEF Types
    <3> QED
      BY <1>4, <3>2, <3>3
  <2>2. \A c \in net' : /\ c.kind # "create" => c.id \in DOMAIN jobs'
                        /\ c.kind # "cancel" => c.inst <= openings'
    BY <1>0, <1>3, <1>4 DEF Types
  <2> QED
    BY <1>0, <1>2, <1>3, <1>5, <2>1, <2>2 DEF Types
<1>7. ShowsItsJob'
  BY <1>2, <1>4 DEF ShowsItsJob, Null
<1>8. AnswersAreItsOwn'
  BY <1>0, <1>2, <1>3, <1>4 DEF AnswersAreItsOwn, Mounted
<1>9. ExecutedAsConfirmed' /\ RequestsAreConfirmed'
  BY <1>0, <1>3, <1>4 DEF ExecutedAsConfirmed, RequestsAreConfirmed, ConfirmedFor
<1>10. WaitsForOne'
  BY <1>2 DEF WaitsForOne
<1>11. NoStrayPreview'
  <2> SUFFICES ASSUME NEW i \in DOMAIN jobs, jobs[i].phase = "preview"
               PROVE  [kind |-> "cancel", id |-> i] \in net' \/ i \in excused'
    BY <1>3 DEF NoStrayPreview
  <2>1. CASE dlg.open /\ dlg.id = i
    <3>1. i # 0 /\ ~dlg.started
      BY <1>0, <2>1 DEF AnswersAreItsOwn, Types
    <3> QED
      BY <2>1, <3>1 DEF handleClose, Unmount
  <2>2. CASE [kind |-> "cancel", id |-> i] \in net
    BY <1>4, <2>2
  <2>3. CASE i \in excused
    BY <1>5, <2>3
  <2> QED
    BY <1>0, <2>1, <2>2, <2>3 DEF NoStrayPreview
<1> QED
  BY <1>6, <1>7, <1>8, <1>9, <1>10, <1>11 DEF ModalInv

\* Opening: a new instance, that no request in flight is from.
LEMMA CreatePreviewStep ==
    ASSUME ModalInv, NEW v \in Verbs, createPreview(v)
    PROVE  ModalInv'
<1>0. /\ Types /\ ShowsItsJob /\ AnswersAreItsOwn
      /\ ExecutedAsConfirmed /\ RequestsAreConfirmed /\ WaitsForOne /\ NoStrayPreview
  BY DEF ModalInv
<1> DEFINE new == [kind |-> "create", inst |-> openings + 1, verb |-> v]
<1>1. /\ ~dlg.open /\ openings' = openings + 1 /\ openings \in Nat /\ net' = net \cup {new}
      /\ UNCHANGED <<jobs, excused>>
  BY <1>0 DEF createPreview, Types
<1>2. /\ dlg' \in Dialogs /\ dlg'.open = TRUE /\ dlg'.inst = openings + 1 /\ dlg'.verb = v
      /\ dlg'.id = 0 /\ dlg'.job = Null /\ dlg'.started = FALSE /\ dlg'.busy = FALSE
  BY <1>1 DEF createPreview, Fresh, Dialogs, Null, Shown
<1>3. \A c \in net : c.kind # "cancel" => c.inst \in Nat /\ c.inst <= openings
  <2> SUFFICES ASSUME NEW c \in net, c.kind # "cancel" PROVE c.inst \in Nat /\ c.inst <= openings
    OBVIOUS
  <2>1. c \in Creates \cup Details \cup Executes
    BY <1>0, Kinds
  <2> QED
    BY <1>0, <2>1 DEF Types, Creates, Details, Executes
<1>4. \A c \in net : c.kind # "detail"
  BY <1>0, <1>1 DEF AnswersAreItsOwn
<1>5. Types'
  <2>1. new \in Creates
    BY <1>1 DEF Creates
  <2>2. \A c \in net' : /\ c.kind # "create" => c.id \in DOMAIN jobs'
                        /\ c.kind # "cancel" => c.inst <= openings'
    <3> SUFFICES ASSUME NEW c \in net'
                 PROVE  /\ c.kind # "create" => c.id \in DOMAIN jobs
                        /\ c.kind # "cancel" => c.inst <= openings + 1
      BY <1>1
    <3>1. CASE c = new
      BY <1>1, <3>1
    <3>2. CASE c \in net
      BY <1>0, <1>1, <1>3, <3>2 DEF Types
    <3> QED
      BY <1>1, <3>1, <3>2
  <2>3. net' \subseteq Creates \cup Details \cup Cancels \cup Executes
    BY <1>0, <1>1, <2>1 DEF Types
  <2>4. dlg'.inst <= openings' /\ dlg'.inst > 0 /\ openings' \in Nat
    BY <1>1, <1>2
  <2> QED
    BY <1>0, <1>1, <1>2, <2>2, <2>3, <2>4 DEF Types
<1>6. ShowsItsJob'
  BY <1>1, <1>2, <1>4 DEF ShowsItsJob
<1>7. AnswersAreItsOwn'
  <2>1. \A c \in net' : c.kind = "create" => c = new \/ (c.inst <= openings /\ c.inst \in Nat)
    BY <1>1, <1>3
  <2>2. \A c \in net' : c.kind = "create" /\ c.inst = openings + 1 => c = new
    BY <1>1, <2>1
  <2>3. \A c, d \in net' : c.kind = "create" /\ d.kind = "create" /\ c.inst = d.inst => c = d
    <3> SUFFICES ASSUME NEW c \in net', NEW d \in net', c.kind = "create", d.kind = "create",
                        c.inst = d.inst
                 PROVE  c = d
      OBVIOUS
    <3>1. CASE c.inst = openings + 1
      BY <2>2, <3>1
    <3>2. CASE c.inst # openings + 1
      BY <1>0, <1>1, <3>2 DEF AnswersAreItsOwn
    <3> QED
      BY <3>1, <3>2
  <2>4. \A c \in net' : c.kind = "execute" => c \in net /\ ~(c.inst = openings + 1)
    BY <1>1, <1>3
  <2>5. \A c \in net' : c.kind # "detail"
    BY <1>1, <1>4
  <2>6. \A c \in net' : c.kind = "execute" /\ c.status = "ok" => jobs[c.id].phase # "preview"
    BY <1>0, <2>4 DEF AnswersAreItsOwn
  <2>7. new.verb = v
    OBVIOUS
  <2> HIDE DEF new
  <2> QED
    BY <1>1, <1>2, <2>2, <2>3, <2>4, <2>5, <2>6, <2>7 DEF AnswersAreItsOwn, Mounted
<1>8. ExecutedAsConfirmed'
  BY <1>0, <1>1 DEF ExecutedAsConfirmed
<1>9. RequestsAreConfirmed'
  BY <1>0, <1>1 DEF RequestsAreConfirmed, ConfirmedFor
<1>10. WaitsForOne'
  <2>1. \A c \in net' : ~(c.kind = "execute" /\ c.inst = openings + 1)
    BY <1>1, <1>3
  <2> QED
    BY <1>2, <2>1 DEF WaitsForOne, Waits, Mounted
<1>11. NoStrayPreview'
  BY <1>0, <1>1 DEF NoStrayPreview
<1> QED
  BY <1>5, <1>6, <1>7, <1>8, <1>9, <1>10, <1>11 DEF ModalInv

\* A new job leaves the others as they are.
LEMMA NewJob ==
    ASSUME Types, NEW v \in Verbs, jobs' = Append(jobs, Job(v))
    PROVE  /\ jobs' \in Seq(JobRecords) /\ Len(jobs) \in Nat /\ Len(jobs') = Len(jobs) + 1
           /\ Len(jobs) + 1 \notin DOMAIN jobs
           /\ \A i \in DOMAIN jobs' : i \in DOMAIN jobs \/ i = Len(jobs) + 1
           /\ \A i \in DOMAIN jobs : i \in DOMAIN jobs' /\ jobs'[i] = jobs[i]
           /\ Len(jobs) + 1 \in DOMAIN jobs' /\ jobs'[Len(jobs) + 1] = Job(v)
<1>1. Job(v) \in JobRecords
  BY ModalAssumption DEF Job, JobRecords
<1>2. jobs \in Seq(JobRecords)
  BY DEF Types
<1> HIDE DEF Job
<1>3. jobs' \in Seq(JobRecords) /\ Len(jobs') = Len(jobs) + 1 /\ Len(jobs) \in Nat
  BY <1>1, <1>2
<1>4. DOMAIN jobs = 1..Len(jobs) /\ DOMAIN jobs' = 1..(Len(jobs) + 1)
  BY <1>1, <1>2
<1>5. /\ jobs'[Len(jobs) + 1] = Job(v)
      /\ \A i \in 1..Len(jobs) : jobs'[i] = jobs[i]
  BY <1>1, <1>2
<1> QED
  BY <1>3, <1>4, <1>5

\* The answer to a create, heard or not.
LEMMA CreatedStep ==
    ASSUME ModalInv, NEW c \in net, Created(c)
    PROVE  ModalInv'
<1>0. /\ Types /\ ShowsItsJob /\ AnswersAreItsOwn
      /\ ExecutedAsConfirmed /\ RequestsAreConfirmed /\ WaitsForOne /\ NoStrayPreview
  BY DEF ModalInv
<1>1. c \in Creates /\ c.kind = "create" /\ openings' = openings
  BY <1>0, Kinds DEF Created
<1>2. CASE net' = net \ {c} /\ UNCHANGED <<dlg, jobs, excused>>
  <2>1. Types'
    BY <1>0, <1>1, <1>2 DEF Types
  <2>2. ShowsItsJob'
    BY <1>0, <1>2 DEF ShowsItsJob, ReadOf, Snapshot
  <2>3. AnswersAreItsOwn'
    BY <1>0, <1>2 DEF AnswersAreItsOwn, Mounted
  <2>4. ExecutedAsConfirmed' /\ RequestsAreConfirmed'
    BY <1>0, <1>2 DEF ExecutedAsConfirmed, RequestsAreConfirmed, ConfirmedFor
  <2>5. WaitsForOne'
    BY <1>0, <1>1, <1>2 DEF WaitsForOne, Waits, Mounted
  <2>6. NoStrayPreview'
    BY <1>0, <1>1, <1>2 DEF NoStrayPreview
  <2> QED
    BY <2>1, <2>2, <2>3, <2>4, <2>5, <2>6 DEF ModalInv
<1>3. ASSUME jobs' = Append(jobs, Job(c.verb)),
             \/ /\ Mounted(c) /\ dlg' = [dlg EXCEPT !.id = Len(jobs) + 1]
                /\ net' = (net \ {c}) \cup {[kind |-> "detail", inst |-> c.inst,
                                            id |-> Len(jobs) + 1, job |-> Null, read |-> FALSE]}
                /\ excused' = excused
             \/ net' = net \ {c} /\ excused' = excused \cup {Len(jobs) + 1} /\ dlg' = dlg
      PROVE  ModalInv'
  <2> DEFINE new == Len(jobs) + 1
             d == [kind |-> "detail", inst |-> c.inst, id |-> new, job |-> Null, read |-> FALSE]
  <2>1. /\ jobs' \in Seq(JobRecords) /\ Len(jobs) \in Nat /\ Len(jobs') = new
        /\ new \notin DOMAIN jobs /\ \A i \in DOMAIN jobs' : i \in DOMAIN jobs \/ i = new
        /\ \A i \in DOMAIN jobs : i \in DOMAIN jobs' /\ jobs'[i] = jobs[i]
        /\ new \in DOMAIN jobs' /\ jobs'[new] = Job(c.verb)
    <3>1. c.verb \in Verbs
      BY <1>1 DEF Creates
    <3> QED
      BY <1>0, <1>3, <3>1, NewJob
  <2>2. /\ jobs'[new].phase = "preview" /\ jobs'[new].n = 0 /\ jobs'[new].complete = FALSE
        /\ jobs'[new].verb = c.verb /\ jobs'[new].typed = 0 /\ jobs'[new].acked = FALSE
    BY <2>1 DEF Job
  <2>3. c.inst \in Nat /\ c.inst <= openings /\ new \in Nat /\ new # 0
    BY <1>0, <1>1, <2>1 DEF Types, Creates
  <2>4. d \in Details /\ d.kind = "detail" /\ d.inst = c.inst /\ d.id = new /\ ~d.read
    BY <2>3 DEF Details, Shown, Null
  <2>5. \A e \in net' : e \in net \/ e = d
    BY <1>3
  <2>6. \A e \in net : e.kind # "create" => e \in net'
    BY <1>1, <1>3
  <2>7. \A e \in net : e.kind # "create" => e.id \in DOMAIN jobs
    BY <1>0 DEF Types
  <2>8. \/ /\ Mounted(c) /\ dlg' = [dlg EXCEPT !.id = new] /\ excused' = excused /\ d \in net'
        \/ net' \subseteq net /\ excused' = excused \cup {new} /\ dlg' = dlg
    BY <1>3
  <2>9. dlg \in Dialogs /\ dlg.id \in 0..Len(jobs)
    BY <1>0 DEF Types
  <2>10. c \notin net'
    BY <1>1, <1>3
  <2>11. DOMAIN jobs = 1..Len(jobs)
    BY <1>0 DEF Types
  <2> HIDE DEF new, d
  <2>12. /\ dlg' \in Dialogs /\ dlg'.open = dlg.open /\ dlg'.inst = dlg.inst /\ dlg'.verb = dlg.verb
         /\ dlg'.job = dlg.job /\ dlg'.busy = dlg.busy /\ dlg'.started = dlg.started
         /\ dlg'.id = (IF dlg' = dlg THEN dlg.id ELSE new)
    BY <2>3, <2>8, <2>9 DEF Dialogs
  <2>13. dlg' # dlg => /\ Mounted(c) /\ dlg.id = 0 /\ dlg.job = Null /\ c.verb = dlg.verb
                       /\ ~dlg.started /\ c.inst = dlg.inst /\ dlg.open
    BY <1>0, <1>1, <2>8 DEF AnswersAreItsOwn, ShowsItsJob, Mounted
  <2>14. dlg'.id \in 0..Len(jobs') /\ (dlg'.id # 0 => dlg'.id \in DOMAIN jobs')
    BY <2>1, <2>3, <2>9, <2>11, <2>12
  <2>15. Types'
    <3>1. net' \subseteq Creates \cup Details \cup Cancels \cup Executes
      BY <1>0, <2>4, <2>5 DEF Types
    <3>2. \A e \in net' : /\ e.kind # "create" => e.id \in DOMAIN jobs'
                          /\ e.kind # "cancel" => e.inst <= openings'
      <4> SUFFICES ASSUME NEW e \in net'
                   PROVE  /\ e.kind # "create" => e.id \in DOMAIN jobs'
                          /\ e.kind # "cancel" => e.inst <= openings
        BY <1>1
      <4>1. CASE e = d
        BY <2>1, <2>3, <2>4, <4>1
      <4>2. CASE e \in net
        BY <1>0, <2>1, <4>2 DEF Types
      <4> QED
        BY <2>5, <4>1, <4>2
    <3>3. excused' \subseteq DOMAIN jobs'
      BY <1>0, <2>1, <2>8 DEF Types
    <3> QED
      BY <1>0, <1>1, <2>1, <2>12, <2>14, <3>1, <3>2, <3>3 DEF Types
  <2>16. ShowsItsJob'
    <3>1. CASE dlg' = dlg
      <4>1. dlg.id # 0 => ReadOf(dlg.id, dlg.job)' /\ jobs'[dlg.id].verb = dlg.verb
        BY <1>0, <2>1, <2>9, <2>11, <3>1 DEF ShowsItsJob, ReadOf, Snapshot
      <4>2. \A e \in net' : e.kind = "detail" /\ e.read => ReadOf(e.id, e.job)'
        BY <1>0, <2>1, <2>4, <2>5, <2>7 DEF ShowsItsJob, ReadOf, Snapshot
      <4> QED
        BY <1>0, <3>1, <4>1, <4>2 DEF ShowsItsJob
    <3>2. CASE dlg' # dlg
      <4>1. dlg'.job = Null /\ dlg'.id = new
        BY <2>12, <2>13, <3>2
      <4>2. ReadOf(dlg.id, dlg.job)'
        BY <2>2, <4>1 DEF ReadOf, Snapshot, Null
      <4>3. \A e \in net' : e.kind = "detail" /\ e.read => ReadOf(e.id, e.job)'
        BY <1>0, <2>1, <2>4, <2>5, <2>7 DEF ShowsItsJob, ReadOf, Snapshot
      <4> QED
        BY <2>2, <2>3, <2>12, <2>13, <3>2, <4>1, <4>2, <4>3 DEF ShowsItsJob
    <3> QED
      BY <3>1, <3>2
  <2>17. AnswersAreItsOwn'
    <3>1. \A e \in net' : e.kind = "detail" => dlg'.open /\ e.inst = dlg'.inst /\ e.id = dlg'.id
      <4> SUFFICES ASSUME NEW e \in net', e.kind = "detail"
                   PROVE  dlg'.open /\ e.inst = dlg'.inst /\ e.id = dlg'.id
        OBVIOUS
      <4>1. CASE e \in net
        <5>1. dlg.open /\ e.inst = dlg.inst /\ e.id = dlg.id
          BY <1>0, <4>1 DEF AnswersAreItsOwn
        <5>2. dlg.id # 0
          BY <2>7, <2>11, <4>1, <5>1
        <5> QED
          BY <2>12, <2>13, <5>1, <5>2
      <4>2. CASE e \notin net
        <5>1. e = d /\ Mounted(c) /\ dlg' = [dlg EXCEPT !.id = new]
          BY <2>5, <2>8, <4>2
        <5>2. dlg'.id = new
          BY <2>9, <5>1 DEF Dialogs
        <5> QED
          BY <2>4, <2>12, <5>1, <5>2 DEF Mounted
      <4> QED
        BY <4>1, <4>2
    <3>2. \A e \in net' : e.kind = "create" => e \in net /\ e # c
      BY <2>4, <2>5, <2>10
    <3>3. \A e \in net' : e.kind = "create" /\ Mounted(e)' => dlg'.id = 0 /\ e.verb = dlg'.verb
      <4> SUFFICES ASSUME NEW e \in net', e.kind = "create", Mounted(e)'
                   PROVE  dlg'.id = 0 /\ e.verb = dlg'.verb
        OBVIOUS
      <4>1. Mounted(e) /\ e.inst = dlg.inst
        BY <2>12 DEF Mounted
      <4>2. dlg.id = 0 /\ e.verb = dlg.verb
        BY <1>0, <3>2, <4>1 DEF AnswersAreItsOwn
      <4>3. dlg' = dlg
        BY <1>0, <1>1, <2>13, <3>2, <4>1 DEF AnswersAreItsOwn
      <4> QED
        BY <4>2, <4>3
    <3>4. \A e, f \in net' : e.kind = "create" /\ f.kind = "create" /\ e.inst = f.inst => e = f
      BY <1>0, <3>2 DEF AnswersAreItsOwn
    <3>5. \A e \in net' : e.kind = "execute" => e \in net /\ e.id \in DOMAIN jobs
      BY <2>4, <2>5, <2>7
    <3>6. \A e \in net' : e.kind = "execute" /\ Mounted(e)' => e.id = dlg'.id
      <4> SUFFICES ASSUME NEW e \in net', e.kind = "execute", Mounted(e)'
                   PROVE  e.id = dlg'.id
        OBVIOUS
      <4>1. e.id = dlg.id
        BY <1>0, <2>12, <3>5 DEF AnswersAreItsOwn, Mounted
      <4>2. dlg.id # 0
        BY <2>11, <3>5, <4>1
      <4> QED
        BY <2>13, <4>1, <4>2
    <3>7. \A e \in net' : e.kind = "execute" /\ e.status = "ok" => jobs'[e.id].phase # "preview"
      BY <1>0, <2>1, <3>5 DEF AnswersAreItsOwn
    <3>8. dlg'.started => dlg'.id # 0 /\ jobs'[dlg'.id].phase # "preview"
      <4>1. dlg.started => dlg' = dlg /\ dlg.id # 0 /\ dlg.id \in DOMAIN jobs
        BY <1>0, <2>9, <2>11, <2>13 DEF AnswersAreItsOwn
      <4> QED
        BY <1>0, <2>1, <2>12, <4>1 DEF AnswersAreItsOwn
    <3> QED
      BY <3>1, <3>3, <3>4, <3>6, <3>7, <3>8 DEF AnswersAreItsOwn
  <2>18. ExecutedAsConfirmed'
    BY <1>0, <2>1, <2>2 DEF ExecutedAsConfirmed
  <2>19. RequestsAreConfirmed'
    BY <1>0, <2>1, <2>4, <2>5, <2>7 DEF RequestsAreConfirmed
  <2>20. WaitsForOne'
    <3>1. \A e : e \in net' /\ Waits(e)' <=> e \in net /\ Waits(e)
      BY <1>1, <2>4, <2>5, <2>6, <2>12 DEF Waits, Mounted
    <3> QED
      BY <1>0, <2>12, <3>1 DEF WaitsForOne
  <2>21. NoStrayPreview'
    <3> SUFFICES ASSUME NEW i \in DOMAIN jobs', jobs'[i].phase = "preview"
                 PROVE  \/ dlg'.open /\ dlg'.id = i
                        \/ [kind |-> "cancel", id |-> i] \in net'
                        \/ i \in excused'
      BY DEF NoStrayPreview
    <3>1. CASE i = new
      BY <2>8, <2>3, <2>9, <3>1 DEF Mounted, Dialogs
    <3>2. CASE i \in DOMAIN jobs
      <4>1. \/ dlg.open /\ dlg.id = i
            \/ [kind |-> "cancel", id |-> i] \in net
            \/ i \in excused
        BY <1>0, <2>1, <3>2 DEF NoStrayPreview
      <4>2. i # 0
        BY <2>11, <3>2
      <4> QED
        BY <2>6, <2>8, <2>12, <2>13, <4>1, <4>2
    <3> QED
      BY <2>1, <3>1, <3>2
  <2> QED
    BY <2>15, <2>16, <2>17, <2>18, <2>19, <2>20, <2>21 DEF ModalInv
<1> QED
  BY <1>2, <1>3 DEF Created

\* The server reads a detail.
LEMMA DetailReadStep ==
    ASSUME ModalInv, NEW c \in net, DetailRead(c)
    PROVE  ModalInv'
<1>0. /\ Types /\ ShowsItsJob /\ AnswersAreItsOwn
      /\ ExecutedAsConfirmed /\ RequestsAreConfirmed /\ WaitsForOne /\ NoStrayPreview
  BY DEF ModalInv
<1> DEFINE d == [c EXCEPT !.read = TRUE, !.job = Snapshot(c.id)]
<1>1. c \in Details /\ c.kind = "detail" /\ c.id \in DOMAIN jobs
  BY <1>0, Kinds DEF DetailRead, Types
<1>2. net' = (net \ {c}) \cup {d} /\ UNCHANGED <<dlg, jobs, openings, excused>>
  BY DEF DetailRead
<1>3. jobs[c.id] \in JobRecords
  BY <1>0, <1>1 DEF Types
<1>4. Snapshot(c.id) \in Shown /\ ReadOf(c.id, Snapshot(c.id))
  BY <1>3, ModalAssumption DEF Snapshot, Shown, JobRecords, ReadOf
<1>5. d \in Details /\ d.kind = "detail" /\ d.inst = c.inst /\ d.id = c.id /\ d.job = Snapshot(c.id)
  <2> HIDE DEF Snapshot
  <2> QED
    BY <1>1, <1>4 DEF Details
<1> HIDE DEF d
<1>6. Types'
  BY <1>0, <1>1, <1>2, <1>5 DEF Types
<1>7. ShowsItsJob'
  BY <1>0, <1>2, <1>4, <1>5 DEF ShowsItsJob, ReadOf, Snapshot
<1>8. AnswersAreItsOwn'
  BY <1>0, <1>1, <1>2, <1>5 DEF AnswersAreItsOwn, Mounted
<1>9. ExecutedAsConfirmed' /\ RequestsAreConfirmed'
  BY <1>0, <1>2, <1>5 DEF ExecutedAsConfirmed, RequestsAreConfirmed, ConfirmedFor
<1>10. WaitsForOne'
  BY <1>0, <1>1, <1>2, <1>5 DEF WaitsForOne, Waits, Mounted
<1>11. NoStrayPreview'
  BY <1>0, <1>1, <1>2, <1>5 DEF NoStrayPreview
<1> QED
  BY <1>6, <1>7, <1>8, <1>9, <1>10, <1>11 DEF ModalInv

\* Its answer arrives, over what the feed brought since.
LEMMA DetailAnsweredStep ==
    ASSUME ModalInv, NEW c \in net, DetailAnswered(c)
    PROVE  ModalInv'
<1>0. /\ Types /\ ShowsItsJob /\ AnswersAreItsOwn
      /\ ExecutedAsConfirmed /\ RequestsAreConfirmed /\ WaitsForOne /\ NoStrayPreview
  BY DEF ModalInv
<1>1. /\ c \in Details /\ c.kind = "detail" /\ c.id \in DOMAIN jobs /\ c.id = dlg.id
      /\ c.job \in Shown /\ dlg \in Dialogs
  BY <1>0, Kinds DEF DetailAnswered, Types, AnswersAreItsOwn, Details
<1>2. net' = net \ {c} /\ UNCHANGED <<jobs, openings, excused>>
  BY DEF DetailAnswered
<1>3. /\ dlg' \in Dialogs /\ dlg'.open = dlg.open /\ dlg'.inst = dlg.inst /\ dlg'.verb = dlg.verb
      /\ dlg'.id = dlg.id /\ dlg'.busy = dlg.busy /\ dlg'.started = dlg.started
      /\ dlg'.job = (IF c.read THEN c.job ELSE dlg.job)
  BY <1>1 DEF DetailAnswered, Dialogs
<1>4. dlg.id # 0
  BY <1>0, <1>1 DEF Types
<1>5. Types'
  BY <1>0, <1>2, <1>3 DEF Types
<1>6. ShowsItsJob'
  BY <1>0, <1>1, <1>2, <1>3, <1>4 DEF ShowsItsJob, ReadOf, Snapshot
<1>7. AnswersAreItsOwn'
  BY <1>0, <1>2, <1>3 DEF AnswersAreItsOwn, Mounted
<1>8. ExecutedAsConfirmed' /\ RequestsAreConfirmed'
  BY <1>0, <1>2 DEF ExecutedAsConfirmed, RequestsAreConfirmed, ConfirmedFor
<1>9. WaitsForOne'
  BY <1>0, <1>1, <1>2, <1>3 DEF WaitsForOne, Waits, Mounted
<1>10. NoStrayPreview'
  BY <1>0, <1>1, <1>2, <1>3 DEF NoStrayPreview
<1> QED
  BY <1>5, <1>6, <1>7, <1>8, <1>9, <1>10 DEF ModalInv

\* Execute is pressed: the gate says what the request may count on.
LEMMA ExecuteStep ==
    ASSUME ModalInv, handleExecute
    PROVE  ModalInv'
<1>0. /\ Types /\ ShowsItsJob /\ AnswersAreItsOwn
      /\ ExecutedAsConfirmed /\ RequestsAreConfirmed /\ WaitsForOne /\ NoStrayPreview
  BY DEF ModalInv
<1> DEFINE d == [kind |-> "execute", inst |-> dlg.inst, id |-> dlg.id, status |-> "sent",
                 acked |-> dlg.proceedOnPartial, typed |-> dlg.typedConfirm]
<1>1. /\ dlg \in Dialogs /\ dlg.open /\ ~dlg.started /\ gateExecute(dlg) /\ ~dlg.busy /\ dlg.id # 0
      /\ dlg.id \in DOMAIN jobs /\ dlg.inst <= openings
  BY <1>0 DEF handleExecute, Types
<1>2. net' = net \cup {d} /\ UNCHANGED <<jobs, openings, excused>>
  BY DEF handleExecute
<1>3. /\ dlg' \in Dialogs /\ dlg'.open = dlg.open /\ dlg'.inst = dlg.inst /\ dlg'.verb = dlg.verb
      /\ dlg'.id = dlg.id /\ dlg'.job = dlg.job /\ dlg'.busy = TRUE /\ dlg'.started = dlg.started
  BY <1>1 DEF handleExecute, Dialogs
<1>4. /\ d \in Executes /\ d.kind = "execute" /\ d.inst = dlg.inst /\ d.id = dlg.id /\ d.status = "sent"
      /\ d.acked = dlg.proceedOnPartial /\ d.typed = dlg.typedConfirm
  BY <1>1 DEF Executes, Dialogs
<1>5. ConfirmedFor(jobs[dlg.id], dlg.typedConfirm, dlg.proceedOnPartial)
  <2>1. jobs[dlg.id] \in JobRecords /\ jobs[dlg.id].verb = dlg.verb /\ ReadOf(dlg.id, dlg.job)
    BY <1>0, <1>1 DEF Types, ShowsItsJob
  <2>2. CASE dlg.job.complete
    <3>1. jobs[dlg.id].n = dlg.job.n /\ jobs[dlg.id].complete
      BY <2>1, <2>2 DEF ReadOf, Snapshot
    <3>2. dlg.verb = "delete" /\ dlg.job.n > TYPED_CONFIRM_THRESHOLD /\ dlg.job.n # 0
          => dlg.typedConfirm = dlg.job.n
      BY <1>1, <2>2 DEF gateExecute, typedConfirmPhrase
    <3>3. jobs[dlg.id].n > TYPED_CONFIRM_THRESHOLD => jobs[dlg.id].n # 0
      BY <2>1, ModalAssumption DEF JobRecords
    <3> QED
      BY <2>1, <3>1, <3>2, <3>3 DEF ConfirmedFor
  <2>3. CASE ~dlg.job.complete
    <3>1. dlg.verb # "delete" /\ dlg.proceedOnPartial
      BY <1>1, <2>3 DEF gateExecute
    <3> QED
      BY <2>1, <3>1 DEF ConfirmedFor
  <2> QED
    BY <2>2, <2>3
<1> HIDE DEF d
<1>6. Types'
  BY <1>0, <1>1, <1>2, <1>3, <1>4 DEF Types
<1>7. ShowsItsJob'
  BY <1>0, <1>2, <1>3, <1>4 DEF ShowsItsJob, ReadOf, Snapshot
<1>8. AnswersAreItsOwn'
  BY <1>0, <1>2, <1>3, <1>4 DEF AnswersAreItsOwn, Mounted
<1>9. ExecutedAsConfirmed'
  BY <1>0, <1>2 DEF ExecutedAsConfirmed
<1>10. RequestsAreConfirmed'
  BY <1>0, <1>2, <1>4, <1>5 DEF RequestsAreConfirmed
<1>11. WaitsForOne'
  BY <1>0, <1>1, <1>2, <1>3, <1>4 DEF WaitsForOne, Waits, Mounted
<1>12. NoStrayPreview'
  BY <1>0, <1>2, <1>3, <1>4 DEF NoStrayPreview
<1> QED
  BY <1>6, <1>7, <1>8, <1>9, <1>10, <1>11, <1>12 DEF ModalInv

\* The server answered: whoever is still there and waits hears of it.
LEMMA ExecuteAnsweredStep ==
    ASSUME ModalInv, NEW c \in net, ExecuteAnswered(c)
    PROVE  ModalInv'
<1>0. /\ Types /\ ShowsItsJob /\ AnswersAreItsOwn
      /\ ExecutedAsConfirmed /\ RequestsAreConfirmed /\ WaitsForOne /\ NoStrayPreview
  BY DEF ModalInv
<1>1. c \in Executes /\ c.kind = "execute" /\ c.id \in DOMAIN jobs /\ dlg \in Dialogs
  BY <1>0, Kinds DEF ExecuteAnswered, Types
<1>2. net' = net \ {c} /\ UNCHANGED <<jobs, openings, excused>>
  BY DEF ExecuteAnswered
<1>3. /\ dlg' \in Dialogs /\ dlg'.open = dlg.open /\ dlg'.inst = dlg.inst /\ dlg'.verb = dlg.verb
      /\ dlg'.id = dlg.id /\ dlg'.job = dlg.job
      /\ dlg'.busy = (IF Mounted(c) THEN FALSE ELSE dlg.busy)
      /\ dlg'.started = (IF Mounted(c) THEN dlg.started \/ c.status = "ok" ELSE dlg.started)
  BY <1>1 DEF ExecuteAnswered, Dialogs
<1>4. Types'
  BY <1>0, <1>2, <1>3 DEF Types
<1>5. ShowsItsJob'
  BY <1>0, <1>2, <1>3 DEF ShowsItsJob, ReadOf, Snapshot
<1>6. AnswersAreItsOwn'
  <2>1. dlg'.started => dlg.id # 0 /\ jobs[dlg.id].phase # "preview"
    <3>1. Mounted(c) /\ c.status = "ok" => dlg.id = c.id /\ jobs[c.id].phase # "preview"
      BY <1>0, <1>1 DEF AnswersAreItsOwn
    <3>2. c.id # 0
      BY <1>0, <1>1 DEF Types
    <3> QED
      BY <1>0, <1>3, <3>1, <3>2 DEF AnswersAreItsOwn
  <2> QED
    BY <1>0, <1>2, <1>3, <2>1 DEF AnswersAreItsOwn, Mounted
<1>7. ExecutedAsConfirmed' /\ RequestsAreConfirmed'
  BY <1>0, <1>2 DEF ExecutedAsConfirmed, RequestsAreConfirmed, ConfirmedFor
<1>8. WaitsForOne'
  <2>1. CASE Mounted(c)
    <3>1. Waits(c) /\ dlg.open
      BY <1>1, <2>1 DEF Waits, Mounted
    <3>2. \A d \in net' : ~Waits(d)
      BY <1>0, <1>2, <3>1 DEF WaitsForOne
    <3>3. \A d \in net' : ~Waits(d)'
      BY <1>3, <3>2 DEF Waits, Mounted
    <3> QED
      BY <1>3, <2>1, <3>3 DEF WaitsForOne
  <2>2. CASE ~Mounted(c)
    <3>1. \A d : d \in net' /\ Waits(d)' <=> d \in net /\ Waits(d)
      BY <1>2, <1>3, <2>2 DEF Waits, Mounted
    <3> QED
      BY <1>0, <1>3, <2>2, <3>1 DEF WaitsForOne
  <2> QED
    BY <2>1, <2>2
<1>9. NoStrayPreview'
  BY <1>0, <1>1, <1>2, <1>3 DEF NoStrayPreview
<1> QED
  BY <1>4, <1>5, <1>6, <1>7, <1>8, <1>9 DEF ModalInv

\* The client gave up: the request is nobody's, and may still be carried out.
LEMMA ExecuteTimedOutStep ==
    ASSUME ModalInv, NEW c \in net, ExecuteTimedOut(c)
    PROVE  ModalInv'
<1>0. /\ Types /\ ShowsItsJob /\ AnswersAreItsOwn
      /\ ExecutedAsConfirmed /\ RequestsAreConfirmed /\ WaitsForOne /\ NoStrayPreview
  BY DEF ModalInv
<1> DEFINE d == [c EXCEPT !.inst = 0]
<1>1. /\ c \in Executes /\ c.kind = "execute" /\ c.id \in DOMAIN jobs /\ dlg \in Dialogs
      /\ openings \in Nat /\ (dlg.open => dlg.inst > 0)
  BY <1>0, Kinds DEF ExecuteTimedOut, Types
<1>2. /\ \A e \in net' : e = d \/ e \in net \ {c}
      /\ net \ {c} \subseteq net' /\ c \notin net' /\ UNCHANGED <<jobs, openings, excused>>
  <2>1. c # d
    BY <1>1 DEF ExecuteTimedOut, Executes
  <2> QED
    BY <2>1 DEF ExecuteTimedOut
<1>3. /\ dlg' \in Dialogs /\ dlg'.open = dlg.open /\ dlg'.inst = dlg.inst /\ dlg'.verb = dlg.verb
      /\ dlg'.id = dlg.id /\ dlg'.job = dlg.job /\ dlg'.started = dlg.started
      /\ dlg'.busy = (IF Mounted(c) THEN FALSE ELSE dlg.busy)
  BY <1>1 DEF ExecuteTimedOut, Dialogs
<1>4. /\ d \in Executes /\ d.kind = "execute" /\ d.inst = 0 /\ d.id = c.id
      /\ d.status = c.status /\ d.typed = c.typed /\ d.acked = c.acked
  BY <1>1 DEF Executes
<1> HIDE DEF d
<1>5. ~Mounted(d) /\ ~Mounted(d)'
  BY <1>1, <1>3, <1>4 DEF Mounted
<1>6. Types'
  <2>1. \A e \in net' : /\ e.kind # "create" => e.id \in DOMAIN jobs'
                        /\ e.kind # "cancel" => e.inst <= openings'
    BY <1>0, <1>1, <1>2, <1>4 DEF Types
  <2>2. net' \subseteq Creates \cup Details \cup Cancels \cup Executes
    BY <1>0, <1>2, <1>4 DEF Types
  <2> QED
    BY <1>0, <1>2, <1>3, <2>1, <2>2 DEF Types
<1>7. ShowsItsJob'
  BY <1>0, <1>2, <1>3, <1>4 DEF ShowsItsJob, ReadOf, Snapshot
<1>8. AnswersAreItsOwn'
  <2>1. \A e \in net' : e.kind = "execute" /\ Mounted(e)' => e.id = dlg.id
    BY <1>0, <1>2, <1>3, <1>5 DEF AnswersAreItsOwn, Mounted
  <2>2. \A e \in net' : e.kind = "execute" /\ e.status = "ok" => jobs[e.id].phase # "preview"
    BY <1>0, <1>1, <1>2, <1>4 DEF AnswersAreItsOwn
  <2>3. \A e \in net' : e.kind \in {"create", "detail"} => e \in net
    BY <1>2, <1>4
  <2> QED
    BY <1>0, <1>2, <1>3, <2>1, <2>2, <2>3 DEF AnswersAreItsOwn, Mounted
<1>9. ExecutedAsConfirmed'
  BY <1>0, <1>2 DEF ExecutedAsConfirmed
<1>10. RequestsAreConfirmed'
  BY <1>0, <1>1, <1>2, <1>4 DEF RequestsAreConfirmed
<1>11. WaitsForOne'
  <2>1. CASE Mounted(c)
    <3>1. Waits(c) /\ dlg.open
      BY <1>1, <2>1 DEF Waits, Mounted
    <3>2. \A e \in net \ {c} : ~Waits(e)
      BY <1>0, <3>1 DEF WaitsForOne
    <3>3. \A e \in net' : ~Waits(e)'
      BY <1>2, <1>3, <1>5, <3>2 DEF Waits, Mounted
    <3> QED
      BY <1>3, <2>1, <3>3 DEF WaitsForOne
  <2>2. CASE ~Mounted(c)
    <3>1. \A e : e \in net' /\ Waits(e)' <=> e \in net /\ Waits(e)
      BY <1>2, <1>3, <1>5, <2>2 DEF Waits, Mounted
    <3> QED
      BY <1>0, <1>3, <2>2, <3>1 DEF WaitsForOne
  <2> QED
    BY <2>1, <2>2
<1>12. NoStrayPreview'
  BY <1>0, <1>1, <1>2, <1>3 DEF NoStrayPreview
<1> QED
  BY <1>6, <1>7, <1>8, <1>9, <1>10, <1>11, <1>12 DEF ModalInv

-----------------------------------------------------------------------------
(* The steps of the server: one job moves on *)

\* What a step of one job must show of it, and of the requests, for the invariant to stay.
LEMMA OneJobMoves ==
    ASSUME ModalInv, NEW i \in DOMAIN jobs, NEW k \in JobRecords, Later(jobs[i], k),
           jobs' = [jobs EXCEPT ![i] = k], UNCHANGED <<dlg, openings>>
    PROVE  /\ jobs' \in Seq(JobRecords) /\ DOMAIN jobs' = DOMAIN jobs /\ Len(jobs') = Len(jobs)
           /\ jobs'[i] = k /\ \A j \in DOMAIN jobs \ {i} : jobs'[j] = jobs[j]
           /\ \A j \in DOMAIN jobs : Later(jobs[j], jobs'[j])
           /\ \A j \in DOMAIN jobs : \A shown \in Shown : ReadOf(j, shown) => ReadOf(j, shown)'
           /\ \A c \in net : c.kind = "execute" => ConfirmedFor(jobs'[c.id], c.typed, c.acked)
           /\ \A c \in net : c.kind = "execute" /\ c.status = "ok" => jobs'[c.id].phase # "preview"
           /\ dlg.id # 0 => ReadOf(dlg.id, dlg.job)' /\ jobs'[dlg.id].verb = dlg.verb
           /\ dlg.started => dlg.id # 0 /\ jobs'[dlg.id].phase # "preview"
<1>0. Types /\ ShowsItsJob /\ AnswersAreItsOwn
  BY DEF ModalInv
<1>1. jobs \in Seq(JobRecords)
  BY <1>0 DEF Types
<1>2. /\ jobs' \in Seq(JobRecords) /\ DOMAIN jobs' = DOMAIN jobs /\ Len(jobs') = Len(jobs)
      /\ jobs'[i] = k /\ \A j \in DOMAIN jobs \ {i} : jobs'[j] = jobs[j]
  BY <1>1
<1>3. \A j \in DOMAIN jobs : Later(jobs[j], jobs'[j])
  <2> SUFFICES ASSUME NEW j \in DOMAIN jobs PROVE Later(jobs[j], jobs'[j])
    OBVIOUS
  <2>1. CASE j = i
    BY <1>2, <2>1
  <2>2. CASE j # i
    <3>1. jobs[j] \in JobRecords /\ jobs'[j] = jobs[j]
      BY <1>1, <1>2, <2>2
    <3>2. jobs[j].n \in Nat
      BY <3>1, ModalAssumption DEF JobRecords
    <3> QED
      BY <3>1, <3>2 DEF Later
  <2> QED
    BY <2>1, <2>2
<1>4. JobsMove
  BY <1>2, <1>3 DEF JobsMove
<1>5. /\ \A j \in DOMAIN jobs : \A shown \in Shown : ReadOf(j, shown) => ReadOf(j, shown)'
      /\ \A c \in net : c.kind = "execute" => ConfirmedFor(jobs'[c.id], c.typed, c.acked)
      /\ \A c \in net : c.kind = "execute" /\ c.status = "ok" => jobs'[c.id].phase # "preview"
  BY <1>4, JobsMoveOn
<1>6. dlg.id # 0 => ReadOf(dlg.id, dlg.job)' /\ jobs'[dlg.id].verb = dlg.verb
  <2> SUFFICES ASSUME dlg.id # 0 PROVE ReadOf(dlg.id, dlg.job)' /\ jobs'[dlg.id].verb = dlg.verb
    OBVIOUS
  <2>1. dlg.id \in DOMAIN jobs /\ dlg.job \in Shown
    BY <1>0 DEF Types, Dialogs
  <2>2. ReadOf(dlg.id, dlg.job) /\ jobs[dlg.id].verb = dlg.verb
    BY <1>0 DEF ShowsItsJob
  <2>3. jobs'[dlg.id].verb = dlg.verb
    BY <1>3, <2>1, <2>2 DEF Later
  <2>4. ReadOf(dlg.id, dlg.job)'
    BY <1>5, <2>1, <2>2 DEF ReadOf, Snapshot
  <2> QED
    BY <2>3, <2>4
<1>7. dlg.started => dlg.id # 0 /\ jobs'[dlg.id].phase # "preview"
  BY <1>0, <1>3 DEF AnswersAreItsOwn, Types, Later
<1> QED
  BY <1>2, <1>3, <1>5, <1>6, <1>7

\* A cancel is carried out, or lost.
LEMMA CancelledStep ==
    ASSUME ModalInv, NEW c \in net, Cancelled(c)
    PROVE  ModalInv'
<1>0. /\ Types /\ ShowsItsJob /\ AnswersAreItsOwn
      /\ ExecutedAsConfirmed /\ RequestsAreConfirmed /\ WaitsForOne /\ NoStrayPreview
  BY DEF ModalInv
<1>1. /\ c \in Cancels /\ c.kind = "cancel" /\ c.id \in DOMAIN jobs
      /\ net' = net \ {c} /\ UNCHANGED <<dlg, openings>>
  BY <1>0, Kinds DEF Cancelled, Types
<1>2. c = [kind |-> "cancel", id |-> c.id]
  BY <1>1 DEF Cancels
<1>3. CASE jobs' = jobs /\ excused' = excused \cup {c.id}
  <2>1. Types'
    BY <1>0, <1>1, <1>3 DEF Types
  <2>2. ShowsItsJob'
    BY <1>0, <1>1, <1>3 DEF ShowsItsJob, ReadOf, Snapshot
  <2>3. AnswersAreItsOwn'
    BY <1>0, <1>1, <1>3 DEF AnswersAreItsOwn, Mounted
  <2>4. ExecutedAsConfirmed' /\ RequestsAreConfirmed'
    BY <1>0, <1>1, <1>3 DEF ExecutedAsConfirmed, RequestsAreConfirmed, ConfirmedFor
  <2>5. WaitsForOne'
    BY <1>0, <1>1, <1>3 DEF WaitsForOne, Waits, Mounted
  <2>6. NoStrayPreview'
    BY <1>0, <1>1, <1>2, <1>3 DEF NoStrayPreview
  <2> QED
    BY <2>1, <2>2, <2>3, <2>4, <2>5, <2>6 DEF ModalInv
<1>4. CASE /\ jobs' = [jobs EXCEPT ![c.id].phase = IF @ = "done" THEN @ ELSE "canceled"]
           /\ excused' = excused
  <2> DEFINE j == jobs[c.id]
             k == [j EXCEPT !.phase = IF @ = "done" THEN @ ELSE "canceled"]
  <2>1. j \in JobRecords
    BY <1>0, <1>1 DEF Types
  <2>2. /\ k \in JobRecords /\ k.verb = j.verb /\ k.n = j.n /\ k.complete = j.complete
        /\ k.typed = j.typed /\ k.acked = j.acked
        /\ k.phase \in {"done", "canceled"} /\ (k.phase = "done" => j.phase = "done")
    BY <2>1 DEF JobRecords
  <2>3. jobs' = [jobs EXCEPT ![c.id] = k]
    BY <1>4
  <2>4. Later(j, k)
    <3>1. j.n \in Nat
      BY <2>1, ModalAssumption DEF JobRecords
    <3> QED
      BY <2>2, <3>1 DEF Later
  <2> HIDE DEF k
  <2>5. /\ jobs' \in Seq(JobRecords) /\ DOMAIN jobs' = DOMAIN jobs /\ Len(jobs') = Len(jobs)
        /\ jobs'[c.id] = k /\ \A i \in DOMAIN jobs \ {c.id} : jobs'[i] = jobs[i]
        /\ \A i \in DOMAIN jobs : \A shown \in Shown : ReadOf(i, shown) => ReadOf(i, shown)'
        /\ \A d \in net : d.kind = "execute" => ConfirmedFor(jobs'[d.id], d.typed, d.acked)
        /\ \A d \in net : d.kind = "execute" /\ d.status = "ok" => jobs'[d.id].phase # "preview"
        /\ dlg.id # 0 => ReadOf(dlg.id, dlg.job)' /\ jobs'[dlg.id].verb = dlg.verb
        /\ dlg.started => dlg.id # 0 /\ jobs'[dlg.id].phase # "preview"
    BY <1>1, <2>2, <2>3, <2>4, OneJobMoves
  <2>6. Types'
    BY <1>0, <1>1, <1>4, <2>5 DEF Types
  <2>7. ShowsItsJob'
    <3>1. \A d \in net : d.kind = "detail" /\ d.read => ReadOf(d.id, d.job)'
      <4> SUFFICES ASSUME NEW d \in net, d.kind = "detail", d.read PROVE ReadOf(d.id, d.job)'
        OBVIOUS
      <4>1. ReadOf(d.id, d.job) /\ d.id \in DOMAIN jobs /\ d.job \in Shown
        BY <1>0, Kinds DEF ShowsItsJob, Types, Details
      <4> QED
        BY <2>5, <4>1 DEF ReadOf, Snapshot
    <3> QED
      BY <1>0, <1>1, <2>5, <3>1 DEF ShowsItsJob, ReadOf, Snapshot
  <2>8. AnswersAreItsOwn'
    <3>1. \A d \in net : d.kind = "execute" /\ d.status = "ok" => jobs'[d.id].phase # "preview"
      BY <2>5
    <3>2. dlg.started => dlg.id # 0 /\ jobs'[dlg.id].phase # "preview"
      BY <2>5
    <3> QED
      BY <1>0, <1>1, <3>1, <3>2 DEF AnswersAreItsOwn, Mounted
  <2>9. ExecutedAsConfirmed'
    <3> SUFFICES ASSUME NEW i \in DOMAIN jobs, jobs'[i].phase \in {"executing", "done"}
                 PROVE  /\ jobs'[i].verb = "delete" => jobs'[i].complete
                        /\ jobs'[i].verb = "delete" /\ jobs'[i].n > TYPED_CONFIRM_THRESHOLD
                           => jobs'[i].typed = jobs'[i].n
                        /\ jobs'[i].complete \/ jobs'[i].acked
      BY <2>5 DEF ExecutedAsConfirmed
    <3>1. CASE i = c.id
      BY <1>0, <2>2, <2>5, <3>1 DEF ExecutedAsConfirmed
    <3>2. CASE i # c.id
      BY <1>0, <2>5, <3>2 DEF ExecutedAsConfirmed
    <3> QED
      BY <3>1, <3>2
  <2>10. RequestsAreConfirmed'
    <3>1. \A d \in net : d.kind = "execute" => ConfirmedFor(jobs'[d.id], d.typed, d.acked)
      BY <2>5
    <3> QED
      BY <1>1, <3>1 DEF RequestsAreConfirmed
  <2>11. WaitsForOne'
    BY <1>0, <1>1 DEF WaitsForOne, Waits, Mounted
  <2>12. NoStrayPreview'
    <3> SUFFICES ASSUME NEW i \in DOMAIN jobs, jobs'[i].phase = "preview"
                 PROVE  \/ dlg'.open /\ dlg'.id = i
                        \/ [kind |-> "cancel", id |-> i] \in net'
                        \/ i \in excused'
      BY <2>5 DEF NoStrayPreview
    <3>1. i # c.id
      BY <2>2, <2>5
    <3>2. jobs[i].phase = "preview" /\ [kind |-> "cancel", id |-> i] # c
      BY <1>2, <2>5, <3>1
    <3> QED
      BY <1>0, <1>1, <1>4, <3>2 DEF NoStrayPreview
  <2> QED
    BY <2>6, <2>7, <2>8, <2>9, <2>10, <2>11, <2>12 DEF ModalInv
<1> QED
  BY <1>3, <1>4 DEF Cancelled

\* The server takes the request up, or refuses it.
LEMMA RequestExecuteStep ==
    ASSUME ModalInv, NEW c \in net, RequestExecute(c)
    PROVE  ModalInv'
<1>0. /\ Types /\ ShowsItsJob /\ AnswersAreItsOwn
      /\ ExecutedAsConfirmed /\ RequestsAreConfirmed /\ WaitsForOne /\ NoStrayPreview
  BY DEF ModalInv
<1> DEFINE j == jobs[c.id]
           ok == j.phase = "preview" /\ (j.complete \/ (j.verb # "delete" /\ c.acked))
           d == [c EXCEPT !.status = IF ok THEN "ok" ELSE "refused"]
           k == IF ok THEN [j EXCEPT !.phase = "executing", !.typed = c.typed, !.acked = c.acked] ELSE j
<1>1. /\ c \in Executes /\ c.kind = "execute" /\ c.id \in DOMAIN jobs /\ c.status = "sent"
      /\ dlg \in Dialogs /\ j \in JobRecords /\ jobs \in Seq(JobRecords)
  BY <1>0, Kinds DEF RequestExecute, Types
<1>2. /\ \A e \in net' : e = d \/ e \in net \ {c}
      /\ net \ {c} \subseteq net' /\ d \in net' /\ UNCHANGED <<dlg, openings, excused>>
  BY DEF RequestExecute
<1>3. /\ d \in Executes /\ d.kind = "execute" /\ d.inst = c.inst /\ d.id = c.id
      /\ d.typed = c.typed /\ d.acked = c.acked /\ d.status = (IF ok THEN "ok" ELSE "refused")
  <2> HIDE DEF ok
  <2> QED
    BY <1>1 DEF Executes
<1>4. /\ k \in JobRecords /\ k.verb = j.verb /\ k.n = j.n /\ k.complete = j.complete
      /\ (ok => k.phase = "executing" /\ k.typed = c.typed /\ k.acked = c.acked)
      /\ (~ok => k = j)
  <2> HIDE DEF ok
  <2>1. c.typed \in Typed \cup {0} /\ c.acked \in BOOLEAN
    BY <1>1 DEF Executes
  <2> QED
    BY <1>1, <2>1 DEF JobRecords
<1>5. Later(j, k)
  <2>1. j.n \in Nat
    BY <1>1, ModalAssumption DEF JobRecords
  <2> HIDE DEF k
  <2> QED
    BY <1>4, <2>1 DEF Later
<1>6. jobs' = [jobs EXCEPT ![c.id] = k]
  <2>1. CASE ok
    BY <2>1 DEF RequestExecute
  <2>2. CASE ~ok
    <3>1. jobs' = jobs /\ k = jobs[c.id]
      BY <2>2 DEF RequestExecute
    <3> HIDE DEF k
    <3> QED
      BY <1>1, <3>1
  <2> QED
    BY <2>1, <2>2
<1> HIDE DEF k, d
<1>7. /\ jobs' \in Seq(JobRecords) /\ DOMAIN jobs' = DOMAIN jobs /\ Len(jobs') = Len(jobs)
      /\ jobs'[c.id] = k /\ \A i \in DOMAIN jobs \ {c.id} : jobs'[i] = jobs[i]
      /\ \A i \in DOMAIN jobs : \A shown \in Shown : ReadOf(i, shown) => ReadOf(i, shown)'
      /\ \A e \in net : e.kind = "execute" => ConfirmedFor(jobs'[e.id], e.typed, e.acked)
      /\ \A e \in net : e.kind = "execute" /\ e.status = "ok" => jobs'[e.id].phase # "preview"
      /\ dlg.id # 0 => ReadOf(dlg.id, dlg.job)' /\ jobs'[dlg.id].verb = dlg.verb
      /\ dlg.started => dlg.id # 0 /\ jobs'[dlg.id].phase # "preview"
  <2>1. UNCHANGED <<dlg, openings>>
    BY <1>2
  <2> QED
    BY <1>1, <1>4, <1>5, <1>6, <2>1, OneJobMoves
<1>8. \A e \in net' : e.kind \in {"create", "detail", "cancel"} => e \in net
  BY <1>2, <1>3
<1>9. Types'
  <2>1. \A e \in net' : /\ e.kind # "create" => e.id \in DOMAIN jobs'
                        /\ e.kind # "cancel" => e.inst <= openings'
    BY <1>0, <1>1, <1>2, <1>3, <1>7 DEF Types
  <2>2. net' \subseteq Creates \cup Details \cup Cancels \cup Executes
    BY <1>0, <1>2, <1>3 DEF Types
  <2> QED
    BY <1>0, <1>2, <1>7, <2>1, <2>2 DEF Types
<1>10. ShowsItsJob'
  <2>1. \A e \in net : e.kind = "detail" /\ e.read => ReadOf(e.id, e.job)'
    <3> SUFFICES ASSUME NEW e \in net, e.kind = "detail", e.read PROVE ReadOf(e.id, e.job)'
      OBVIOUS
    <3>1. ReadOf(e.id, e.job) /\ e.id \in DOMAIN jobs /\ e.job \in Shown
      BY <1>0, Kinds DEF ShowsItsJob, Types, Details
    <3> QED
      BY <1>7, <3>1 DEF ReadOf, Snapshot
  <2>2. \A e \in net' : e.kind = "detail" => e \in net
    BY <1>8
  <2>3. dlg.id # 0 => ReadOf(dlg.id, dlg.job)' /\ jobs'[dlg.id].verb = dlg.verb
    BY <1>7
  <2> QED
    BY <1>0, <1>2, <2>1, <2>2, <2>3 DEF ShowsItsJob, ReadOf, Snapshot
<1>11. AnswersAreItsOwn'
  <2>1. \A e \in net' : e.kind = "execute" /\ e.status = "ok" => jobs'[e.id].phase # "preview"
    <3> SUFFICES ASSUME NEW e \in net', e.kind = "execute", e.status = "ok"
                 PROVE  jobs'[e.id].phase # "preview"
      OBVIOUS
    <3>1. CASE e = d
      <4>1. jobs'[e.id].phase = "executing"
        BY <1>3, <1>4, <1>7, <3>1
      <4> QED
        BY <4>1
    <3>2. CASE e \in net
      BY <1>7, <3>2
    <3> QED
      BY <1>2, <3>1, <3>2
  <2>2. dlg.started => dlg.id # 0 /\ jobs'[dlg.id].phase # "preview"
    BY <1>7
  <2>3. \A e \in net' : e.kind = "execute" /\ Mounted(e) => e.id = dlg.id
    BY <1>0, <1>1, <1>2, <1>3 DEF AnswersAreItsOwn, Mounted
  <2>4. \A e \in net' : e.kind \in {"create", "detail"} => e \in net
    BY <1>8
  <2> QED
    BY <1>0, <1>2, <2>1, <2>2, <2>3, <2>4 DEF AnswersAreItsOwn, Mounted
<1>12. ExecutedAsConfirmed'
  <2> SUFFICES ASSUME NEW i \in DOMAIN jobs, jobs'[i].phase \in {"executing", "done"}
               PROVE  /\ jobs'[i].verb = "delete" => jobs'[i].complete
                      /\ jobs'[i].verb = "delete" /\ jobs'[i].n > TYPED_CONFIRM_THRESHOLD
                         => jobs'[i].typed = jobs'[i].n
                      /\ jobs'[i].complete \/ jobs'[i].acked
    BY <1>7 DEF ExecutedAsConfirmed
  <2>1. CASE i = c.id /\ ok
    <3>1. ConfirmedFor(k, c.typed, c.acked) /\ k.typed = c.typed /\ k.acked = c.acked
      BY <1>1, <1>4, <1>7, <2>1
    <3> QED
      BY <1>7, <2>1, <3>1 DEF ConfirmedFor
  <2>2. CASE ~(i = c.id /\ ok)
    <3>1. jobs'[i] = jobs[i]
      BY <1>4, <1>7, <2>2
    <3> QED
      BY <1>0, <3>1 DEF ExecutedAsConfirmed
  <2> QED
    BY <2>1, <2>2
<1>13. RequestsAreConfirmed'
  <2>1. \A e \in net : e.kind = "execute" => ConfirmedFor(jobs'[e.id], e.typed, e.acked)
    BY <1>7
  <2> QED
    BY <1>1, <1>2, <1>3, <2>1 DEF RequestsAreConfirmed
<1>14. WaitsForOne'
  <2>1. Waits(d) <=> Waits(c)
    BY <1>1, <1>3 DEF Waits, Mounted
  <2>2. \A e \in net' : Waits(e)' <=> Waits(e)
    BY <1>2 DEF Waits, Mounted
  <2>3. ASSUME NEW e \in net', NEW f \in net', dlg.open, Waits(e), Waits(f)
        PROVE  e = f
    <3>1. \A g, h \in net : Waits(g) /\ Waits(h) => g = h
      BY <1>0, <2>3 DEF WaitsForOne
    <3>2. CASE Waits(c)
      <4>1. \A g \in net \ {c} : ~Waits(g)
        BY <3>1, <3>2
      <4> QED
        BY <1>2, <2>3, <4>1
    <3>3. CASE ~Waits(c)
      BY <1>2, <2>1, <2>3, <3>1, <3>3
    <3> QED
      BY <3>2, <3>3
  <2>4. (\E e \in net' : Waits(e)) <=> \E e \in net : Waits(e)
    BY <1>2, <2>1
  <2> QED
    BY <1>0, <1>2, <2>2, <2>3, <2>4 DEF WaitsForOne
<1>15. NoStrayPreview'
  <2> SUFFICES ASSUME NEW i \in DOMAIN jobs, jobs'[i].phase = "preview"
               PROVE  \/ dlg'.open /\ dlg'.id = i
                      \/ [kind |-> "cancel", id |-> i] \in net'
                      \/ i \in excused'
    BY <1>7 DEF NoStrayPreview
  <2>1. jobs[i].phase = "preview"
    BY <1>4, <1>7
  <2>2. [kind |-> "cancel", id |-> i] # c
    BY <1>1
  <2> QED
    BY <1>0, <1>2, <2>1, <2>2 DEF NoStrayPreview
<1> QED
  BY <1>9, <1>10, <1>11, <1>12, <1>13, <1>14, <1>15 DEF ModalInv

\* The job runner counts, or ends an execution.
LEMMA RunsStep ==
    ASSUME ModalInv, NEW i \in DOMAIN jobs, Runs(i)
    PROVE  ModalInv'
<1>0. /\ Types /\ ShowsItsJob /\ AnswersAreItsOwn
      /\ ExecutedAsConfirmed /\ RequestsAreConfirmed /\ WaitsForOne /\ NoStrayPreview
  BY DEF ModalInv
<1>1. jobs[i] \in JobRecords /\ jobs \in Seq(JobRecords) /\ UNCHANGED <<dlg, net, openings, excused>>
  BY <1>0 DEF Types, Runs
<1>2. jobs[i].n \in 0..MaxCount /\ jobs[i].n \in Nat /\ MaxCount \in Nat
  BY <1>1, ModalAssumption DEF JobRecords
<1>3. PICK k \in JobRecords :
        /\ jobs' = [jobs EXCEPT ![i] = k] /\ Later(jobs[i], k)
        /\ k.typed = jobs[i].typed /\ k.acked = jobs[i].acked
        /\ k.phase = "preview" => jobs[i].phase = "preview"
        /\ k.phase \in {"executing", "done"} =>
             /\ jobs[i].phase \in {"executing", "done"}
             /\ k.n = jobs[i].n /\ k.complete = jobs[i].complete
  <2>1. CASE /\ jobs[i].phase = "preview" /\ ~jobs[i].complete /\ jobs[i].n < MaxCount
             /\ jobs' = [jobs EXCEPT ![i].n = @ + 1]
    <3> DEFINE k == [jobs[i] EXCEPT !.n = @ + 1]
    <3>1. jobs[i].n + 1 \in 0..MaxCount /\ jobs[i].n <= jobs[i].n + 1
      BY <1>2, <2>1
    <3>2. /\ k \in JobRecords /\ k.n = jobs[i].n + 1 /\ k.phase = "preview" /\ k.verb = jobs[i].verb
          /\ k.typed = jobs[i].typed /\ k.acked = jobs[i].acked
      BY <1>1, <2>1, <3>1 DEF JobRecords
    <3>3. jobs' = [jobs EXCEPT ![i] = k]
      BY <2>1
    <3> HIDE DEF k
    <3> QED
      BY <2>1, <3>1, <3>2, <3>3 DEF Later
  <2>2. CASE /\ jobs[i].phase = "preview" /\ ~jobs[i].complete
             /\ jobs' = [jobs EXCEPT ![i].complete = TRUE]
    <3> DEFINE k == [jobs[i] EXCEPT !.complete = TRUE]
    <3>1. /\ k \in JobRecords /\ k.n = jobs[i].n /\ k.phase = "preview" /\ k.verb = jobs[i].verb
          /\ k.typed = jobs[i].typed /\ k.acked = jobs[i].acked
      BY <1>1, <2>2 DEF JobRecords
    <3>2. jobs' = [jobs EXCEPT ![i] = k]
      BY <2>2
    <3> HIDE DEF k
    <3>3. Later(jobs[i], k)
      <4>1. jobs[i].n <= jobs[i].n
        BY <1>2
      <4> QED
        BY <2>2, <3>1, <4>1 DEF Later
    <3> QED
      BY <2>2, <3>1, <3>2, <3>3
  <2>3. CASE jobs[i].phase = "executing" /\ jobs' = [jobs EXCEPT ![i].phase = "done"]
    <3> DEFINE k == [jobs[i] EXCEPT !.phase = "done"]
    <3>1. /\ k \in JobRecords /\ k.n = jobs[i].n /\ k.phase = "done" /\ k.verb = jobs[i].verb
          /\ k.complete = jobs[i].complete /\ k.typed = jobs[i].typed /\ k.acked = jobs[i].acked
      BY <1>1, <2>3 DEF JobRecords
    <3>2. jobs' = [jobs EXCEPT ![i] = k]
      BY <2>3
    <3> HIDE DEF k
    <3>3. Later(jobs[i], k)
      <4>1. jobs[i].n <= jobs[i].n
        BY <1>2
      <4> QED
        BY <2>3, <3>1, <4>1 DEF Later
    <3> QED
      BY <2>3, <3>1, <3>2, <3>3
  <2> QED
    BY <2>1, <2>2, <2>3 DEF Runs
<1>4. /\ jobs' \in Seq(JobRecords) /\ DOMAIN jobs' = DOMAIN jobs /\ Len(jobs') = Len(jobs)
      /\ jobs'[i] = k /\ \A j \in DOMAIN jobs \ {i} : jobs'[j] = jobs[j]
      /\ \A j \in DOMAIN jobs : \A shown \in Shown : ReadOf(j, shown) => ReadOf(j, shown)'
      /\ \A e \in net : e.kind = "execute" => ConfirmedFor(jobs'[e.id], e.typed, e.acked)
      /\ \A e \in net : e.kind = "execute" /\ e.status = "ok" => jobs'[e.id].phase # "preview"
      /\ dlg.id # 0 => ReadOf(dlg.id, dlg.job)' /\ jobs'[dlg.id].verb = dlg.verb
      /\ dlg.started => dlg.id # 0 /\ jobs'[dlg.id].phase # "preview"
  <2>1. UNCHANGED <<dlg, openings>>
    BY <1>1
  <2> QED
    BY <1>3, <2>1, OneJobMoves
<1>5. Types'
  BY <1>0, <1>1, <1>4 DEF Types
<1>6. ShowsItsJob'
  <2>1. \A e \in net : e.kind = "detail" /\ e.read => ReadOf(e.id, e.job)'
    <3> SUFFICES ASSUME NEW e \in net, e.kind = "detail", e.read PROVE ReadOf(e.id, e.job)'
      OBVIOUS
    <3>1. ReadOf(e.id, e.job) /\ e.id \in DOMAIN jobs /\ e.job \in Shown
      BY <1>0, Kinds DEF ShowsItsJob, Types, Details
    <3> QED
      BY <1>4, <3>1 DEF ReadOf, Snapshot
  <2>2. dlg.id # 0 => ReadOf(dlg.id, dlg.job)' /\ jobs'[dlg.id].verb = dlg.verb
    BY <1>4
  <2> QED
    BY <1>0, <1>1, <2>1, <2>2 DEF ShowsItsJob, ReadOf, Snapshot
<1>7. AnswersAreItsOwn'
  <2>1. \A e \in net : e.kind = "execute" /\ e.status = "ok" => jobs'[e.id].phase # "preview"
    BY <1>4
  <2>2. dlg.started => dlg.id # 0 /\ jobs'[dlg.id].phase # "preview"
    BY <1>4
  <2> QED
    BY <1>0, <1>1, <2>1, <2>2 DEF AnswersAreItsOwn, Mounted
<1>8. ExecutedAsConfirmed'
  <2> SUFFICES ASSUME NEW j \in DOMAIN jobs, jobs'[j].phase \in {"executing", "done"}
               PROVE  /\ jobs'[j].verb = "delete" => jobs'[j].complete
                      /\ jobs'[j].verb = "delete" /\ jobs'[j].n > TYPED_CONFIRM_THRESHOLD
                         => jobs'[j].typed = jobs'[j].n
                      /\ jobs'[j].complete \/ jobs'[j].acked
    BY <1>4 DEF ExecutedAsConfirmed
  <2>1. CASE j = i
    BY <1>0, <1>3, <1>4, <2>1 DEF ExecutedAsConfirmed, Later
  <2>2. CASE j # i
    BY <1>0, <1>4, <2>2 DEF ExecutedAsConfirmed
  <2> QED
    BY <2>1, <2>2
<1>9. RequestsAreConfirmed'
  <2>1. \A e \in net : e.kind = "execute" => ConfirmedFor(jobs'[e.id], e.typed, e.acked)
    BY <1>4
  <2> QED
    BY <1>1, <2>1 DEF RequestsAreConfirmed
<1>10. WaitsForOne'
  BY <1>0, <1>1 DEF WaitsForOne, Waits, Mounted
<1>11. NoStrayPreview'
  BY <1>0, <1>1, <1>3, <1>4 DEF NoStrayPreview
<1> QED
  BY <1>5, <1>6, <1>7, <1>8, <1>9, <1>10, <1>11 DEF ModalInv

-----------------------------------------------------------------------------
(* The theorems *)

LEMMA ModalStep == ModalInv /\ [Next]_modalVars => ModalInv'
<1> SUFFICES ASSUME ModalInv, [Next]_modalVars PROVE ModalInv'
  OBVIOUS
<1>1. CASE \E v \in Verbs : createPreview(v)
  BY <1>1, CreatePreviewStep
<1>2. ASSUME NEW c \in net,
             Created(c) \/ DetailRead(c) \/ DetailAnswered(c) \/ Cancelled(c)
             \/ RequestExecute(c) \/ ExecuteAnswered(c) \/ ExecuteTimedOut(c)
      PROVE  ModalInv'
  BY <1>2, CreatedStep, DetailReadStep, DetailAnsweredStep, CancelledStep, RequestExecuteStep,
     ExecuteAnsweredStep, ExecuteTimedOutStep
<1>3. CASE liveJob \/ handleClose \/ Unmount \/ handleExecute
  BY <1>3, LiveStep, CloseStep, ExecuteStep
<1>4. CASE setReason \/ setProceedOnPartial \/ \E k \in Typed : setTypedConfirm(k)
  BY <1>4, EditStep
<1>5. CASE \E i \in DOMAIN jobs : Runs(i)
  BY <1>5, RunsStep
<1>6. CASE UNCHANGED modalVars
  BY <1>6 DEF ModalInv, modalVars, Types, ShowsItsJob, ReadOf, Snapshot, AnswersAreItsOwn, Mounted,
     ExecutedAsConfirmed, RequestsAreConfirmed, ConfirmedFor, WaitsForOne, Waits, NoStrayPreview
<1> QED
  BY <1>1, <1>2, <1>3, <1>4, <1>5, <1>6 DEF Next

\* Every variable keeps to its kind, and the dialog never shows more than its job found, nor a
\* complete count that is not the job's (BulkJobModal.tsx:105-124).
THEOREM ModalTypeCorrect == Spec => []ModalTypeOK
<1>1. Init => ModalInv
  BY ModalInit
<1>2. ModalInv /\ [Next]_modalVars => ModalInv'
  BY ModalStep
<1>3. ModalInv => ModalTypeOK
  BY ModalImplies
<1> QED
  BY <1>1, <1>2, <1>3, PTL DEF Spec

\* What runs was confirmed for what it is (lib/bulkjob.ts:95-100).
THEOREM RunsAsConfirmed == Spec => []ExecutedAsConfirmed
<1>1. Init => ModalInv
  BY ModalInit
<1>2. ModalInv /\ [Next]_modalVars => ModalInv'
  BY ModalStep
<1>3. ModalInv => ExecutedAsConfirmed
  BY DEF ModalInv
<1> QED
  BY <1>1, <1>2, <1>3, PTL DEF Spec

\* A dialog hands its job over once, whatever answers late (BulkJobModal.tsx:79-81).
THEOREM DialogHandsOverOnce == Spec => []HandsOverOnce
<1>1. Init => ModalInv
  BY ModalInit
<1>2. ModalInv /\ [Next]_modalVars => ModalInv'
  BY ModalStep
<1>3. ModalInv => HandsOverOnce
  BY ModalImplies
<1> QED
  BY <1>1, <1>2, <1>3, PTL DEF Spec

\* A preview nobody executes is cancelled, or one of the known ways lost it
\* (BulkJobModal.tsx:123-124).
THEOREM PreviewsAreCancelled == Spec => []NoStrayPreview
<1>1. Init => ModalInv
  BY ModalInit
<1>2. ModalInv /\ [Next]_modalVars => ModalInv'
  BY ModalStep
<1>3. ModalInv => NoStrayPreview
  BY DEF ModalInv
<1> QED
  BY <1>1, <1>2, <1>3, PTL DEF Spec
===============================================================================
