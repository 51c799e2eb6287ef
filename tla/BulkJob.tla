------------------------------- MODULE BulkJob -------------------------------
(***************************************************************************)
(* One bulk job (package jobs): the hash, the candidate list and the lease *)
(* that Redis keeps for it, the replicas whose runners claim and work it,  *)
(* and the HTTP handlers that request execute, cancel, pause and resume.   *)
(*                                                                         *)
(* A handler reads the job and then writes; a runner works on a snapshot   *)
(* of the job and writes batches under the fencing token of its claim.     *)
(* Every Redis call is a step.  A page of the enumeration holds one        *)
(* candidate (pages that match nothing only move the cursor; page 0 stands *)
(* for freezing the list of queues to walk); a task is "in" the scope,     *)
(* "out" of it (in another state) or "gone".                               *)
(***************************************************************************)
EXTENDS Integers, Sequences, FiniteSets

CONSTANTS
    Runners,        \* instance IDs of the replicas
    NoOne,          \* the value of an absent lease key
    Handlers,       \* HTTP requests that may be in progress at once
    Verbs,          \* verbs jobs are created with: "archive" (run is alike), "delete", "count"
    Ops,            \* what the operators of this instance ask for
    Scopes,         \* how many pages the scope of the job may have
    ExecBatch,      \* candidates acted on per batch
    MaxCandidates,  \* cap on the candidate list
    MaxClaims,      \* bound: claims
    MaxRequests,    \* bound: requests
    MaxMoves,       \* bound: tasks that others move or delete
    MaxFaults       \* bound: failed calls, crashes, stops, leases lost by a live runner

ASSUME JobAssumption ==
    /\ NoOne \notin Runners
    /\ IsFiniteSet(Runners)
    /\ Verbs \subseteq {"archive", "delete", "count"}
    /\ Ops \subseteq {"execute", "cancel", "pause", "resume"}
    /\ Scopes \subseteq Nat
    /\ ExecBatch \in Nat \ {0}
    /\ MaxCandidates \in Nat
    /\ MaxClaims \in Nat
    /\ MaxRequests \in Nat
    /\ MaxMoves \in Nat
    /\ MaxFaults \in Nat

VARIABLES
    job,       \* the job hash
    cands,     \* the candidate list
    lease,     \* the lease key: the claiming runner, or NoOne
    task,      \* asynq: what became of each task of the scope, in listing order
    pending,   \* what each handler is about to write
    mode,      \* "on", "stopping", "off", "dead"
    pc,        \* where the runner is
    tok,       \* the fencing token of its claim (0: none)
    lost,      \* claimSession.lost: the renewal failed
    mine,      \* the runner's snapshot of the job
    chunk,     \* the batch being acted on: its size, and what is left of it
    acts,      \* history: the tasks the job acted on
    writer,    \* history: the token of the last fenced write
    requests,  \* how many requests were made
    faults     \* how many faults happened

redisVars == <<job, cands, lease, writer>>
runnerVars == <<mode, pc, tok, lost, mine, chunk>>
vars == <<redisVars, task, acts, pending, requests, runnerVars, faults>>

Tasks == DOMAIN task
States == {"previewing", "preview_ready", "running", "paused", "canceled", "done", "failed"}
Terminal == {"canceled", "done", "failed"}
Claimable == {"previewing", "running"}

Jobs == [verb : {"archive", "delete", "count"}, phase : {"preview", "execute"},
         state : States, ctl : {"", "pause", "cancel"}, complete : BOOLEAN,
         fence : Nat, cursor : Nat, candidates : Nat, act_cursor : Nat,
         acted : Nat, skipped : Nat, failed : Nat]

NewJob(v) == [verb |-> v, phase |-> "preview", state |-> "previewing", ctl |-> "",
              complete |-> FALSE, fence |-> 0, cursor |-> 0, candidates |-> 0,
              act_cursor |-> 0, acted |-> 0, skipped |-> 0, failed |-> 0]

NoJob == NewJob("count")
NoChunk == [size |-> 0, left |-> {}]

Init ==
    /\ job \in {NewJob(v) : v \in Verbs}
    /\ cands = <<>>
    /\ lease = NoOne
    /\ task \in {[t \in 1..n |-> "in"] : n \in Scopes}
    /\ pending = [h \in Handlers |-> "none"]
    /\ mode = [r \in Runners |-> "on"]
    /\ pc = [r \in Runners |-> "idle"]
    /\ tok = [r \in Runners |-> 0]
    /\ lost = [r \in Runners |-> FALSE]
    /\ mine = [r \in Runners |-> NoJob]
    /\ chunk = [r \in Runners |-> NoChunk]
    /\ acts = {}
    /\ writer = 0
    /\ requests = 0
    /\ faults = 0

-----------------------------------------------------------------------------
(* The handlers: read the job, check the gate, write. *)

\* The read of a request and its gate: which write the handler goes on to do.
Ask(h, op, write) ==
    /\ op \in Ops
    /\ pending[h] = "none"
    /\ requests < MaxRequests
    /\ pending' = [pending EXCEPT ![h] = write]
    /\ requests' = requests + 1
    /\ UNCHANGED <<redisVars, task, acts, runnerVars, faults>>

\* (Verbs other than delete may proceed on a partial preview, acknowledged.)
AskExecute(h) ==
    /\ job.phase = "preview"
    /\ job.state \in {"previewing", "preview_ready"}
    /\ job.verb # "count"
    /\ job.complete \/ job.verb # "delete"
    /\ Ask(h, "execute", "execute")

AskCancel(h) ==
    /\ job.state \notin Terminal
    /\ IF (job.state = "preview_ready" /\ job.phase = "preview") \/ job.state = "paused"
         THEN Ask(h, "cancel", "finish")
         ELSE Ask(h, "cancel", "cancel")

AskPause(h) ==
    /\ job.state \in Claimable
    /\ Ask(h, "pause", "pause")

AskResume(h) ==
    \/ job.state = "paused" /\ job.phase = "execute" /\ Ask(h, "resume", "to_running")
    \/ job.state = "paused" /\ job.phase = "preview" /\ Ask(h, "resume", "to_previewing")
    \/ job.state \in Claimable /\ job.ctl = "pause" /\ Ask(h, "resume", "resume")

\* The write of a request.  Only execute and the cancel of a dormant job are
\* a compare-and-set on the state (casState).
Wrote(h, fields) ==
    /\ job' = fields
    /\ pending' = [pending EXCEPT ![h] = "none"]
    /\ UNCHANGED <<cands, lease, writer, task, acts, requests, runnerVars, faults>>

\* Mutant: the check-then-write that casState replaced.
WriteExecuteAnyway(h) ==
    /\ pending[h] = "execute"
    /\ Wrote(h, [job EXCEPT !.phase = "execute", !.state = "running"])

WriteExecute(h) ==
    /\ pending[h] = "execute"
    /\ Wrote(h, IF job.state \in {"previewing", "preview_ready"}
                  THEN [job EXCEPT !.phase = "execute", !.state = "running"]
                  ELSE job)

FinishDormant(h) ==
    /\ pending[h] = "finish"
    /\ job.state \in {"preview_ready", "paused"}
    /\ Wrote(h, [job EXCEPT !.state = "canceled", !.ctl = ""])

\* The job is dormant no more: the cancel goes to whichever runner works it.
FallThrough(h) ==
    /\ pending[h] = "finish"
    /\ job.state \notin {"preview_ready", "paused"}
    /\ pending' = [pending EXCEPT ![h] = "cancel"]
    /\ UNCHANGED <<redisVars, task, acts, requests, runnerVars, faults>>

WriteCtl(h) ==
    /\ pending[h] \in {"cancel", "pause", "resume"}
    /\ Wrote(h, [job EXCEPT !.ctl = IF pending[h] = "resume" THEN "" ELSE pending[h]])

WriteResume(h) ==
    /\ pending[h] \in {"to_running", "to_previewing"}
    /\ Wrote(h, [job EXCEPT !.ctl = "",
                            !.state = IF pending[h] = "to_running" THEN "running" ELSE "previewing"])

Handler(h) ==
    \/ AskExecute(h) \/ AskCancel(h) \/ AskPause(h) \/ AskResume(h)
    \/ WriteExecute(h) \/ FinishDormant(h) \/ FallThrough(h) \/ WriteCtl(h) \/ WriteResume(h)

-----------------------------------------------------------------------------
(* A runner *)

Runs(r) == mode[r] \in {"on", "stopping"}
Works(r) == pc[r] \notin {"idle", "claim"}

At(r, label) == Runs(r) /\ pc[r] = label
Goto(r, label) == pc' = [pc EXCEPT ![r] = label]

Fault == faults < MaxFaults /\ faults' = faults + 1

\* A call answers with an error: a fault, or the canceled context of Stop.
CallFails(r) == Fault \/ (mode[r] = "stopping" /\ UNCHANGED faults)

\* A read or a check fails: the claim is given up.
GiveUp(r) ==
    /\ Goto(r, "release")
    /\ UNCHANGED <<redisVars, task, acts, pending, requests, mode, tok, lost, mine, chunk>>

\* Mutant: the token is not compared.
Unfenced(r, fields, list) ==
    /\ job' = fields
    /\ cands' = list
    /\ writer' = tok[r]

\* progressScript lets a write through only under the current token.
Fenced(r, fields, list) ==
    /\ job.fence = tok[r]
    /\ job' = fields
    /\ cands' = list
    /\ writer' = tok[r]

\* WriteProgress: applied; refused; or an error, applied or not.
Progress(r, fields, list, next, otherwise) ==
    /\ \/ /\ Fenced(r, fields, list)
          /\ Goto(r, next)
          /\ UNCHANGED faults
       \/ /\ job.fence # tok[r]
          /\ Goto(r, otherwise)
          /\ UNCHANGED <<job, cands, writer, faults>>
       \/ /\ CallFails(r)
          /\ Fenced(r, fields, list) \/ UNCHANGED <<job, cands, writer>>
          /\ Goto(r, otherwise)
    /\ UNCHANGED <<lease, task, acts, pending, requests, mode, tok, lost>>

\* claimTick: the job is listed as claimable ...
ListJobs(r) ==
    /\ mode[r] = "on"
    /\ pc[r] = "idle"
    /\ job.state \in Claimable
    /\ Goto(r, "claim")
    /\ UNCHANGED <<redisVars, task, acts, pending, requests, mode, tok, lost, mine, chunk, faults>>

\* Mutants: the lock is taken and no token is minted; the token is minted
\* whether or not the lock is taken.
ClaimUnminted(r) ==
    /\ At(r, "claim")
    /\ lease = NoOne
    /\ lease' = r
    /\ Goto(r, "load") /\ tok' = [tok EXCEPT ![r] = job.fence + 1]
    /\ UNCHANGED <<job, cands, writer, task, acts, pending, requests, mode, lost, mine,
                   chunk, faults>>

MintThenRefuse(r) ==
    /\ At(r, "claim")
    /\ lease # NoOne
    /\ job.fence < MaxClaims
    /\ job' = [job EXCEPT !.fence = @ + 1]
    /\ Goto(r, "idle")
    /\ UNCHANGED <<cands, lease, writer, task, acts, pending, requests, mode, tok, lost,
                   mine, chunk, faults>>

\* ... and claimed, if nobody holds the lease; the token may get lost with
\* the answer.
Claim(r) ==
    /\ At(r, "claim")
    /\ job.fence < MaxClaims
    /\ lease = NoOne
    /\ lease' = r
    /\ job' = [job EXCEPT !.fence = @ + 1]
    /\ \/ Goto(r, "load") /\ tok' = [tok EXCEPT ![r] = job'.fence] /\ UNCHANGED faults
       \/ Goto(r, "idle") /\ CallFails(r) /\ UNCHANGED tok
    /\ UNCHANGED <<cands, writer, task, acts, pending, requests, mode, lost, mine, chunk>>

ClaimRefused(r) ==
    /\ At(r, "claim")
    /\ \/ lease # NoOne /\ UNCHANGED faults
       \/ CallFails(r)
    /\ Goto(r, "idle")
    /\ UNCHANGED <<redisVars, task, acts, pending, requests, mode, tok, lost, mine, chunk>>

\* The renewal goroutine finds the lease lost, or fails to ask.
RenewalFails(r) ==
    /\ Runs(r) /\ Works(r) /\ ~lost[r]
    /\ \/ lease # r /\ UNCHANGED faults
       \/ CallFails(r)
    /\ lost' = [lost EXCEPT ![r] = TRUE]
    /\ UNCHANGED <<redisVars, task, acts, pending, requests, mode, pc, tok, mine, chunk>>

Take(r, snapshot, next) ==
    /\ mine' = [mine EXCEPT ![r] = snapshot]
    /\ Goto(r, next)
    /\ UNCHANGED <<redisVars, task, acts, pending, requests, mode, tok, lost, chunk, faults>>

NextPage(j) == IF j.cursor > Len(task) THEN "complete" ELSE "page"

\* Mutant: a job that is let through on a partial preview is not enumerated.
LoadWithoutEnumerating(r) ==
    /\ At(r, "load") \/ At(r, "reload")
    /\ Take(r, job, IF job.state = "previewing" /\ ~job.complete THEN NextPage(job)
                    ELSE IF job.complete /\ job.phase = "execute" /\ job.state = "running"
                           THEN "batch" ELSE "release")

\* work: load the claimed job, and again once enumerate is done with it.
Load(r) ==
    /\ \/ At(r, "load") /\ job.state \in Claimable /\ ~job.complete
          /\ Take(r, job, NextPage(job))
       \/ \/ At(r, "load") /\ (job.state \notin Claimable \/ job.complete)
          \/ At(r, "reload")
          /\ Take(r, job, IF job.phase = "execute" /\ job.state = "running"
                            THEN "batch" ELSE "release")

\* A read or a list fails; a check between pages or batches finds the claim
\* lost or the context canceled.
Abort(r) ==
    \/ /\ Runs(r) /\ pc[r] \in {"load", "reload", "page", "ctl_page", "batch", "ctl_batch", "read"}
       /\ CallFails(r) /\ GiveUp(r)
    \/ /\ Runs(r) /\ pc[r] \in {"page", "batch"}
       /\ lost[r] /\ UNCHANGED faults /\ GiveUp(r)

-----------------------------------------------------------------------------
(* enumerate *)

\* First run: the list of queues is frozen into the job; a list that cannot be
\* had fails the job.
FreezeQueues(r) ==
    /\ At(r, "page")
    /\ mine[r].cursor = 0
    /\ \/ /\ mine' = [mine EXCEPT ![r].cursor = 1]
          /\ Progress(r, [job EXCEPT !.cursor = 1], cands, NextPage(mine'[r]), "release")
          /\ UNCHANGED chunk
       \/ Fault /\ Goto(r, "failed")
          /\ UNCHANGED <<redisVars, task, acts, pending, requests, mode, tok, lost, mine, chunk>>

\* One page is listed and persisted with its candidates and the cursor.
WritePage(r) ==
    LET j == [mine[r] EXCEPT !.candidates = @ + 1, !.cursor = @ + 1]
    IN  /\ At(r, "page")
        /\ mine[r].cursor # 0
        /\ ~lost[r]
        /\ mine' = [mine EXCEPT ![r] = j]
        /\ Progress(r, [job EXCEPT !.candidates = j.candidates, !.cursor = j.cursor],
                    Append(cands, mine[r].cursor),
                    IF j.candidates > MaxCandidates THEN "too_large" ELSE "ctl_page",
                    "release")
        /\ UNCHANGED chunk

\* checkCtl: honor a request, or go on with what was read.
CheckCtl(r) ==
    /\ Runs(r)
    /\ pc[r] \in {"ctl_page", "ctl_batch"}
    /\ LET j == IF pc[r] = "ctl_page" THEN [job EXCEPT !.cursor = mine[r].cursor] ELSE job
       IN Take(r, j, CASE job.ctl = "cancel" -> "canceled"
                       [] job.ctl = "pause" -> "paused"
                       [] OTHER -> IF pc[r] = "ctl_page" THEN NextPage(j) ELSE "batch")

WritePause(r) ==
    /\ At(r, "paused")
    /\ Progress(r, [job EXCEPT !.state = "paused", !.ctl = ""], cands, "release", "release")
    /\ UNCHANGED <<mine, chunk>>

\* completePreviewScript looks at the phase itself.
CompletePreview(r) ==
    /\ At(r, "complete")
    /\ Progress(r, [job EXCEPT !.complete = TRUE,
                               !.state = IF job.phase = "preview" THEN "preview_ready" ELSE @],
                cands, "reload", "release")
    /\ UNCHANGED <<mine, chunk>>

\* finalize, in each of the places that call it; "next" follows it.
Finalize(r, state, next) ==
    /\ At(r, state)
    /\ Progress(r, [job EXCEPT !.state = IF state = "too_large" THEN "failed" ELSE state,
                               !.ctl = ""],
                cands, next, next)
    /\ UNCHANGED <<mine, chunk>>

EndJob(r) ==
    \/ Finalize(r, "canceled", "release")
    \/ Finalize(r, "done", "release")
    \/ Finalize(r, "failed", "release")
    \/ Finalize(r, "too_large", "drop")

\* DropCandidates after a preview that went over the cap: not fenced.
DropCandidates(r) ==
    /\ At(r, "drop")
    /\ Goto(r, "release")
    /\ \/ cands' = <<>> /\ UNCHANGED faults
       \/ CallFails(r) /\ UNCHANGED cands
    /\ UNCHANGED <<job, lease, writer, task, acts, pending, requests, mode, tok, lost, mine, chunk>>

-----------------------------------------------------------------------------
(* execute *)

\* Mutant: the batch relies on the renewal goroutine alone.
BatchUnrenewed(r) ==
    /\ At(r, "batch")
    /\ ~lost[r]
    /\ Goto(r, "read")
    /\ UNCHANGED <<redisVars, task, acts, pending, requests, mode, tok, lost, mine, chunk, faults>>

\* The synchronous renewal before a batch.
RenewBatch(r) ==
    /\ At(r, "batch")
    /\ ~lost[r]
    /\ IF lease = r
         THEN Goto(r, "read") /\ UNCHANGED lost
         ELSE Goto(r, "release") /\ lost' = [lost EXCEPT ![r] = TRUE]
    /\ UNCHANGED <<redisVars, task, acts, pending, requests, mode, tok, mine, chunk, faults>>

\* The refs of the batch are read and re-fetched.  "bad" are the re-fetches
\* that fail; a task that is gone is skipped.
Refs(j) == {n \in Tasks : n > j.act_cursor /\ n <= j.act_cursor + ExecBatch /\ n <= Len(cands)}

ReadBatch(r) ==
    LET j == mine[r]
        refs == {cands[n] : n \in Refs(j)}
    IN  /\ At(r, "read")
        /\ \E bad \in SUBSET refs :
             LET here == {t \in refs \ bad : task[t] # "gone"}
             IN /\ faults + Cardinality(bad) <= MaxFaults
                /\ faults' = faults + Cardinality(bad)
                /\ chunk' = [chunk EXCEPT ![r] =
                     [size |-> Cardinality(refs),
                      left |-> {[task |-> t, matches |-> task[t] = "in"] : t \in here}]]
                /\ mine' = [mine EXCEPT ![r].failed = @ + Cardinality(bad),
                                        ![r].skipped = @ + Cardinality((refs \ bad) \ here)]
        /\ Goto(r, IF refs = {} THEN "done" ELSE "act")
        /\ UNCHANGED <<redisVars, task, acts, pending, requests, mode, tok, lost>>

\* What asynq answers to a verb on task t: it is applied, it was "already" in
\* the state the verb wants, or it fails (a deleted task is "not found").
Applied(t) ==
    /\ task[t] = "in" \/ (task[t] = "out" /\ t \notin acts)
    /\ task' = [task EXCEPT ![t] = IF job.verb = "delete" THEN "gone" ELSE "out"]
    /\ acts' = acts \cup {t}

Tally(r, field) == mine' = [mine EXCEPT ![r][field] = @ + 1]

\* Act on the next task of the batch, in listing order, unless the claim is lost.
Act(r) ==
    \E t \in chunk[r].left :
        /\ At(r, "act")
        /\ mode[r] = "on"
        /\ ~lost[r]
        /\ \A u \in chunk[r].left : t.task <= u.task
        /\ \/ ~t.matches /\ Tally(r, "skipped") /\ UNCHANGED <<task, acts, faults>>
           \/ t.matches /\ Applied(t.task) /\ Tally(r, "acted") /\ UNCHANGED faults
           \/ /\ t.matches /\ task[t.task] = "out"
              /\ Tally(r, "skipped") /\ UNCHANGED <<task, acts, faults>>
           \/ /\ t.matches /\ task[t.task] = "gone"
              /\ Tally(r, "failed") /\ UNCHANGED <<task, acts, faults>>
           \/ /\ t.matches /\ Fault /\ Tally(r, "failed")
              /\ Applied(t.task) \/ UNCHANGED <<task, acts>>
        /\ chunk' = [chunk EXCEPT ![r].left = @ \ {t}]
        /\ UNCHANGED <<redisVars, pending, requests, mode, pc, tok, lost>>

Counts(r) == [job EXCEPT !.acted = mine[r].acted, !.skipped = mine[r].skipped,
                         !.failed = mine[r].failed]

\* Mutant: the cursor moves past a batch that was cut short.
WritePartialCursor(r) ==
    /\ At(r, "act")
    /\ lost[r] \/ mode[r] = "stopping"
    /\ chunk[r].left # {}
    /\ Progress(r, [Counts(r) EXCEPT !.act_cursor = mine[r].act_cursor + chunk[r].size],
                cands, "release", "release")
    /\ UNCHANGED <<mine, chunk>>

\* The loop stopped early: persist the counts and leave the cursor.
WritePartial(r) ==
    /\ At(r, "act")
    /\ lost[r] \/ mode[r] = "stopping"
    /\ chunk[r].left # {}
    /\ Progress(r, Counts(r), cands, "release", "release")
    /\ UNCHANGED <<mine, chunk>>

\* The batch is done: persist the counts and the cursor.
WriteBatch(r) ==
    LET next == mine[r].act_cursor + chunk[r].size
    IN  /\ At(r, "act")
        /\ chunk[r].left = {}
        /\ Progress(r, [Counts(r) EXCEPT !.act_cursor = next], cands, "ctl_batch", "release")
        /\ chunk' = [chunk EXCEPT ![r] = NoChunk]
        /\ UNCHANGED mine

-----------------------------------------------------------------------------
(* The end of a claim, the life of a process, and everybody else *)

Forget(r) ==
    /\ tok' = [tok EXCEPT ![r] = 0]
    /\ lost' = [lost EXCEPT ![r] = FALSE]
    /\ mine' = [mine EXCEPT ![r] = NoJob]
    /\ chunk' = [chunk EXCEPT ![r] = NoChunk]

\* The deferred release, under a context of its own; best effort.
Release(r) ==
    /\ At(r, "release")
    /\ \/ lease' = (IF lease = r THEN NoOne ELSE lease) /\ UNCHANGED faults
       \/ UNCHANGED lease /\ Fault
    /\ Goto(r, "idle")
    /\ Forget(r)
    /\ UNCHANGED <<job, cands, writer, task, acts, pending, requests, mode>>

Runner(r) ==
    \/ ListJobs(r) \/ Claim(r) \/ ClaimRefused(r) \/ Load(r) \/ Abort(r)
    \/ FreezeQueues(r) \/ WritePage(r) \/ CheckCtl(r) \/ WritePause(r) \/ CompletePreview(r)
    \/ EndJob(r) \/ DropCandidates(r)
    \/ RenewBatch(r) \/ ReadBatch(r) \/ Act(r) \/ WritePartial(r) \/ WriteBatch(r)
    \/ Release(r)

ChangeMode(r, to) ==
    /\ mode' = [mode EXCEPT ![r] = to]
    /\ UNCHANGED <<redisVars, task, acts, pending, requests>>

\* Stop cancels the context and waits for the work in flight.
Stop(r) == mode[r] = "on" /\ Fault /\ ChangeMode(r, "stopping")
           /\ UNCHANGED <<pc, tok, lost, mine, chunk>>
Stopped(r) == At(r, "idle") /\ mode[r] = "stopping" /\ ChangeMode(r, "off")
              /\ UNCHANGED <<pc, tok, lost, mine, chunk, faults>>
Start(r) == mode[r] = "off" /\ ChangeMode(r, "on")
            /\ UNCHANGED <<pc, tok, lost, mine, chunk, faults>>

\* The process dies; a restarted one has another instance ID.
Crash(r) ==
    /\ Runs(r)
    /\ Fault
    /\ ChangeMode(r, "dead")
    /\ Goto(r, "idle")
    /\ Forget(r)

\* The TTL of the lease runs out: nobody renews it, or its runner stalled.
Expire ==
    /\ lease # NoOne
    /\ lease' = NoOne
    /\ UNCHANGED <<job, cands, writer, task, acts, pending, requests, runnerVars>>

Abandoned == lease # NoOne /\ ~(Runs(lease) /\ Works(lease) /\ ~lost[lease])
ExpireAbandoned == Abandoned /\ Expire /\ UNCHANGED faults
ExpireStalled == ~Abandoned /\ Expire /\ Fault

\* Workers and other operators move tasks out of the scope or delete them.
Moved == {t \in Tasks \ acts : task[t] # "in"}
MoveTask(t) ==
    /\ Cardinality(Moved) < MaxMoves
    /\ task[t] = "in"
    /\ \E s \in {"out", "gone"} : task' = [task EXCEPT ![t] = s]
    /\ UNCHANGED <<redisVars, acts, pending, requests, runnerVars, faults>>

Next ==
    \/ \E h \in Handlers : Handler(h)
    \/ \E r \in Runners : Runner(r) \/ RenewalFails(r)
    \/ \E r \in Runners : Stop(r) \/ Stopped(r) \/ Start(r) \/ Crash(r)
    \/ ExpireAbandoned \/ ExpireStalled
    \/ \E t \in Tasks : MoveTask(t)

Spec == Init /\ [][Next]_vars

\* The claim loop ticks, work in flight goes on and Redis keeps its TTLs.
\* Nothing makes an operator ask, a handler write or a process start.
FairSpec ==
    /\ Spec
    /\ \A r \in Runners : WF_vars(Runner(r)) /\ WF_vars(Stopped(r))
    /\ WF_vars(ExpireAbandoned)
-----------------------------------------------------------------------------
(* Properties *)

\* A complete job that a late resume set back to previewing (see TerminalIsFinal).
Stranded == job.state = "previewing" /\ job.complete

\* The type invariant.
JobTypeOK ==
    /\ job \in Jobs
    /\ cands \in Seq(Tasks)
    /\ lease \in Runners \cup {NoOne}
    /\ task \in Seq({"in", "out", "gone"})
    /\ pending \in [Handlers -> {"none", "execute", "finish", "cancel", "pause", "resume",
                                 "to_running", "to_previewing"}]
    /\ mode \in [Runners -> {"on", "stopping", "off", "dead"}]
    /\ pc \in [Runners -> {"idle", "claim", "load", "reload", "page", "ctl_page", "complete",
                           "batch", "read", "act", "ctl_batch", "paused", "canceled", "done",
                           "failed", "too_large", "drop", "release"}]
    /\ tok \in [Runners -> 0..job.fence]
    /\ lost \in [Runners -> BOOLEAN]
    /\ mine \in [Runners -> Jobs]
    /\ chunk \in [Runners -> [size : 0..ExecBatch,
                              left : SUBSET [task : Tasks, matches : BOOLEAN]]]
    /\ acts \subseteq Tasks
    /\ writer \in 0..job.fence
    /\ requests \in 0..MaxRequests
    /\ faults \in 0..MaxFaults

\* A working runner that still has the lease has the current fencing token: no
\* replica claims twice, and a deferred release never frees a successor's
\* lease.  (This is what makes renewing the lease, which does not look at the
\* token, enough before a batch.)
LeaseCarriesFence ==
    \A r \in Runners : Works(r) /\ lease = r => tok[r] = job.fence

\* A batch is begun only by the last claimer, of a job that is running and
\* whose preview is complete: "the lease was alive when the batch began" (#40),
\* and a job that was paused, canceled or never let through the execute gate
\* starts no batch.  (A resume written late may relabel the job under the runner.)
BatchStartsOwned ==
    [][\A r \in Runners : pc[r] = "batch" /\ pc'[r] = "read" =>
          /\ tok[r] = job.fence
          /\ job.complete
          /\ job.phase = "execute" /\ (job.state = "running" \/ Stranded)
          /\ job.verb # "count"]_vars

\* However often the preview changes hands, its list holds every page before
\* the cursor exactly once, in order, and the count it reports is the list's.
CandidatesFollowCursor ==
    /\ cands = [n \in 1..Len(cands) |-> n]
    /\ job.candidates = Len(cands)
    /\ job.cursor = (IF job.cursor = 0 THEN 0 ELSE Len(cands) + 1)
    /\ job.complete => Len(cands) = Len(task)

\* No batch is dropped: the results account for every candidate the cursor has
\* passed (a batch cut short may be counted twice), and no act is made up.
ResultsAreHonest ==
    /\ job.acted + job.skipped + job.failed >= job.act_cursor
    /\ job.acted <= Cardinality(acts)
    /\ job.state = "done" => job.act_cursor = Len(cands)

\* Progress is written by the last claimer only: a job is a single-writer role.
JobRole == INSTANCE SingleWriter WITH epoch <- job.fence
JobRoleSpec == JobRole!Spec

\* A job that ended stays ended (job.go: canceled, done and failed are
\* "terminal").
TerminalIsFinal == [][job.state \in Terminal => job'.state = job.state]_vars

\* Nothing but the write of a resume, which is no compare-and-set, revives a job
\* that ended (see TerminalIsFinal): not an execute that races a cancel, not a
\* runner that was superseded.
OnlyResumeRevives ==
    [][job.state \in Terminal => \/ job'.state = job.state
                                 \/ \E h \in Handlers : WriteResume(h)]_vars

\* As long as one replica stays up, a job that needs a worker ends, or comes to
\* rest paused or awaiting its execute request, whoever crashed with its lease.
\* The exception is a complete job that a late resume set back to previewing:
\* it is claimed and released without end (see TerminalIsFinal).
JobSettles ==
    (\E r \in Runners : <>[](mode[r] = "on")) => []<>(job.state \notin Claimable \/ Stranded)
=============================================================================
