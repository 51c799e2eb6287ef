---------------------------- MODULE BulkJob_proofs ----------------------------
(***************************************************************************)
(* Proofs about BulkJob, for every number of replicas, requests, claims,   *)
(* faults and tasks:                                                       *)
(*   - type correctness;                                                   *)
(*   - the lease carries the fencing token;                                *)
(*   - progress has one writer, the last claim.                            *)
(***************************************************************************)
EXTENDS BulkJob, FiniteSetTheorems, TLAPS

USE JobAssumption

-----------------------------------------------------------------------------
(* Type correctness *)

Labels == {"idle", "claim", "load", "reload", "page", "ctl_page", "complete", "batch", "read",
           "act", "ctl_batch", "paused", "canceled", "done", "failed", "too_large", "drop",
           "release"}
Chunks == [size : 0..ExecBatch, left : SUBSET [task : Tasks, matches : BOOLEAN]]

\* A runner lists a page only while pages of the scope are left.
PagesAreOfTheScope == \A r \in Runners : pc[r] = "page" => mine[r].cursor <= Len(task)

TypeInv == JobTypeOK /\ PagesAreOfTheScope

\* The job as a handler or a runner may write it.
LEMMA NewJobTypes ==
    ASSUME NEW v \in {"archive", "delete", "count"}
    PROVE  NewJob(v) \in Jobs
BY DEF NewJob, Jobs, States

\* The fields of a job.
LEMMA JobFields ==
    ASSUME NEW j \in Jobs
    PROVE  /\ j.fence \in Nat /\ j.cursor \in Nat /\ j.candidates \in Nat
           /\ j.act_cursor \in Nat /\ j.acted \in Nat /\ j.skipped \in Nat /\ j.failed \in Nat
           /\ j.complete \in BOOLEAN /\ j.state \in States /\ j.phase \in {"preview", "execute"}
           /\ j.verb \in {"archive", "delete", "count"}
BY DEF Jobs

\* A claim mints the next token.
LEMMA NextToken ==
    ASSUME NEW j \in Jobs
    PROVE  [j EXCEPT !.fence = @ + 1] \in Jobs /\ [j EXCEPT !.fence = @ + 1].fence = j.fence + 1
<1>1. ASSUME NEW n \in Nat
      PROVE  [j EXCEPT !.fence = n] \in Jobs /\ [j EXCEPT !.fence = n].fence = n
  BY <1>1 DEF Jobs
<1>2. j.fence + 1 \in Nat
  BY JobFields
<1> QED
  BY <1>1, <1>2

\* A fresh job is well typed.
LEMMA TypeInit == Init => TypeInv
<1> SUFFICES ASSUME Init PROVE TypeInv
  OBVIOUS
<1>1. job \in Jobs /\ NoJob \in Jobs
  BY NewJobTypes DEF Init, NoJob
<1>2. task \in Seq({"in", "out", "gone"})
  BY DEF Init
<1>3. job.fence = 0
  <2>1. PICK v \in Verbs : job = NewJob(v)
    BY DEF Init
  <2> QED
    BY <2>1 DEF NewJob
<1>4. /\ cands \in Seq(Tasks)
      /\ mine \in [Runners -> Jobs]
      /\ chunk \in [Runners -> Chunks]
      /\ tok \in [Runners -> 0..job.fence] /\ writer \in 0..job.fence
  BY <1>1, <1>3 DEF Init, Chunks, NoChunk
<1>5. JobTypeOK
  BY <1>1, <1>2, <1>4 DEF Init, JobTypeOK, Chunks
<1>6. PagesAreOfTheScope
  BY DEF Init, PagesAreOfTheScope
<1> QED
  BY <1>5, <1>6 DEF TypeInv

\* What a progress write leaves behind.
LEMMA ProgressTypes ==
    ASSUME TypeInv, NEW r \in Runners, NEW fields \in Jobs, fields.fence = job.fence,
           NEW list \in Seq(Tasks), NEW next \in Labels, NEW otherwise \in Labels,
           Progress(r, fields, list, next, otherwise)
    PROVE  /\ job' \in Jobs /\ job'.fence = job.fence
           /\ cands' \in Seq(Tasks) /\ writer' \in 0..job'.fence
           /\ pc' \in [Runners -> Labels]
           /\ pc'[r] \in {next, otherwise}
           /\ \A s \in Runners \ {r} : pc'[s] = pc[s]
           /\ faults' \in 0..MaxFaults
           /\ UNCHANGED <<lease, task, acts, pending, requests, mode, tok, lost>>
<1>1. /\ job \in Jobs /\ cands \in Seq(Tasks) /\ writer \in 0..job.fence
      /\ tok[r] \in 0..job.fence /\ pc \in [Runners -> Labels]
      /\ faults \in 0..MaxFaults
  BY DEF TypeInv, JobTypeOK, Labels
<1>2. /\ pc' \in [Runners -> Labels]
      /\ pc'[r] \in {next, otherwise}
      /\ \A s \in Runners \ {r} : pc'[s] = pc[s]
  BY <1>1 DEF Progress, Goto
<1>3. faults' \in 0..MaxFaults
  BY <1>1 DEF Progress, CallFails, Fault
<1>4. \/ job' = job /\ cands' = cands /\ writer' = writer
      \/ job' = fields /\ cands' = list /\ writer' = tok[r]
  BY DEF Progress, Fenced
<1>5. UNCHANGED <<lease, task, acts, pending, requests, mode, tok, lost>>
  BY DEF Progress
<1> QED
  BY <1>1, <1>2, <1>3, <1>4, <1>5

\* The types of the variables that a progress write leaves alone, or writes.
LEMMA ProgressKeepsTypes ==
    ASSUME TypeInv, NEW r \in Runners, NEW fields \in Jobs, fields.fence = job.fence,
           NEW list \in Seq(Tasks), NEW next \in Labels, NEW otherwise \in Labels \ {"page"},
           Progress(r, fields, list, next, otherwise),
           mine' \in [Runners -> Jobs], \A s \in Runners \ {r} : mine'[s] = mine[s],
           next = "page" => mine'[r].cursor <= Len(task),
           chunk' \in [Runners -> Chunks]
    PROVE  TypeInv'
<1>1. /\ job' \in Jobs /\ job'.fence = job.fence
      /\ cands' \in Seq(Tasks) /\ writer' \in 0..job'.fence
      /\ pc' \in [Runners -> Labels]
      /\ pc'[r] \in {next, otherwise}
      /\ \A s \in Runners \ {r} : pc'[s] = pc[s]
      /\ faults' \in 0..MaxFaults
      /\ UNCHANGED <<lease, task, acts, pending, requests, mode, tok, lost>>
  BY ProgressTypes
<1>2. JobTypeOK'
  BY <1>1 DEF TypeInv, JobTypeOK, Labels, Chunks, Tasks
<1>3. PagesAreOfTheScope'
  BY <1>1 DEF TypeInv, PagesAreOfTheScope
<1> QED
  BY <1>2, <1>3 DEF TypeInv

\* The requests keep the types: each writes a state, a phase or ctl.
LEMMA HandlerTypes ==
    ASSUME TypeInv, NEW h \in Handlers, Handler(h)
    PROVE  TypeInv'
<1>1. ASSUME NEW op, NEW write \in {"execute", "finish", "cancel", "pause", "to_running",
                                    "to_previewing", "resume"}, Ask(h, op, write)
      PROVE  TypeInv'
  <2>1. requests' \in 0..MaxRequests
    BY <1>1 DEF Ask, TypeInv, JobTypeOK
  <2>2. JobTypeOK'
    BY <1>1, <2>1 DEF Ask, TypeInv, JobTypeOK, redisVars, runnerVars, Tasks
  <2>3. PagesAreOfTheScope'
    BY <1>1 DEF Ask, TypeInv, PagesAreOfTheScope, runnerVars
  <2> QED
    BY <2>2, <2>3 DEF TypeInv
<1>2. ASSUME NEW fields \in Jobs, fields.fence = job.fence, Wrote(h, fields)
      PROVE  TypeInv'
  <2>1. JobTypeOK'
    BY <1>2 DEF Wrote, TypeInv, JobTypeOK, runnerVars, Tasks
  <2>2. PagesAreOfTheScope'
    BY <1>2 DEF Wrote, TypeInv, PagesAreOfTheScope, runnerVars
  <2> QED
    BY <2>1, <2>2 DEF TypeInv
<1>3. job \in Jobs
  BY DEF TypeInv, JobTypeOK
<1>4. CASE AskExecute(h)
  BY <1>1, <1>4 DEF AskExecute
<1>5. CASE AskCancel(h)
  BY <1>1, <1>5 DEF AskCancel
<1>6. CASE AskPause(h)
  BY <1>1, <1>6 DEF AskPause
<1>7. CASE AskResume(h)
  BY <1>1, <1>7 DEF AskResume
<1>8. CASE WriteExecute(h)
  <2>1. [job EXCEPT !.phase = "execute", !.state = "running"] \in Jobs
    BY <1>3 DEF Jobs, States
  <2> QED
    BY <1>2, <1>3, <1>8, <2>1 DEF WriteExecute, Jobs
<1>9. CASE FinishDormant(h)
  <2>1. [job EXCEPT !.state = "canceled", !.ctl = ""] \in Jobs
    BY <1>3 DEF Jobs, States
  <2> QED
    BY <1>2, <1>3, <1>9, <2>1 DEF FinishDormant, Jobs
<1>10. CASE FallThrough(h)
  <2>1. JobTypeOK'
    BY <1>10 DEF FallThrough, TypeInv, JobTypeOK, redisVars, runnerVars, Tasks
  <2>2. PagesAreOfTheScope'
    BY <1>10 DEF FallThrough, TypeInv, PagesAreOfTheScope, runnerVars
  <2> QED
    BY <2>1, <2>2 DEF TypeInv
<1>11. CASE WriteCtl(h)
  <2> DEFINE ctl == IF pending[h] = "resume" THEN "" ELSE pending[h]
  <2>1. ctl \in {"", "pause", "cancel"}
    BY <1>11 DEF WriteCtl
  <2>2. [job EXCEPT !.ctl = ctl] \in Jobs /\ [job EXCEPT !.ctl = ctl].fence = job.fence
    BY <1>3, <2>1 DEF Jobs
  <2> QED
    BY <1>2, <1>11, <2>2 DEF WriteCtl
<1>12. CASE WriteResume(h)
  <2> DEFINE st == IF pending[h] = "to_running" THEN "running" ELSE "previewing"
  <2>1. /\ [job EXCEPT !.ctl = "", !.state = st] \in Jobs
        /\ [job EXCEPT !.ctl = "", !.state = st].fence = job.fence
    BY <1>3 DEF Jobs, States
  <2> QED
    BY <1>2, <1>12, <2>1 DEF WriteResume
<1> QED
  BY <1>4, <1>5, <1>6, <1>7, <1>8, <1>9, <1>10, <1>11, <1>12 DEF Handler

\* The claim, and what gives it up, keep the types.
LEMMA ClaimTypes ==
    ASSUME TypeInv, NEW r \in Runners,
           \/ ListJobs(r) \/ Claim(r) \/ ClaimRefused(r) \/ Load(r) \/ Abort(r) \/ RenewalFails(r)
           \/ CheckCtl(r) \/ DropCandidates(r) \/ RenewBatch(r) \/ Release(r)
    PROVE  TypeInv'
<1> USE DEF TypeInv
<1>0. job \in Jobs /\ job.fence \in Nat /\ NoJob \in Jobs /\ NoChunk \in Chunks
  <2>1. job \in Jobs /\ job.fence \in Nat
    BY JobFields DEF JobTypeOK
  <2>2. NoJob \in Jobs
    BY NewJobTypes DEF NoJob
  <2>3. NoChunk \in Chunks
    BY DEF NoChunk, Chunks
  <2> QED
    BY <2>1, <2>2, <2>3
<1>1. CASE ListJobs(r)
  <2>1. JobTypeOK'
    BY <1>1 DEF ListJobs, Goto, JobTypeOK, redisVars, Tasks
  <2> QED
    BY <1>1, <2>1 DEF ListJobs, Goto, JobTypeOK, PagesAreOfTheScope
<1>2. CASE Claim(r)
  <2>1. job' \in Jobs /\ job'.fence = job.fence + 1
    BY <1>0, <1>2, NextToken DEF Claim
  <2>2. faults' \in 0..MaxFaults
    BY <1>2 DEF Claim, JobTypeOK, CallFails, Fault
  <2>4. writer' \in 0..job'.fence
    BY <1>0, <1>2, <2>1 DEF Claim, JobTypeOK
  <2>5. tok \in [Runners -> 0..job'.fence] /\ job'.fence \in 0..job'.fence
    <3>1. tok \in [Runners -> 0..job.fence]
      BY DEF JobTypeOK
    <3> QED
      BY <1>0, <2>1, <3>1
  <2>6. tok' \in [Runners -> 0..job'.fence]
    BY <1>2, <2>5 DEF Claim
  <2>3. JobTypeOK'
    BY ZenonT(40), <1>2, <2>1, <2>2, <2>4, <2>6 DEF Claim, Goto, JobTypeOK, Tasks
  <2> QED
    BY ZenonT(40), <1>2, <2>3 DEF Claim, Goto, JobTypeOK, PagesAreOfTheScope
<1>3. CASE ClaimRefused(r)
  <2>1. faults' \in 0..MaxFaults
    BY <1>3 DEF ClaimRefused, CallFails, Fault, JobTypeOK
  <2>2. JobTypeOK'
    BY <1>3, <2>1 DEF ClaimRefused, Goto, JobTypeOK, redisVars, Tasks
  <2> QED
    BY <1>3, <2>2 DEF ClaimRefused, Goto, JobTypeOK, PagesAreOfTheScope
<1>4. ASSUME NEW j \in Jobs, NEW next \in Labels, Take(r, j, next),
             next = "page" => j.cursor <= Len(task)
      PROVE  TypeInv'
  <2>1. JobTypeOK'
    BY <1>4 DEF Take, Goto, JobTypeOK, Labels, redisVars, Tasks
  <2> QED
    BY <1>4, <2>1 DEF Take, Goto, JobTypeOK, PagesAreOfTheScope
<1>5. ASSUME NEW j \in Jobs
      PROVE  NextPage(j) \in Labels /\ (NextPage(j) = "page" => j.cursor <= Len(task))
  <2>1. j.cursor \in Nat /\ Len(task) \in Nat
    BY <1>5, JobFields DEF JobTypeOK
  <2> QED
    BY <2>1 DEF NextPage, Labels
<1>6. CASE Load(r)
  BY <1>0, <1>4, <1>5, <1>6 DEF Load, Labels
<1>7. CASE CheckCtl(r)
  <2> DEFINE j == IF pc[r] = "ctl_page" THEN [job EXCEPT !.cursor = mine[r].cursor] ELSE job
             next == CASE job.ctl = "cancel" -> "canceled"
                       [] job.ctl = "pause" -> "paused"
                       [] OTHER -> IF pc[r] = "ctl_page" THEN NextPage(j) ELSE "batch"
  <2>1. j \in Jobs
    <3>1. mine[r] \in Jobs
      BY DEF JobTypeOK
    <3> QED
      BY <1>0, <3>1 DEF Jobs
  <2>2. next \in Labels /\ (next = "page" => j.cursor <= Len(task))
    <3> HIDE DEF j
    <3> QED
      BY <1>5, <2>1 DEF Labels
  <2>3. Take(r, j, next)
    BY <1>7 DEF CheckCtl
  <2> HIDE DEF j, next
  <2> QED
    BY <1>4, <2>1, <2>2, <2>3
<1>8. ASSUME GiveUp(r), faults' \in 0..MaxFaults
      PROVE  TypeInv'
  <2>1. JobTypeOK'
    BY <1>8 DEF GiveUp, Goto, JobTypeOK, redisVars, Tasks
  <2> QED
    BY <1>8, <2>1 DEF GiveUp, Goto, JobTypeOK, PagesAreOfTheScope
<1>9. CASE Abort(r)
  <2>1. faults' \in 0..MaxFaults
    BY <1>9 DEF Abort, CallFails, Fault, JobTypeOK
  <2> QED
    BY <1>8, <1>9, <2>1 DEF Abort
<1>10. CASE RenewalFails(r)
  <2>1. faults' \in 0..MaxFaults
    BY <1>10 DEF RenewalFails, CallFails, Fault, JobTypeOK
  <2>2. JobTypeOK'
    BY <1>10, <2>1 DEF RenewalFails, JobTypeOK, redisVars, Tasks
  <2> QED
    BY <1>10, <2>2 DEF RenewalFails, PagesAreOfTheScope
<1>11. CASE DropCandidates(r)
  <2>1. faults' \in 0..MaxFaults
    BY <1>11 DEF DropCandidates, CallFails, Fault, JobTypeOK
  <2>3. cands' \in Seq(Tasks)
    <3>1. cands \in Seq(Tasks) /\ <<>> \in Seq(Tasks)
      BY DEF JobTypeOK
    <3> QED
      BY <1>11, <3>1 DEF DropCandidates
  <2>2. JobTypeOK'
    BY <1>11, <2>1, <2>3 DEF DropCandidates, Goto, JobTypeOK, Tasks
  <2> QED
    BY <1>11, <2>2 DEF DropCandidates, Goto, JobTypeOK, PagesAreOfTheScope
<1>12. CASE RenewBatch(r)
  <2>1. JobTypeOK'
    BY <1>12 DEF RenewBatch, Goto, JobTypeOK, redisVars, Tasks
  <2> QED
    BY <1>12, <2>1 DEF RenewBatch, Goto, JobTypeOK, PagesAreOfTheScope
<1>13. CASE Release(r)
  <2>1. faults' \in 0..MaxFaults /\ lease' \in Runners \cup {NoOne}
    BY <1>13 DEF Release, Fault, JobTypeOK
  <2>2. /\ mine' \in [Runners -> Jobs] /\ chunk' \in [Runners -> Chunks]
        /\ tok' \in [Runners -> 0..job.fence]
    BY <1>0, <1>13 DEF Release, Forget, JobTypeOK, Chunks
  <2>3. JobTypeOK'
    BY <1>13, <2>1, <2>2 DEF Release, Forget, Goto, JobTypeOK, Chunks, Tasks
  <2> QED
    BY <1>13, <2>3 DEF Release, Forget, Goto, JobTypeOK, PagesAreOfTheScope
<1> QED
  BY <1>1, <1>2, <1>3, <1>6, <1>7, <1>9, <1>10, <1>11, <1>12, <1>13

\* The job with other counts, as a batch reports them.
LEMMA CountsTypes ==
    ASSUME TypeInv, NEW r \in Runners, NEW n \in Nat
    PROVE  /\ Counts(r) \in Jobs /\ Counts(r).fence = job.fence
           /\ [Counts(r) EXCEPT !.act_cursor = n] \in Jobs
           /\ [Counts(r) EXCEPT !.act_cursor = n].fence = job.fence
<1>1. job \in Jobs /\ mine[r] \in Jobs
  BY DEF TypeInv, JobTypeOK
<1>2. mine[r].acted \in Nat /\ mine[r].skipped \in Nat /\ mine[r].failed \in Nat
  BY <1>1, JobFields
<1>3. Counts(r) \in Jobs /\ Counts(r).fence = job.fence
  <2> DEFINE a == mine[r].acted
             s == mine[r].skipped
             f == mine[r].failed
  <2>1. a \in Nat /\ s \in Nat /\ f \in Nat
    BY <1>2
  <2>2. Counts(r) = [job EXCEPT !.acted = a, !.skipped = s, !.failed = f]
    BY DEF Counts
  <2> HIDE DEF a, s, f
  <2> QED
    BY <1>1, <2>1, <2>2 DEF Jobs
<1>4. ASSUME NEW j \in Jobs
      PROVE  [j EXCEPT !.act_cursor = n] \in Jobs /\ [j EXCEPT !.act_cursor = n].fence = j.fence
  BY <1>4 DEF Jobs
<1> QED
  BY <1>3, <1>4

\* Every progress write keeps the types.
LEMMA WriteTypes ==
    ASSUME TypeInv, NEW r \in Runners,
           \/ FreezeQueues(r) \/ WritePage(r) \/ WritePause(r) \/ CompletePreview(r)
           \/ EndJob(r) \/ WritePartial(r) \/ WriteBatch(r)
    PROVE  TypeInv'
<1>1. /\ job \in Jobs /\ mine[r] \in Jobs /\ mine \in [Runners -> Jobs]
      /\ cands \in Seq(Tasks) /\ chunk \in [Runners -> Chunks]
      /\ Len(task) \in Nat /\ Tasks = 1..Len(task)
  BY DEF TypeInv, JobTypeOK, Chunks, Tasks
<1>2. ASSUME NEW fields \in Jobs, fields.fence = job.fence,
             NEW next \in Labels \ {"page"}, NEW otherwise \in Labels \ {"page"},
             Progress(r, fields, cands, next, otherwise), UNCHANGED <<mine, chunk>>
      PROVE  TypeInv'
  BY <1>1, <1>2, ProgressKeepsTypes
<1>3. CASE FreezeQueues(r)
  <2> DEFINE j == [mine[r] EXCEPT !.cursor = 1]
             fields == [job EXCEPT !.cursor = 1]
             next == NextPage(mine'[r])
  <2>1. CASE /\ mine' = [mine EXCEPT ![r] = j] /\ UNCHANGED chunk
             /\ Progress(r, fields, cands, next, "release")
    <3>1. j \in Jobs /\ j.cursor = 1
      BY <1>1 DEF Jobs
    <3>2. mine' \in [Runners -> Jobs] /\ mine'[r].cursor = 1 /\ \A s \in Runners \ {r} : mine'[s] = mine[s]
      <4> HIDE DEF j
      <4> QED
        BY <1>1, <2>1, <3>1
    <3>3. fields \in Jobs /\ fields.fence = job.fence
      BY <1>1 DEF Jobs
    <3>4. next \in Labels /\ (next = "page" => mine'[r].cursor <= Len(task))
      BY <1>1, <3>2 DEF NextPage, Labels
    <3> HIDE DEF j, fields, next
    <3>5. "release" \in Labels \ {"page"} /\ chunk' \in [Runners -> Chunks]
      BY <1>1, <2>1 DEF Labels
    <3> QED
      BY <1>1, <2>1, <3>2, <3>3, <3>4, <3>5, ProgressKeepsTypes
  <2>2. CASE /\ Fault /\ Goto(r, "failed")
             /\ UNCHANGED <<redisVars, task, acts, pending, requests, mode, tok, lost, mine, chunk>>
    <3>1. faults' \in 0..MaxFaults
      BY <2>2 DEF Fault, TypeInv, JobTypeOK
    <3>2. JobTypeOK'
      BY <2>2, <3>1 DEF TypeInv, JobTypeOK, Goto, redisVars, Tasks
    <3>3. PagesAreOfTheScope'
      BY <2>2 DEF TypeInv, JobTypeOK, Goto, PagesAreOfTheScope
    <3> QED
      BY <3>2, <3>3 DEF TypeInv
  <2> QED
    BY <1>3, <2>1, <2>2 DEF FreezeQueues
<1>4. CASE WritePage(r)
  <2> DEFINE j == [mine[r] EXCEPT !.candidates = @ + 1, !.cursor = @ + 1]
             fields == [job EXCEPT !.candidates = j.candidates, !.cursor = j.cursor]
             next == IF j.candidates > MaxCandidates THEN "too_large" ELSE "ctl_page"
  <2>1. mine[r].cursor \in Nat /\ mine[r].candidates \in Nat
    BY <1>1, JobFields
  <2>2. j \in Jobs /\ j.candidates \in Nat /\ j.cursor \in Nat
    <3>1. ASSUME NEW k \in Nat, NEW n \in Nat
          PROVE  [mine[r] EXCEPT !.candidates = k, !.cursor = n] \in Jobs
      BY <1>1 DEF Jobs
    <3>2. mine[r].candidates + 1 \in Nat /\ mine[r].cursor + 1 \in Nat
      BY <2>1
    <3>3. j \in Jobs
      BY <3>1, <3>2
    <3> QED
      BY <3>3, JobFields
  <2>3. fields \in Jobs /\ fields.fence = job.fence
    <3> HIDE DEF j
    <3> QED
      BY <1>1, <2>2 DEF Jobs
  <2>4. Append(cands, mine[r].cursor) \in Seq(Tasks)
    BY <1>1, <1>4, <2>1 DEF WritePage, At, TypeInv, PagesAreOfTheScope
  <2>5. /\ mine' = [mine EXCEPT ![r] = j] /\ UNCHANGED chunk
        /\ Progress(r, fields, Append(cands, mine[r].cursor), next, "release")
    BY <1>4 DEF WritePage
  <2>6. next \in Labels /\ next # "page"
    BY DEF Labels
  <2> HIDE DEF j, fields, next
  <2>7. mine' \in [Runners -> Jobs] /\ \A s \in Runners \ {r} : mine'[s] = mine[s]
    BY <1>1, <2>2, <2>5
  <2>8. "release" \in Labels \ {"page"} /\ chunk' \in [Runners -> Chunks]
    BY <1>1, <2>5 DEF Labels
  <2> QED
    BY <2>3, <2>4, <2>5, <2>6, <2>7, <2>8, ProgressKeepsTypes
<1>5. CASE WritePause(r)
  <2>1. /\ [job EXCEPT !.state = "paused", !.ctl = ""] \in Jobs
        /\ [job EXCEPT !.state = "paused", !.ctl = ""].fence = job.fence
    BY <1>1 DEF Jobs, States
  <2> QED
    BY <1>2, <1>5, <2>1 DEF WritePause, Labels
<1>6. CASE CompletePreview(r)
  <2> DEFINE st == IF job.phase = "preview" THEN "preview_ready" ELSE job.state
  <2>1. st \in States
    BY <1>1, JobFields DEF States
  <2>2. /\ [job EXCEPT !.complete = TRUE, !.state = st] \in Jobs
        /\ [job EXCEPT !.complete = TRUE, !.state = st].fence = job.fence
    <3> HIDE DEF st
    <3> QED
      BY <1>1, <2>1 DEF Jobs
  <2> QED
    BY <1>2, <1>6, <2>2 DEF CompletePreview, Labels
<1>7. CASE EndJob(r)
  <2>1. ASSUME NEW st \in {"canceled", "done", "failed", "too_large"},
               NEW next \in {"release", "drop"}, Finalize(r, st, next)
        PROVE  TypeInv'
    <3> DEFINE end == IF st = "too_large" THEN "failed" ELSE st
    <3>1. end \in States
      BY DEF States
    <3>2. /\ [job EXCEPT !.state = end, !.ctl = ""] \in Jobs
          /\ [job EXCEPT !.state = end, !.ctl = ""].fence = job.fence
      <4> HIDE DEF end
      <4> QED
        BY <1>1, <3>1 DEF Jobs
    <3> QED
      BY <1>2, <2>1, <3>2 DEF Finalize, Labels
  <2> QED
    BY <1>7, <2>1 DEF EndJob
<1>8. CASE WritePartial(r)
  BY <1>2, <1>8, CountsTypes DEF WritePartial, Labels
<1>9. CASE WriteBatch(r)
  <2> DEFINE next == mine[r].act_cursor + chunk[r].size
  <2>1. next \in Nat
    BY <1>1, JobFields DEF Chunks
  <2>2. [Counts(r) EXCEPT !.act_cursor = next] \in Jobs /\ [Counts(r) EXCEPT !.act_cursor = next].fence = job.fence
    BY <2>1, CountsTypes
  <2>3. chunk' \in [Runners -> Chunks]
    BY <1>1, <1>9 DEF WriteBatch, Chunks, NoChunk
  <2>4. Progress(r, [Counts(r) EXCEPT !.act_cursor = next], cands, "ctl_batch", "release") /\ UNCHANGED mine
    BY <1>9 DEF WriteBatch
  <2> HIDE DEF next
  <2> QED
    BY <1>1, <2>2, <2>3, <2>4, ProgressKeepsTypes DEF Labels
<1> QED
  BY <1>3, <1>4, <1>5, <1>6, <1>7, <1>8, <1>9

\* A batch holds at most ExecBatch tasks, and none past the end of the list.
LEMMA BatchSize ==
    ASSUME TypeInv, NEW j \in Jobs,
           NEW refs, refs = {cands[n] : n \in Refs(j)}
    PROVE  /\ refs \subseteq Tasks /\ IsFiniteSet(refs)
           /\ Cardinality(refs) \in 0..ExecBatch
           /\ refs # {} => j.act_cursor + Cardinality(refs) <= Len(cands)
<1>1. /\ j.act_cursor \in Nat /\ Len(task) \in Nat /\ Tasks = 1..Len(task)
      /\ Len(cands) \in Nat /\ \A n \in 1..Len(cands) : cands[n] \in Tasks
  BY JobFields DEF TypeInv, JobTypeOK, Tasks
<1> DEFINE lo == j.act_cursor + 1
           hi == j.act_cursor + ExecBatch
           end == IF hi <= Len(cands) THEN hi ELSE Len(cands)
<1>2. Refs(j) \subseteq lo..end /\ Refs(j) \subseteq 1..Len(cands)
  BY <1>1 DEF Refs
<1>3. IsFiniteSet(lo..end) /\ Cardinality(lo..end) = IF lo > end THEN 0 ELSE end - lo + 1
  <2>1. lo \in Int /\ end \in Int
    BY <1>1
  <2> HIDE DEF lo, end
  <2> QED
    BY <2>1, FS_Interval
<1>4. IsFiniteSet(Refs(j)) /\ Cardinality(Refs(j)) <= Cardinality(lo..end)
  BY <1>2, <1>3, FS_Subset
<1>5. [n \in Refs(j) |-> cands[n]] \in Surjection(Refs(j), refs)
  BY DEF Surjection
<1>6. IsFiniteSet(refs) /\ Cardinality(refs) <= Cardinality(Refs(j))
  BY <1>4, <1>5, FS_Surjection
<1>7. Cardinality(refs) \in Nat /\ Cardinality(Refs(j)) \in Nat
  BY <1>4, <1>6, FS_CardinalityType
<1>8. refs # {} => lo <= end
  BY <1>1, <1>2
<1>9. refs \subseteq Tasks
  BY <1>1, <1>2
<1>10. end <= hi /\ end <= Len(cands) /\ end \in Nat /\ lo \in Nat /\ hi \in Nat
  BY <1>1
<1>11. Cardinality(refs) <= IF lo > end THEN 0 ELSE end - lo + 1
  BY <1>3, <1>4, <1>6, <1>7, <1>10
<1> QED
  BY <1>1, <1>6, <1>7, <1>8, <1>9, <1>10, <1>11

\* A task that changes place stays a task.
LEMMA TaskUpdate ==
    ASSUME JobTypeOK, NEW t \in Tasks, NEW s \in {"in", "out", "gone"},
           task' = [task EXCEPT ![t] = s]
    PROVE  task' \in Seq({"in", "out", "gone"}) /\ Len(task') = Len(task) /\ Tasks' = Tasks
BY DEF JobTypeOK, Tasks

\* Reading a batch and acting on it keep the types.
LEMMA BatchTypes ==
    ASSUME TypeInv, NEW r \in Runners, ReadBatch(r) \/ Act(r)
    PROVE  TypeInv'
<1>1. /\ job \in Jobs /\ mine[r] \in Jobs /\ mine \in [Runners -> Jobs]
      /\ chunk \in [Runners -> Chunks] /\ faults \in 0..MaxFaults
  BY DEF TypeInv, JobTypeOK, Chunks
<1>2. CASE ReadBatch(r)
  <2> DEFINE refs == {cands[n] : n \in Refs(mine[r])}
  <2>1. PICK bad \in SUBSET refs :
             LET here == {t \in refs \ bad : task[t] # "gone"}
             IN /\ faults + Cardinality(bad) <= MaxFaults
                /\ faults' = faults + Cardinality(bad)
                /\ chunk' = [chunk EXCEPT ![r] =
                     [size |-> Cardinality(refs),
                      left |-> {[task |-> t, matches |-> task[t] = "in"] : t \in here}]]
                /\ mine' = [mine EXCEPT ![r].failed = @ + Cardinality(bad),
                                        ![r].skipped = @ + Cardinality((refs \ bad) \ here)]
    BY <1>2 DEF ReadBatch
  <2> DEFINE here == {t \in refs \ bad : task[t] # "gone"}
             left == {[task |-> t, matches |-> task[t] = "in"] : t \in here}
             size == Cardinality(refs)
             failed == mine[r].failed + Cardinality(bad)
             skipped == mine[r].skipped + Cardinality((refs \ bad) \ here)
  <2>2. refs \subseteq Tasks /\ IsFiniteSet(refs) /\ size \in 0..ExecBatch
    BY <1>1, BatchSize
  <2>3. Cardinality(bad) \in Nat /\ Cardinality((refs \ bad) \ here) \in Nat
    BY <2>2, FS_Subset, FS_CardinalityType
  <2>4. faults' \in 0..MaxFaults
    BY <1>1, <2>1, <2>3
  <2>5. chunk' \in [Runners -> Chunks]
    <3>1. left \in SUBSET [task : Tasks, matches : BOOLEAN]
      <4>1. here \subseteq Tasks
        BY <2>2
      <4>2. \A t \in here : [task |-> t, matches |-> task[t] = "in"] \in [task : Tasks, matches : BOOLEAN]
        <5> HIDE DEF here
        <5> QED
          BY <4>1
      <4> QED
        BY <4>2
    <3>2. [size |-> size, left |-> left] \in Chunks
      <4> HIDE DEF size, left
      <4> QED
        BY <2>2, <3>1 DEF Chunks
    <3>3. chunk' = [chunk EXCEPT ![r] = [size |-> size, left |-> left]]
      BY <2>1
    <3> HIDE DEF size, left
    <3> QED
      BY <1>1, <3>2, <3>3
  <2>6. mine' \in [Runners -> Jobs] /\ \A s \in Runners \ {r} : mine'[s] = mine[s]
    <3>1. failed \in Nat /\ skipped \in Nat
      BY <1>1, <2>3, JobFields
    <3>2. mine' = [mine EXCEPT ![r].failed = failed, ![r].skipped = skipped]
      BY <1>1, <2>1
    <3> HIDE DEF failed, skipped
    <3>3. [mine[r] EXCEPT !.failed = failed, !.skipped = skipped] \in Jobs
      BY <1>1, <3>1 DEF Jobs
    <3> QED
      BY <1>1, <3>2, <3>3
  <2>7. /\ pc' = [pc EXCEPT ![r] = IF refs = {} THEN "done" ELSE "act"]
        /\ UNCHANGED <<redisVars, task, acts, pending, requests, mode, tok, lost>>
    BY <1>2 DEF ReadBatch, Goto
  <2> HIDE DEF refs
  <2>8. JobTypeOK'
    BY <2>4, <2>5, <2>6, <2>7 DEF TypeInv, JobTypeOK, Chunks, redisVars, Tasks
  <2>9. PagesAreOfTheScope'
    BY <2>6, <2>7 DEF TypeInv, JobTypeOK, PagesAreOfTheScope
  <2> QED
    BY <2>8, <2>9 DEF TypeInv
<1>3. CASE Act(r)
  <2>1. PICK t \in chunk[r].left :
          /\ pc[r] = "act"
          /\ \/ Tally(r, "skipped") /\ UNCHANGED <<task, acts, faults>>
             \/ Applied(t.task) /\ Tally(r, "acted") /\ UNCHANGED faults
             \/ Tally(r, "failed") /\ UNCHANGED <<task, acts, faults>>
             \/ Fault /\ Tally(r, "failed") /\ (Applied(t.task) \/ UNCHANGED <<task, acts>>)
          /\ chunk' = [chunk EXCEPT ![r].left = @ \ {t}]
          /\ UNCHANGED <<redisVars, pending, requests, mode, pc, tok, lost>>
    BY <1>3 DEF Act, At
  <2>2. t.task \in Tasks
    BY <1>1 DEF Chunks
  <2>3. mine' \in [Runners -> Jobs] /\ \A s \in Runners \ {r} : mine'[s] = mine[s]
    <3>1. ASSUME NEW n \in Nat
          PROVE  /\ [mine[r] EXCEPT !.acted = n] \in Jobs
                 /\ [mine[r] EXCEPT !.skipped = n] \in Jobs
                 /\ [mine[r] EXCEPT !.failed = n] \in Jobs
      BY <1>1, <3>1 DEF Jobs
    <3>2. mine[r].acted + 1 \in Nat /\ mine[r].skipped + 1 \in Nat /\ mine[r].failed + 1 \in Nat
      BY <1>1, JobFields
    <3>3. \/ mine' = [mine EXCEPT ![r] = [mine[r] EXCEPT !.acted = mine[r].acted + 1]]
          \/ mine' = [mine EXCEPT ![r] = [mine[r] EXCEPT !.skipped = mine[r].skipped + 1]]
          \/ mine' = [mine EXCEPT ![r] = [mine[r] EXCEPT !.failed = mine[r].failed + 1]]
      BY <2>1 DEF Tally
    <3>4. PICK j \in Jobs : mine' = [mine EXCEPT ![r] = j]
      BY <3>1, <3>2, <3>3
    <3> QED
      BY <1>1, <3>4
  <2>4. chunk' \in [Runners -> Chunks]
    BY <1>1, <2>1 DEF Chunks
  <2>5. faults' \in 0..MaxFaults
    BY <1>1, <2>1 DEF Fault
  <2>6. /\ task' \in Seq({"in", "out", "gone"}) /\ Len(task') = Len(task) /\ Tasks' = Tasks
        /\ acts' \subseteq Tasks
    <3>1. CASE Applied(t.task)
      <4> DEFINE s == IF job.verb = "delete" THEN "gone" ELSE "out"
      <4>1. s \in {"in", "out", "gone"} /\ task' = [task EXCEPT ![t.task] = s]
        BY <3>1 DEF Applied
      <4> HIDE DEF s
      <4>2. acts' \subseteq Tasks
        BY <2>2, <3>1 DEF Applied, TypeInv, JobTypeOK
      <4> QED
        BY <2>2, <4>1, <4>2, TaskUpdate DEF TypeInv
    <3>2. CASE UNCHANGED <<task, acts>>
      BY <3>2 DEF TypeInv, JobTypeOK, Tasks
    <3> QED
      BY <2>1, <3>1, <3>2
  <2>7. JobTypeOK'
    <3>1. cands \in Seq(Tasks') /\ chunk' \in [Runners -> Chunks']
      BY <2>4, <2>6 DEF TypeInv, JobTypeOK, Chunks
    <3> HIDE DEF Tasks
    <3> QED
      BY <2>1, <2>3, <2>5, <2>6, <3>1 DEF TypeInv, JobTypeOK, Chunks, redisVars
  <2>8. PagesAreOfTheScope'
    BY <2>1, <2>3, <2>6 DEF TypeInv, JobTypeOK, PagesAreOfTheScope
  <2> QED
    BY <2>7, <2>8 DEF TypeInv
<1> QED
  BY <1>2, <1>3

\* The life of a process, the TTL of the lease and the other users keep the types.
LEMMA EnvironmentTypes ==
    ASSUME TypeInv,
           \/ \E r \in Runners : Stop(r) \/ Stopped(r) \/ Start(r) \/ Crash(r)
           \/ ExpireAbandoned \/ ExpireStalled
           \/ \E t \in Tasks : MoveTask(t)
    PROVE  TypeInv'
<1> USE DEF TypeInv
<1>1. ASSUME NEW r \in Runners, Stop(r) \/ Stopped(r) \/ Start(r)
      PROVE  TypeInv'
  <2>1. faults' \in 0..MaxFaults /\ mode' \in [Runners -> {"on", "stopping", "off", "dead"}]
    <3>1. CASE Stop(r)
      BY <3>1 DEF Stop, ChangeMode, Fault, JobTypeOK
    <3>2. CASE Stopped(r)
      BY <3>2 DEF Stopped, ChangeMode, JobTypeOK
    <3>3. CASE Start(r)
      BY <3>3 DEF Start, ChangeMode, JobTypeOK
    <3> QED
      BY <1>1, <3>1, <3>2, <3>3
  <2>2. UNCHANGED <<redisVars, task, acts, pending, requests, pc, tok, lost, mine, chunk>>
    BY <1>1 DEF Stop, Stopped, Start, ChangeMode
  <2>3. JobTypeOK'
    BY <2>1, <2>2 DEF JobTypeOK, redisVars, Tasks
  <2> QED
    BY <2>2, <2>3 DEF PagesAreOfTheScope
<1>2. ASSUME NEW r \in Runners, Crash(r)
      PROVE  TypeInv'
  <2>1. NoJob \in Jobs /\ NoChunk \in Chunks
    <3>1. NoJob \in Jobs
      BY NewJobTypes DEF NoJob
    <3> QED
      BY <3>1 DEF NoChunk, Chunks
  <2>2. /\ faults' \in 0..MaxFaults /\ mode' \in [Runners -> {"on", "stopping", "off", "dead"}]
        /\ lost' \in [Runners -> BOOLEAN] /\ mine' \in [Runners -> Jobs]
        /\ chunk' \in [Runners -> Chunks]
    BY <1>2, <2>1 DEF Crash, ChangeMode, Forget, Fault, JobTypeOK, Chunks
  <2>3. tok' \in [Runners -> 0..job.fence]
    <3>1. job.fence \in Nat
      BY JobFields DEF JobTypeOK
    <3> QED
      BY <1>2, <3>1 DEF Crash, Forget, JobTypeOK
  <2>4. JobTypeOK'
    BY <1>2, <2>2, <2>3 DEF Crash, ChangeMode, Goto, JobTypeOK, Chunks, redisVars, Tasks
  <2> QED
    BY <1>2, <2>4 DEF Crash, ChangeMode, Forget, Goto, JobTypeOK, PagesAreOfTheScope
<1>3. CASE ExpireAbandoned \/ ExpireStalled
  <2>1. /\ faults' \in 0..MaxFaults /\ lease' = NoOne
        /\ UNCHANGED <<job, cands, writer, task, acts, pending, requests, runnerVars>>
    BY <1>3 DEF ExpireAbandoned, ExpireStalled, Expire, Fault, JobTypeOK
  <2>2. JobTypeOK'
    BY <2>1 DEF JobTypeOK, runnerVars, Tasks
  <2> QED
    BY <2>1, <2>2 DEF PagesAreOfTheScope, runnerVars
<1>4. ASSUME NEW t \in Tasks, MoveTask(t)
      PROVE  TypeInv'
  <2>1. task' \in Seq({"in", "out", "gone"}) /\ Len(task') = Len(task) /\ Tasks' = Tasks
    BY <1>4, TaskUpdate DEF MoveTask
  <2>2. UNCHANGED <<redisVars, acts, pending, requests, runnerVars, faults>>
    BY <1>4 DEF MoveTask
  <2>3. JobTypeOK'
    <3> HIDE DEF Tasks
    <3> QED
      BY <2>1, <2>2 DEF JobTypeOK, redisVars, runnerVars
  <2> QED
    BY <2>1, <2>2, <2>3 DEF PagesAreOfTheScope, runnerVars
<1> QED
  BY <1>1, <1>2, <1>3, <1>4

\* Every step keeps the types.
LEMMA TypeStep == TypeInv /\ [Next]_vars => TypeInv'
<1> SUFFICES ASSUME TypeInv, [Next]_vars
             PROVE  TypeInv'
  OBVIOUS
<1>1. ASSUME NEW h \in Handlers, Handler(h)
      PROVE  TypeInv'
  BY <1>1, HandlerTypes
<1>2. ASSUME NEW r \in Runners, Runner(r) \/ RenewalFails(r)
      PROVE  TypeInv'
  BY <1>2, ClaimTypes, WriteTypes, BatchTypes DEF Runner
<1>3. CASE \/ \E r \in Runners : Stop(r) \/ Stopped(r) \/ Start(r) \/ Crash(r)
           \/ ExpireAbandoned \/ ExpireStalled
           \/ \E t \in Tasks : MoveTask(t)
  BY <1>3, EnvironmentTypes
<1>4. CASE UNCHANGED vars
  BY <1>4 DEF vars, redisVars, runnerVars, TypeInv, JobTypeOK, PagesAreOfTheScope, Tasks
<1> QED
  BY <1>1, <1>2, <1>3, <1>4 DEF Next

\* The types, for every scope, number of replicas and requests; the list of candidates names
\* tasks of the scope, and no token is ahead of the fence.
THEOREM JobTypeCorrect == Spec => []JobTypeOK
<1>1. Spec => []TypeInv
  BY TypeInit, TypeStep, PTL DEF Spec
<1>2. TypeInv => JobTypeOK
  BY DEF TypeInv
<1> QED
  BY <1>1, <1>2, PTL

-----------------------------------------------------------------------------
(* The lease carries the fencing token *)

\* A runner that works has a token, and no two runners have the same.
TokensAreOfClaims ==
    /\ \A r \in Runners : Works(r) <=> tok[r] # 0
    /\ \A r, s \in Runners : r # s /\ tok[r] = tok[s] => tok[r] = 0

LeaseInv == TokensAreOfClaims /\ LeaseCarriesFence

\* What a progress write may do.
LEMMA ProgressEffect ==
    ASSUME NEW r \in Runners, NEW fields, NEW list, NEW next, NEW otherwise,
           Progress(r, fields, list, next, otherwise)
    PROVE  /\ \/ /\ job.fence = tok[r] /\ job' = fields /\ cands' = list /\ writer' = tok[r]
                 /\ pc' = [pc EXCEPT ![r] = next] \/ pc' = [pc EXCEPT ![r] = otherwise]
              \/ UNCHANGED <<job, cands, writer>> /\ pc' = [pc EXCEPT ![r] = otherwise]
           /\ UNCHANGED <<lease, task, acts, pending, requests, mode, tok, lost>>
BY DEF Progress, Fenced, Goto

\* A runner that works goes on working until it releases its claim, and writes under the
\* fence only.
WorkLabels == Labels \ {"idle", "claim"}
OwnWrite(r) == Works(r) /\ tok[r] = job.fence /\ writer' = tok[r]
Onward(r) ==
    /\ UNCHANGED <<lease, tok>> /\ job'.fence = job.fence
    /\ writer' = writer \/ OwnWrite(r)
    /\ \/ UNCHANGED pc
       \/ \E l \in WorkLabels : Works(r) /\ pc' = [pc EXCEPT ![r] = l]
       \/ \E l \in {"idle", "claim"} : ~Works(r) /\ pc' = [pc EXCEPT ![r] = l]

LEMMA RunnerGoesOn ==
    ASSUME TypeInv, NEW r \in Runners, Runner(r) \/ RenewalFails(r), ~Claim(r), ~Release(r)
    PROVE  Onward(r)
<1> USE DEF WorkLabels, Labels, OwnWrite
<1>1. /\ job \in Jobs /\ mine[r] \in Jobs
  BY DEF TypeInv, JobTypeOK
<1>2. ASSUME NEW fields \in Jobs, fields.fence = job.fence, NEW list,
             NEW next \in WorkLabels, NEW otherwise \in WorkLabels, Works(r),
             Progress(r, fields, list, next, otherwise)
      PROVE  Onward(r)
  BY <1>2, ProgressEffect DEF Onward
<1>3. CASE ListJobs(r) \/ ClaimRefused(r)
  BY <1>3 DEF ListJobs, ClaimRefused, At, Goto, Onward, Works, redisVars
<1>4. CASE Load(r) \/ CheckCtl(r)
  BY <1>4 DEF Load, CheckCtl, Take, NextPage, At, Goto, Onward, Works, redisVars
<1>5. CASE Abort(r) \/ RenewBatch(r) \/ RenewalFails(r)
  BY <1>5 DEF Abort, GiveUp, RenewBatch, RenewalFails, At, Goto, Onward, Works, redisVars
<1>6. CASE DropCandidates(r) \/ ReadBatch(r) \/ Act(r)
  BY <1>6 DEF DropCandidates, ReadBatch, Act, At, Goto, Onward, Works, redisVars
<1>7. CASE FreezeQueues(r)
  <2>1. [job EXCEPT !.cursor = 1] \in Jobs /\ [job EXCEPT !.cursor = 1].fence = job.fence
    BY <1>1 DEF Jobs
  <2>2. Works(r) /\ NextPage(mine'[r]) \in WorkLabels /\ "release" \in WorkLabels
    BY <1>7 DEF FreezeQueues, At, Works, NextPage
  <2>3. CASE Progress(r, [job EXCEPT !.cursor = 1], cands, NextPage(mine'[r]), "release")
    <3> DEFINE fields == [job EXCEPT !.cursor = 1]
    <3> HIDE DEF fields
    <3> QED
      BY <1>2, <2>1, <2>2, <2>3 DEF fields
  <2>4. CASE Goto(r, "failed") /\ UNCHANGED <<redisVars, tok>>
    BY <2>2, <2>4 DEF Goto, Onward, redisVars
  <2> QED
    BY <1>7, <2>3, <2>4 DEF FreezeQueues
<1>8. CASE WritePage(r)
  <2> DEFINE j == [mine[r] EXCEPT !.candidates = @ + 1, !.cursor = @ + 1]
             fields == [job EXCEPT !.candidates = j.candidates, !.cursor = j.cursor]
             next == IF j.candidates > MaxCandidates THEN "too_large" ELSE "ctl_page"
  <2>1. fields.fence = job.fence
    <3> HIDE DEF j
    <3> QED
      BY <1>1 DEF Jobs
  <2>2. Works(r) /\ next \in WorkLabels /\ "release" \in WorkLabels
    BY <1>8 DEF WritePage, At, Works
  <2>3. Progress(r, fields, Append(cands, mine[r].cursor), next, "release")
    BY <1>8 DEF WritePage
  <2> HIDE DEF fields, next
  <2> QED
    BY <2>1, <2>2, <2>3, ProgressEffect DEF Onward
<1>9. CASE WritePause(r)
  <2>1. [job EXCEPT !.state = "paused", !.ctl = ""].fence = job.fence
    BY <1>1 DEF Jobs
  <2> DEFINE fields == [job EXCEPT !.state = "paused", !.ctl = ""]
  <2>2. Progress(r, fields, cands, "release", "release") /\ Works(r)
    BY <1>9 DEF WritePause, At, Works
  <2> HIDE DEF fields
  <2>3. fields.fence = job.fence /\ "release" \in WorkLabels
    BY <2>1 DEF fields
  <2> QED
    BY <2>2, <2>3, ProgressEffect DEF Onward
<1>10. CASE CompletePreview(r)
  <2> DEFINE st == IF job.phase = "preview" THEN "preview_ready" ELSE job.state
  <2>1. [job EXCEPT !.complete = TRUE, !.state = st].fence = job.fence
    <3> HIDE DEF st
    <3> QED
      BY <1>1 DEF Jobs
  <2> DEFINE fields == [job EXCEPT !.complete = TRUE, !.state = st]
  <2>2. Progress(r, fields, cands, "reload", "release") /\ Works(r)
    BY <1>10 DEF CompletePreview, At, Works
  <2> HIDE DEF fields, st
  <2>3. fields.fence = job.fence /\ "release" \in WorkLabels /\ "reload" \in WorkLabels
    BY <2>1 DEF fields
  <2> QED
    BY <2>2, <2>3, ProgressEffect DEF Onward
<1>11. CASE EndJob(r)
  <2>1. ASSUME NEW st \in {"canceled", "done", "failed", "too_large"},
               NEW next \in {"release", "drop"}, Finalize(r, st, next)
        PROVE  Onward(r)
    <3> DEFINE end == IF st = "too_large" THEN "failed" ELSE st
    <3>1. [job EXCEPT !.state = end, !.ctl = ""].fence = job.fence
      <4> HIDE DEF end
      <4> QED
        BY <1>1 DEF Jobs
    <3> DEFINE fields == [job EXCEPT !.state = end, !.ctl = ""]
    <3>2. Progress(r, fields, cands, next, next) /\ Works(r)
      BY <2>1 DEF Finalize, At, Works
    <3> HIDE DEF fields, end
    <3>3. fields.fence = job.fence /\ next \in WorkLabels
      BY <2>1, <3>1 DEF fields
    <3> QED
      BY <3>2, <3>3, ProgressEffect DEF Onward
  <2> QED
    BY <1>11, <2>1 DEF EndJob
<1>12. CASE WritePartial(r)
  <2>1. Counts(r).fence = job.fence
    BY CountsTypes
  <2> QED
    BY <1>12, <2>1, ProgressEffect DEF WritePartial, At, Works, Onward
<1>13. CASE WriteBatch(r)
  <2> DEFINE next == mine[r].act_cursor + chunk[r].size
             fields == [Counts(r) EXCEPT !.act_cursor = next]
  <2>1. fields.fence = job.fence
    <3>1. next \in Nat
      BY <1>1, JobFields DEF TypeInv, JobTypeOK
    <3> HIDE DEF next
    <3> QED
      BY <3>1, CountsTypes
  <2>2. Progress(r, fields, cands, "ctl_batch", "release") /\ Works(r)
    BY <1>13 DEF WriteBatch, At, Works
  <2> HIDE DEF fields
  <2> QED
    BY <2>1, <2>2, ProgressEffect DEF Onward
<1> QED
  BY <1>3, <1>4, <1>5, <1>6, <1>7, <1>8, <1>9, <1>10, <1>11, <1>12, <1>13 DEF Runner

\* No step but a claim, a release and a crash changes who works under which token, and no
\* other step hands out the lease.
LEMMA ClaimsAreStable ==
    ASSUME TypeInv, [Next]_vars, \A r \in Runners : ~Claim(r) /\ ~Release(r) /\ ~Crash(r)
    PROVE  /\ UNCHANGED tok /\ job'.fence = job.fence /\ lease' \in {lease, NoOne}
           /\ \A r \in Runners : Works(r)' <=> Works(r)
           /\ writer' = writer \/ \E r \in Runners : OwnWrite(r)
<1>1. pc \in [Runners -> Labels] /\ job \in Jobs
  BY DEF TypeInv, JobTypeOK, Labels
<1>2. ASSUME NEW h \in Handlers, Handler(h)
      PROVE  UNCHANGED <<lease, pc, tok, writer>> /\ job'.fence = job.fence
  <2>1. /\ \A st \in {"running", "previewing"}, c \in {"", "pause", "cancel"} :
             /\ [job EXCEPT !.phase = "execute", !.state = "running"].fence = job.fence
             /\ [job EXCEPT !.state = "canceled", !.ctl = ""].fence = job.fence
             /\ [job EXCEPT !.ctl = c].fence = job.fence
             /\ [job EXCEPT !.ctl = "", !.state = st].fence = job.fence
    BY <1>1 DEF Jobs
  <2>2. CASE AskExecute(h) \/ AskCancel(h) \/ AskPause(h) \/ AskResume(h) \/ FallThrough(h)
    BY <2>2 DEF AskExecute, AskCancel, AskPause, AskResume, Ask, FallThrough, redisVars, runnerVars
  <2>3. CASE WriteExecute(h) \/ FinishDormant(h)
    BY <2>1, <2>3 DEF WriteExecute, FinishDormant, Wrote, runnerVars
  <2>4. CASE WriteCtl(h)
    BY <2>1, <2>4 DEF WriteCtl, Wrote, runnerVars
  <2>5. CASE WriteResume(h)
    BY <2>1, <2>5 DEF WriteResume, Wrote, runnerVars
  <2> QED
    BY <1>2, <2>2, <2>3, <2>4, <2>5 DEF Handler
<1>3. ASSUME NEW r \in Runners, Onward(r)
      PROVE  /\ UNCHANGED <<lease, tok>> /\ job'.fence = job.fence
             /\ writer' = writer \/ \E s \in Runners : OwnWrite(s)
             /\ \A s \in Runners : Works(s)' <=> Works(s)
  BY <1>1, <1>3 DEF Onward, Works, WorkLabels
<1>4. ASSUME NEW r \in Runners, Stop(r) \/ Stopped(r) \/ Start(r)
      PROVE  UNCHANGED <<lease, pc, tok, job, writer>>
  BY <1>4 DEF Stop, Stopped, Start, ChangeMode, redisVars
<1>5. CASE ExpireAbandoned \/ ExpireStalled
  BY <1>5 DEF ExpireAbandoned, ExpireStalled, Expire, runnerVars, Works
<1>6. ASSUME NEW t \in Tasks, MoveTask(t)
      PROVE  UNCHANGED <<lease, pc, tok, job, writer>>
  BY <1>6 DEF MoveTask, redisVars, runnerVars
<1>7. CASE UNCHANGED vars
  BY <1>7 DEF vars, redisVars, runnerVars, Works
<1> QED
  BY <1>2, <1>3, <1>4, <1>5, <1>6, <1>7, RunnerGoesOn DEF Next, Works

\* A claim is granted under a new token while nobody has the lease; a release and a crash
\* forget the token.
LEMMA LeaseStep == TypeInv /\ LeaseInv /\ [Next]_vars => LeaseInv'
<1> SUFFICES ASSUME TypeInv, LeaseInv, [Next]_vars
             PROVE  LeaseInv'
  OBVIOUS
<1>1. /\ job \in Jobs /\ job.fence \in Nat /\ tok \in [Runners -> 0..job.fence]
      /\ pc \in [Runners -> Labels] /\ lease \in Runners \cup {NoOne}
  BY JobFields DEF TypeInv, JobTypeOK, Labels
<1>2. ASSUME NEW r \in Runners, Claim(r)
      PROVE  LeaseInv'
  <2>1. job'.fence = job.fence + 1
    BY <1>1, <1>2, NextToken DEF Claim
  <2>2. ~Works(r) /\ lease = NoOne /\ lease' = r
    BY <1>2 DEF Claim, At, Works
  <2>3. CASE pc' = [pc EXCEPT ![r] = "load"] /\ tok' = [tok EXCEPT ![r] = job'.fence]
    BY <1>1, <2>1, <2>2, <2>3 DEF LeaseInv, TokensAreOfClaims, LeaseCarriesFence, Works
  <2>4. CASE pc' = [pc EXCEPT ![r] = "idle"] /\ tok' = tok
    BY <1>1, <2>1, <2>2, <2>4 DEF LeaseInv, TokensAreOfClaims, LeaseCarriesFence, Works
  <2> QED
    BY <1>2, <2>3, <2>4 DEF Claim, Goto
<1>3. ASSUME NEW r \in Runners, Release(r) \/ Crash(r)
      PROVE  LeaseInv'
  <2>1. /\ pc' = [pc EXCEPT ![r] = "idle"] /\ tok' = [tok EXCEPT ![r] = 0] /\ job' = job
        /\ lease' \in {lease, NoOne}
    BY <1>3 DEF Release, Crash, ChangeMode, Goto, Forget, redisVars
  <2> QED
    BY <1>1, <2>1 DEF LeaseInv, TokensAreOfClaims, LeaseCarriesFence, Works
<1>4. CASE \A r \in Runners : ~Claim(r) /\ ~Release(r) /\ ~Crash(r)
  <2>1. /\ UNCHANGED tok /\ job'.fence = job.fence /\ lease' \in {lease, NoOne}
        /\ \A r \in Runners : Works(r)' <=> Works(r)
    BY <1>4, ClaimsAreStable
  <2> QED
    BY <2>1 DEF LeaseInv, TokensAreOfClaims, LeaseCarriesFence
<1> QED
  BY <1>2, <1>3, <1>4

LEMMA LeaseInit == Init => LeaseInv
BY DEF Init, LeaseInv, TokensAreOfClaims, LeaseCarriesFence, Works

\* However leases are lost, runners stall and releases come late: a runner that works and has
\* the lease is the last claimer, so its renewal before a batch checks the token, too.
THEOREM LeaseIsOfLastClaimer == Spec => []LeaseCarriesFence
<1>1. Spec => [](TypeInv /\ LeaseInv)
  BY TypeInit, TypeStep, LeaseInit, LeaseStep, PTL DEF Spec
<1>2. LeaseInv => LeaseCarriesFence
  BY DEF LeaseInv
<1> QED
  BY <1>1, <1>2, PTL
-----------------------------------------------------------------------------
(* Progress is written by the last claimer: the job implements SingleWriter *)

LEMMA RoleInit == Init => JobRole!Init
<1> SUFFICES ASSUME Init PROVE JobRole!Init
  OBVIOUS
<1>1. PICK v \in Verbs : job = NewJob(v)
  BY DEF Init
<1> QED
  BY <1>1 DEF Init, NewJob, JobRole!Init

LEMMA RoleStep ==
    TypeInv /\ LeaseInv /\ [Next]_vars => [JobRole!Next]_<<job.fence, writer>>
<1> SUFFICES ASSUME TypeInv, LeaseInv, [Next]_vars
             PROVE  [JobRole!Next]_<<job.fence, writer>>
  OBVIOUS
<1>1. job \in Jobs /\ job.fence \in Nat /\ tok \in [Runners -> 0..job.fence]
  BY JobFields DEF TypeInv, JobTypeOK
<1>2. ASSUME NEW r \in Runners, Claim(r)
      PROVE  JobRole!Claim
  BY <1>1, <1>2, NextToken DEF Claim, JobRole!Claim
<1>3. ASSUME NEW r \in Runners, Release(r) \/ Crash(r)
      PROVE  UNCHANGED <<job.fence, writer>>
  BY <1>3 DEF Release, Crash, ChangeMode, redisVars
<1>4. CASE \A r \in Runners : ~Claim(r) /\ ~Release(r) /\ ~Crash(r)
  <2>1. /\ job'.fence = job.fence
        /\ writer' = writer \/ \E r \in Runners : OwnWrite(r)
    BY <1>4, ClaimsAreStable
  <2>2. ASSUME NEW r \in Runners, OwnWrite(r)
        PROVE  JobRole!Write
    BY <1>1, <2>1, <2>2 DEF OwnWrite, LeaseInv, TokensAreOfClaims, JobRole!Write
  <2> QED
    BY <2>1, <2>2 DEF JobRole!Next
<1> QED
  BY <1>2, <1>3, <1>4 DEF JobRole!Next

\* Every claim is a new epoch, and whatever a runner persists about the job (a page and its
\* cursor, a batch's counts, a state) is written by the last claim, however many replicas
\* stall, crash and come back: the job is a single-writer role.
THEOREM JobIsSingleWriter == Spec => JobRoleSpec
<1>1. Spec => [](TypeInv /\ LeaseInv)
  BY TypeInit, TypeStep, LeaseInit, LeaseStep, PTL DEF Spec
<1> QED
  BY <1>1, RoleInit, RoleStep, PTL DEF Spec, JobRoleSpec, JobRole!Spec
===============================================================================
