-------------------------- MODULE BulkJobWork_proofs --------------------------
(***************************************************************************)
(* Proofs about the work that runners do in BulkJob, from its types and    *)
(* its lease (BulkJob_proofs):                                             *)
(*   - a batch is begun by the last claimer of a job that was let through; *)
(*   - no runner and no compare-and-set revives a job that ended;          *)
(*   - the candidate list follows the cursor and the results are honest,   *)
(*     as long as the scope fits under the cap on candidates.              *)
(***************************************************************************)
EXTENDS BulkJob_proofs

-----------------------------------------------------------------------------
(* The runner that owns the job is in step with it *)

Own(r) == Works(r) /\ tok[r] = job.fence

Listing == {"page", "ctl_page", "complete"}
Executing == {"batch", "read", "act", "ctl_batch", "done"}
Ending == {"paused", "canceled", "failed", "too_large"}

\* What the place of its owner says about the job.
InStep(j, label) ==
    /\ label \in Listing => ~j.complete
    /\ label \in Executing \cup {"reload"} => j.complete
    /\ label \in Executing => j.phase = "execute"
    /\ label \in Listing \cup Executing \cup Ending => j.state \in Claimable

OwnerIsInStep == \A r \in Runners : Own(r) => InStep(job, pc[r])

\* A job that only counts passes no execute gate.
CountIsNeverExecuted ==
    /\ job.phase = "execute" => job.verb # "count"
    /\ \A h \in Handlers : pending[h] = "execute" => job.verb # "count"

GateInv == OwnerIsInStep /\ CountIsNeverExecuted

\* While one runner owns the job, no other does.
LEMMA OneOwner ==
    ASSUME TypeInv, LeaseInv, NEW r \in Runners, NEW s \in Runners, Own(r), Own(s)
    PROVE  r = s
BY DEF LeaseInv, TokensAreOfClaims, Own

\* A progress write of the owner keeps it in step; that of another runner is refused.
LEMMA GateProgress ==
    ASSUME TypeInv, LeaseInv, GateInv, NEW r \in Runners, Works(r),
           NEW fields, NEW list, NEW next \in WorkLabels, NEW otherwise \in {"release", "drop"},
           Progress(r, fields, list, next, otherwise),
           fields.fence = job.fence, fields.phase = job.phase, fields.verb = job.verb,
           Own(r) => InStep(fields, next)
    PROVE  GateInv'
<1>1. pc \in [Runners -> Labels]
  BY DEF TypeInv, JobTypeOK, Labels
<1>2. /\ job' = job \/ (Own(r) /\ job' = fields)
      /\ \/ Own(r) /\ job' = fields /\ pc' = [pc EXCEPT ![r] = next]
         \/ pc' = [pc EXCEPT ![r] = otherwise]
      /\ UNCHANGED <<tok, pending>>
  BY ProgressEffect DEF Own
<1>3. CountIsNeverExecuted'
  BY <1>2 DEF GateInv, CountIsNeverExecuted
<1>4. ASSUME NEW s \in Runners, Own(s)'
      PROVE  InStep(job', pc'[s])
  <2>1. job'.fence = job.fence
    BY <1>2
  <2>2. CASE s = r
    <3>1. CASE pc' = [pc EXCEPT ![r] = otherwise]
      BY <1>1, <2>2, <3>1 DEF InStep, Listing, Executing, Ending
    <3>2. CASE Own(r) /\ job' = fields /\ pc' = [pc EXCEPT ![r] = next]
      BY <1>1, <2>2, <3>2
    <3> QED
      BY <1>2, <3>1, <3>2
  <2>3. CASE s # r
    <3>1. pc'[s] = pc[s] /\ tok'[s] = tok[s]
      BY <1>1, <1>2, <2>3
    <3>2. Own(s)
      BY <1>4, <2>1, <3>1 DEF Own, Works
    <3>3. job' = job
      BY <1>2, <2>3, <3>2, OneOwner
    <3> QED
      BY <3>1, <3>2, <3>3 DEF GateInv, OwnerIsInStep
  <2> QED
    BY <2>2, <2>3
<1> QED
  BY <1>3, <1>4 DEF GateInv, OwnerIsInStep

\* So does a step that leaves the job alone and takes a runner somewhere it may be.
LEMMA GateMove ==
    ASSUME TypeInv, GateInv, UNCHANGED <<job, tok, pending>>, NEW r \in Runners,
           NEW label, pc' = [pc EXCEPT ![r] = label],
           Works(r) \/ label \in {"idle", "claim"}, Own(r) => InStep(job, label)
    PROVE  GateInv'
<1>1. pc \in [Runners -> Labels]
  BY DEF TypeInv, JobTypeOK, Labels
<1>2. CountIsNeverExecuted'
  BY DEF GateInv, CountIsNeverExecuted
<1>3. ASSUME NEW s \in Runners, Own(s)'
      PROVE  InStep(job', pc'[s])
  <2>1. CASE s = r
    BY <1>1, <1>3, <2>1 DEF Own, Works
  <2>2. CASE s # r
    BY <1>1, <1>3, <2>2 DEF Own, Works, GateInv, OwnerIsInStep
  <2> QED
    BY <2>1, <2>2
<1> QED
  BY <1>2, <1>3 DEF GateInv, OwnerIsInStep

\* The requests: none takes the job from under its owner, and execute is let through only.
LEMMA GateHandler ==
    ASSUME TypeInv, GateInv, NEW h \in Handlers, Handler(h)
    PROVE  GateInv'
<1>1. job \in Jobs /\ job.state \in States /\ job.complete \in BOOLEAN
      /\ pending \in [Handlers -> {"none", "execute", "finish", "cancel", "pause", "resume",
                                   "to_running", "to_previewing"}]
  BY JobFields DEF TypeInv, JobTypeOK
<1>2. ASSUME NEW op, NEW write, Ask(h, op, write), write = "execute" => job.verb # "count"
      PROVE  GateInv'
  BY <1>1, <1>2 DEF Ask, GateInv, OwnerIsInStep, CountIsNeverExecuted, Own, Works, redisVars,
                    runnerVars
<1>3. ASSUME NEW fields, Wrote(h, fields), fields.fence = job.fence, fields.verb = job.verb,
             fields.complete = job.complete,
             fields.phase \in {job.phase, "execute"},
             fields.phase = "execute" => job.verb # "count",
             job.state \in Claimable => fields.state \in Claimable
      PROVE  GateInv'
  <2>1. CountIsNeverExecuted'
    BY <1>1, <1>3 DEF Wrote, GateInv, CountIsNeverExecuted
  <2>2. ASSUME NEW s \in Runners, Own(s)'
        PROVE  InStep(job', pc'[s])
    <3>1. job' = fields /\ pc' = pc /\ Own(s)
      BY <1>3, <2>2 DEF Wrote, runnerVars, Own, Works
    <3>2. InStep(job, pc[s])
      BY <3>1 DEF GateInv, OwnerIsInStep
    <3> QED
      BY <1>3, <3>1, <3>2 DEF InStep
  <2> QED
    BY <2>1, <2>2 DEF GateInv, OwnerIsInStep
<1>4. CASE AskExecute(h)
  BY <1>2, <1>4 DEF AskExecute
<1>5. CASE AskCancel(h) \/ AskPause(h) \/ AskResume(h)
  BY <1>2, <1>5 DEF AskCancel, AskPause, AskResume
<1>6. CASE WriteExecute(h)
  <2>1. job.verb # "count"
    BY <1>6 DEF WriteExecute, GateInv, CountIsNeverExecuted
  <2> DEFINE fields == [job EXCEPT !.phase = "execute", !.state = "running"]
  <2>2. /\ fields.fence = job.fence /\ fields.verb = job.verb /\ fields.complete = job.complete
        /\ fields.phase = "execute" /\ fields.state \in Claimable
    BY <1>1 DEF Jobs, Claimable
  <2>3. Wrote(h, fields) \/ Wrote(h, job)
    BY <1>6 DEF WriteExecute
  <2> HIDE DEF fields
  <2>4. CASE Wrote(h, fields)
    BY <1>3, <2>1, <2>2, <2>4
  <2>5. CASE Wrote(h, job)
    BY <1>3, <2>1, <2>5
  <2> QED
    BY <2>3, <2>4, <2>5
<1>7. CASE FinishDormant(h)
  <2> DEFINE fields == [job EXCEPT !.state = "canceled", !.ctl = ""]
  <2>1. /\ fields.fence = job.fence /\ fields.verb = job.verb /\ fields.complete = job.complete
        /\ fields.phase = job.phase
    BY <1>1 DEF Jobs
  <2>2. Wrote(h, fields) /\ job.state \notin Claimable
    BY <1>7 DEF FinishDormant, Claimable
  <2> HIDE DEF fields
  <2>3. fields.phase = "execute" => job.verb # "count"
    BY <2>1 DEF GateInv, CountIsNeverExecuted
  <2> QED
    BY <1>3, <2>1, <2>2, <2>3
<1>8. CASE FallThrough(h)
  BY <1>1, <1>8 DEF FallThrough, GateInv, OwnerIsInStep, CountIsNeverExecuted, Own, Works,
                    redisVars, runnerVars
<1>9. CASE WriteCtl(h)
  <2> DEFINE ctl == IF pending[h] = "resume" THEN "" ELSE pending[h]
             fields == [job EXCEPT !.ctl = ctl]
  <2>1. /\ fields.fence = job.fence /\ fields.verb = job.verb /\ fields.complete = job.complete
        /\ fields.phase = job.phase /\ fields.state = job.state
    <3> HIDE DEF ctl
    <3> QED
      BY <1>1 DEF Jobs
  <2>2. Wrote(h, fields)
    BY <1>9 DEF WriteCtl
  <2> HIDE DEF fields
  <2>3. fields.phase = "execute" => job.verb # "count"
    BY <2>1 DEF GateInv, CountIsNeverExecuted
  <2> QED
    BY <1>3, <2>1, <2>2, <2>3
<1>10. CASE WriteResume(h)
  <2> DEFINE st == IF pending[h] = "to_running" THEN "running" ELSE "previewing"
             fields == [job EXCEPT !.ctl = "", !.state = st]
  <2>1. /\ fields.fence = job.fence /\ fields.verb = job.verb /\ fields.complete = job.complete
        /\ fields.phase = job.phase /\ fields.state = st
    <3> HIDE DEF st
    <3> QED
      BY <1>1 DEF Jobs
  <2>2. Wrote(h, fields) /\ st \in Claimable
    BY <1>10 DEF WriteResume, Claimable
  <2> HIDE DEF fields, st
  <2>3. fields.phase = "execute" => job.verb # "count"
    BY <2>1 DEF GateInv, CountIsNeverExecuted
  <2> QED
    BY <1>3, <2>1, <2>2, <2>3
<1> QED
  BY <1>4, <1>5, <1>6, <1>7, <1>8, <1>9, <1>10 DEF Handler

\* What a runner does between its writes: it lists and claims, loads the job, checks for
\* requests, renews, acts and releases.
LEMMA GateReads ==
    ASSUME TypeInv, LeaseInv, GateInv, NEW r \in Runners,
           \/ ListJobs(r) \/ Claim(r) \/ ClaimRefused(r) \/ Load(r) \/ CheckCtl(r) \/ Abort(r)
           \/ DropCandidates(r) \/ RenewBatch(r) \/ ReadBatch(r) \/ Act(r) \/ Release(r)
           \/ RenewalFails(r)
    PROVE  GateInv'
<1> USE DEF InStep, Listing, Executing, Ending
<1>1. /\ job \in Jobs /\ job.fence \in Nat /\ job.complete \in BOOLEAN
      /\ pc \in [Runners -> Labels] /\ tok \in [Runners -> 0..job.fence]
  BY JobFields DEF TypeInv, JobTypeOK, Labels
<1>2. Own(r) => InStep(job, pc[r])
  BY DEF GateInv, OwnerIsInStep
<1>3. CASE ListJobs(r) \/ ClaimRefused(r)
  BY <1>3, GateMove DEF ListJobs, ClaimRefused, Goto, redisVars
<1>4. CASE Claim(r)
  <2>1. /\ job'.fence = job.fence + 1 /\ job'.phase = job.phase /\ job'.verb = job.verb
        /\ pending' = pending
    <3>1. job' = [job EXCEPT !.fence = @ + 1] /\ pending' = pending
      BY <1>4 DEF Claim
    <3>2. ASSUME NEW n \in Nat
          PROVE  /\ [job EXCEPT !.fence = n].phase = job.phase
                 /\ [job EXCEPT !.fence = n].verb = job.verb
                 /\ [job EXCEPT !.fence = n].fence = n
      BY <1>1 DEF Jobs
    <3> QED
      BY <1>1, <3>1, <3>2
  <2>2. CountIsNeverExecuted'
    BY <2>1 DEF GateInv, CountIsNeverExecuted
  <2>3. ASSUME NEW s \in Runners, Own(s)'
        PROVE  s = r /\ pc'[s] \in {"idle", "load"}
    BY <1>1, <1>4, <2>1, <2>3 DEF Claim, Own, Goto
  <2> QED
    BY <2>2, <2>3 DEF GateInv, OwnerIsInStep
<1>5. CASE Load(r)
  <2>1. ASSUME NEW label, Take(r, job, label), InStep(job, label), Works(r)
        PROVE  GateInv'
    BY <2>1, GateMove DEF Take, Goto, redisVars
  <2>2. Works(r)
    BY <1>5 DEF Load, At, Works
  <2>3. CASE At(r, "load") /\ job.state \in Claimable /\ ~job.complete /\ Take(r, job, NextPage(job))
    BY <2>1, <2>2, <2>3 DEF NextPage
  <2> DEFINE next == IF job.phase = "execute" /\ job.state = "running" THEN "batch" ELSE "release"
  <2>4. CASE /\ Take(r, job, next)
             /\ \/ At(r, "load") /\ (job.state \notin Claimable \/ job.complete)
                \/ At(r, "reload")
    <3>1. CASE job.complete
      <4>1. InStep(job, next)
        BY <3>1 DEF Claimable
      <4> HIDE DEF next
      <4> QED
        BY <2>1, <2>2, <2>4, <4>1
    <3>2. CASE At(r, "load") /\ job.state \notin Claimable
      <4>1. next = "release"
        BY <3>2 DEF Claimable
      <4> HIDE DEF next
      <4> QED
        BY <2>1, <2>2, <2>4, <4>1
    <3>3. CASE At(r, "reload") /\ ~job.complete
      <4>1. ~Own(r)
        BY <1>2, <3>3 DEF At
      <4> HIDE DEF next
      <4>2. pc' = [pc EXCEPT ![r] = next] /\ UNCHANGED <<job, tok, pending>>
        BY <2>4 DEF Take, Goto, redisVars
      <4> QED
        BY <2>2, <4>1, <4>2, GateMove
    <3> QED
      BY <2>4, <3>1, <3>2, <3>3, <1>1
  <2> QED
    BY <1>5, <2>3, <2>4 DEF Load
<1>6. CASE CheckCtl(r)
  <2>1. Works(r) /\ pc[r] \in {"ctl_page", "ctl_batch"}
    BY <1>6 DEF CheckCtl, Works
  <2>2. PICK label : /\ UNCHANGED <<job, tok, pending>> /\ pc' = [pc EXCEPT ![r] = label]
                     /\ \/ label \in {"canceled", "paused"}
                        \/ pc[r] = "ctl_page" /\ label \in {"page", "complete"}
                        \/ pc[r] = "ctl_batch" /\ label = "batch"
    BY <1>6 DEF CheckCtl, Take, Goto, NextPage, redisVars
  <2>3. Own(r) => InStep(job, label)
    BY <1>2, <2>1, <2>2
  <2> HIDE DEF InStep
  <2> QED
    BY <2>1, <2>2, <2>3, GateMove
<1>7. CASE Abort(r) \/ DropCandidates(r)
  <2>1. pc' = [pc EXCEPT ![r] = "release"] /\ UNCHANGED <<job, tok, pending>> /\ Works(r)
    BY <1>7 DEF Abort, GiveUp, DropCandidates, Goto, redisVars, Works, At
  <2> QED
    BY <2>1, GateMove
<1>8. CASE RenewBatch(r) \/ ReadBatch(r)
  <2>1. /\ Works(r) /\ UNCHANGED <<job, tok, pending>> /\ pc[r] \in {"batch", "read"}
        /\ \E label \in {"release", "read", "act", "done"} : pc' = [pc EXCEPT ![r] = label]
    BY <1>8 DEF RenewBatch, ReadBatch, Goto, redisVars, Works, At
  <2>2. PICK label \in {"release", "read", "act", "done"} : pc' = [pc EXCEPT ![r] = label]
    BY <2>1
  <2>3. Own(r) => InStep(job, label)
    BY <1>2, <2>1
  <2> HIDE DEF InStep
  <2> QED
    BY <2>1, <2>2, <2>3, GateMove
<1>9. CASE Act(r) \/ RenewalFails(r)
  BY <1>9 DEF Act, RenewalFails, GateInv, OwnerIsInStep, CountIsNeverExecuted, Own, Works,
              redisVars
<1>10. CASE Release(r)
  BY <1>1, <1>10, GateMove DEF Release, Goto, Forget, GateInv, OwnerIsInStep,
                                CountIsNeverExecuted, Own, Works
<1> QED
  BY <1>3, <1>4, <1>5, <1>6, <1>7, <1>8, <1>9, <1>10

\* The writes of a runner: pages, states, counts.
LEMMA GateWrites ==
    ASSUME TypeInv, LeaseInv, GateInv, NEW r \in Runners,
           \/ FreezeQueues(r) \/ WritePage(r) \/ WritePause(r) \/ CompletePreview(r)
           \/ EndJob(r) \/ WritePartial(r) \/ WriteBatch(r)
    PROVE  GateInv'
<1> USE DEF InStep, Listing, Executing, Ending, WorkLabels, Labels
<1>1. /\ job \in Jobs /\ mine[r] \in Jobs /\ job.complete \in BOOLEAN
  BY JobFields DEF TypeInv, JobTypeOK
<1>2. Own(r) => InStep(job, pc[r])
  BY DEF GateInv, OwnerIsInStep
<1>3. ASSUME NEW fields, NEW list, NEW next \in WorkLabels, NEW otherwise \in {"release", "drop"},
             Progress(r, fields, list, next, otherwise), Works(r),
             fields.fence = job.fence, fields.phase = job.phase, fields.verb = job.verb,
             Own(r) => InStep(fields, next)
      PROVE  GateInv'
  BY <1>3, GateProgress
<1>4. CASE FreezeQueues(r)
  <2> DEFINE fields == [job EXCEPT !.cursor = 1]
             next == NextPage(mine'[r])
  <2>1. /\ fields.fence = job.fence /\ fields.phase = job.phase /\ fields.verb = job.verb
        /\ fields.complete = job.complete /\ fields.state = job.state
    BY <1>1 DEF Jobs
  <2>2. /\ next \in {"complete", "page"} /\ pc[r] = "page" /\ Works(r)
        /\ \/ Progress(r, fields, cands, next, "release")
           \/ pc' = [pc EXCEPT ![r] = "failed"] /\ UNCHANGED <<job, tok, pending>>
    BY <1>4 DEF FreezeQueues, NextPage, At, Works, Goto, redisVars
  <2> HIDE DEF fields, next
  <2>3. Own(r) => InStep(fields, next) /\ InStep(job, "failed")
    BY <1>2, <2>1, <2>2
  <2> HIDE DEF InStep
  <2>4. next \in WorkLabels
    BY <2>2
  <2> QED
    BY <1>3, <2>1, <2>2, <2>3, <2>4, GateMove
<1>5. CASE WritePage(r)
  <2> DEFINE j == [mine[r] EXCEPT !.candidates = @ + 1, !.cursor = @ + 1]
             fields == [job EXCEPT !.candidates = j.candidates, !.cursor = j.cursor]
             next == IF j.candidates > MaxCandidates THEN "too_large" ELSE "ctl_page"
  <2>1. /\ fields.fence = job.fence /\ fields.phase = job.phase /\ fields.verb = job.verb
        /\ fields.complete = job.complete /\ fields.state = job.state
    <3> HIDE DEF j
    <3> QED
      BY <1>1 DEF Jobs
  <2>2. /\ next \in {"too_large", "ctl_page"} /\ pc[r] = "page" /\ Works(r)
        /\ Progress(r, fields, Append(cands, mine[r].cursor), next, "release")
    BY <1>5 DEF WritePage, At, Works
  <2> HIDE DEF fields, next
  <2>3. Own(r) => InStep(fields, next)
    BY <1>2, <2>1, <2>2
  <2> HIDE DEF InStep
  <2> QED
    BY <1>3, <2>1, <2>2, <2>3
<1>6. CASE WritePause(r)
  <2> DEFINE fields == [job EXCEPT !.state = "paused", !.ctl = ""]
  <2>1. fields.fence = job.fence /\ fields.phase = job.phase /\ fields.verb = job.verb
    BY <1>1 DEF Jobs
  <2>2. Progress(r, fields, cands, "release", "release") /\ Works(r)
    BY <1>6 DEF WritePause, At, Works
  <2> HIDE DEF fields
  <2> QED
    BY <1>3, <2>1, <2>2
<1>7. CASE CompletePreview(r)
  <2> DEFINE st == IF job.phase = "preview" THEN "preview_ready" ELSE job.state
             fields == [job EXCEPT !.complete = TRUE, !.state = st]
  <2>1. /\ fields.fence = job.fence /\ fields.phase = job.phase /\ fields.verb = job.verb
        /\ fields.complete = TRUE
    <3> HIDE DEF st
    <3> QED
      BY <1>1 DEF Jobs
  <2>2. Progress(r, fields, cands, "reload", "release") /\ Works(r)
    BY <1>7 DEF CompletePreview, At, Works
  <2> HIDE DEF fields, st
  <2> QED
    BY <1>3, <2>1, <2>2
<1>8. CASE EndJob(r)
  <2>1. ASSUME NEW st \in {"canceled", "done", "failed", "too_large"},
               NEW next \in {"release", "drop"}, Finalize(r, st, next)
        PROVE  GateInv'
    <3> DEFINE end == IF st = "too_large" THEN "failed" ELSE st
               fields == [job EXCEPT !.state = end, !.ctl = ""]
    <3>1. fields.fence = job.fence /\ fields.phase = job.phase /\ fields.verb = job.verb
      <4> HIDE DEF end
      <4> QED
        BY <1>1 DEF Jobs
    <3>2. Progress(r, fields, cands, next, next) /\ Works(r)
      BY <2>1 DEF Finalize, At, Works
    <3> HIDE DEF fields, end
    <3> QED
      BY <1>3, <3>1, <3>2
  <2> QED
    BY <1>8, <2>1 DEF EndJob
<1>9. ASSUME NEW n \in Nat
      PROVE  /\ Counts(r).fence = job.fence /\ Counts(r).phase = job.phase
             /\ Counts(r).verb = job.verb /\ Counts(r).complete = job.complete
             /\ Counts(r).state = job.state
             /\ [Counts(r) EXCEPT !.act_cursor = n].fence = job.fence
             /\ [Counts(r) EXCEPT !.act_cursor = n].phase = job.phase
             /\ [Counts(r) EXCEPT !.act_cursor = n].verb = job.verb
             /\ [Counts(r) EXCEPT !.act_cursor = n].complete = job.complete
             /\ [Counts(r) EXCEPT !.act_cursor = n].state = job.state
  BY <1>1 DEF Counts, Jobs
<1>10. CASE WritePartial(r)
  <2>1. Progress(r, Counts(r), cands, "release", "release") /\ Works(r)
    BY <1>10 DEF WritePartial, At, Works
  <2> QED
    BY <1>3, <1>9, <2>1
<1>11. CASE WriteBatch(r)
  <2> DEFINE n == mine[r].act_cursor + chunk[r].size
             fields == [Counts(r) EXCEPT !.act_cursor = n]
  <2>1. n \in Nat
    BY <1>1, JobFields DEF TypeInv, JobTypeOK
  <2> HIDE DEF n
  <2>2. /\ fields.fence = job.fence /\ fields.phase = job.phase /\ fields.verb = job.verb
        /\ fields.complete = job.complete /\ fields.state = job.state
    BY <1>9, <2>1
  <2>3. Progress(r, fields, cands, "ctl_batch", "release") /\ Works(r) /\ pc[r] = "act"
    BY <1>11 DEF WriteBatch, At, Works, n
  <2> HIDE DEF fields
  <2>4. Own(r) => InStep(fields, "ctl_batch")
    BY <1>2, <2>2, <2>3
  <2> HIDE DEF InStep
  <2> QED
    BY <1>3, <2>2, <2>3, <2>4
<1> QED
  BY <1>4, <1>5, <1>6, <1>7, <1>8, <1>10, <1>11

LEMMA GateStep == TypeInv /\ LeaseInv /\ GateInv /\ [Next]_vars => GateInv'
<1> SUFFICES ASSUME TypeInv, LeaseInv, GateInv, [Next]_vars
             PROVE  GateInv'
  OBVIOUS
<1>1. ASSUME NEW h \in Handlers, Handler(h)
      PROVE  GateInv'
  BY <1>1, GateHandler
<1>2. ASSUME NEW r \in Runners, Runner(r) \/ RenewalFails(r)
      PROVE  GateInv'
  BY <1>2, GateReads, GateWrites DEF Runner
<1>3. ASSUME NEW r \in Runners, Crash(r)
      PROVE  GateInv'
  <2>1. pc \in [Runners -> Labels] /\ tok \in [Runners -> 0..job.fence]
    BY DEF TypeInv, JobTypeOK, Labels
  <2> QED
    BY <1>3, <2>1 DEF Crash, ChangeMode, Goto, Forget, redisVars, GateInv, OwnerIsInStep,
                      CountIsNeverExecuted, Own, Works
<1>4. CASE UNCHANGED <<job, pc, tok, pending>>
  BY <1>4 DEF GateInv, OwnerIsInStep, CountIsNeverExecuted, Own, Works
<1>5. CASE \/ \E r \in Runners : Stop(r) \/ Stopped(r) \/ Start(r)
           \/ ExpireAbandoned \/ ExpireStalled
           \/ \E t \in Tasks : MoveTask(t)
           \/ UNCHANGED vars
  BY <1>4, <1>5 DEF Stop, Stopped, Start, ChangeMode, ExpireAbandoned, ExpireStalled, Expire,
                    MoveTask, vars, redisVars, runnerVars
<1> QED
  BY <1>1, <1>2, <1>3, <1>5 DEF Next

LEMMA GateInit == Init => GateInv
<1> SUFFICES ASSUME Init PROVE GateInv
  OBVIOUS
<1>1. PICK v \in Verbs : job = NewJob(v)
  BY DEF Init
<1> QED
  BY <1>1 DEF Init, NewJob, GateInv, OwnerIsInStep, CountIsNeverExecuted, Own, Works

JobInv == TypeInv /\ LeaseInv /\ GateInv

LEMMA JobInvariant == Spec => []JobInv
BY TypeInit, TypeStep, LeaseInit, LeaseStep, GateInit, GateStep, PTL DEF Spec, JobInv

-----------------------------------------------------------------------------
(* Batches *)

\* A runner's step moves no other runner.
LEMMA OthersStay ==
    ASSUME TypeInv, NEW r \in Runners, NEW s \in Runners \ {r}, Runner(s) \/ RenewalFails(s)
    PROVE  pc'[r] = pc[r]
<1>1. pc \in [Runners -> Labels]
  BY DEF TypeInv, JobTypeOK, Labels
<1>2. CASE Claim(s) \/ Release(s)
  BY <1>1, <1>2 DEF Claim, Release, Goto
<1>3. CASE ~Claim(s) /\ ~Release(s)
  BY <1>1, <1>3, RunnerGoesOn DEF Onward
<1> QED
  BY <1>2, <1>3

\* Nothing but the renewal takes a runner into a batch.
LEMMA BatchesAreRenewed ==
    ASSUME TypeInv, [Next]_vars, NEW r \in Runners, pc[r] = "batch", pc'[r] = "read"
    PROVE  RenewBatch(r) /\ lease = r
<1>1. pc \in [Runners -> Labels]
  BY DEF TypeInv, JobTypeOK, Labels
<1>2. CASE Runner(r)
  <2>1. RenewBatch(r) \/ Abort(r)
    BY <1>2 DEF Runner, ListJobs, Claim, ClaimRefused, Load, FreezeQueues, WritePage, CheckCtl,
                WritePause, CompletePreview, EndJob, Finalize, DropCandidates, ReadBatch, Act,
                WritePartial, WriteBatch, Release, At
  <2>2. ~Abort(r)
    BY <1>1 DEF Abort, GiveUp, Goto
  <2> QED
    BY <1>1, <2>1, <2>2 DEF RenewBatch, Goto
<1>3. ~RenewalFails(r)
  BY DEF RenewalFails
<1>4. ASSUME NEW s \in Runners \ {r}, Runner(s) \/ RenewalFails(s)
      PROVE  FALSE
  BY <1>4, OthersStay
<1>5. ASSUME NEW h \in Handlers, Handler(h)
      PROVE  FALSE
  BY <1>5 DEF Handler, AskExecute, AskCancel, AskPause, AskResume, Ask, WriteExecute,
              FinishDormant, FallThrough, WriteCtl, WriteResume, Wrote, runnerVars
<1>6. ASSUME NEW s \in Runners, Stop(s) \/ Stopped(s) \/ Start(s) \/ Crash(s)
      PROVE  FALSE
  BY <1>1, <1>6 DEF Stop, Stopped, Start, Crash, Goto
<1>7. ~ExpireAbandoned /\ ~ExpireStalled
  BY DEF ExpireAbandoned, ExpireStalled, Expire, runnerVars
<1>8. ASSUME NEW t \in Tasks, MoveTask(t)
      PROVE  FALSE
  BY <1>8 DEF MoveTask, runnerVars
<1>9. ~UNCHANGED vars
  BY DEF vars, runnerVars
<1> QED
  BY <1>2, <1>3, <1>4, <1>5, <1>6, <1>7, <1>8, <1>9 DEF Next

\* Whoever begins a batch has the lease at that instant and is the last claimer; the preview is
\* complete, the job was let through by the execute gate and is running (or was relabeled by a
\* late resume), and it is none that only counts.
THEOREM BatchesAreOfTheOwner == Spec => BatchStartsOwned
<1>1. ASSUME JobInv, [Next]_vars, NEW r \in Runners, pc[r] = "batch", pc'[r] = "read"
      PROVE  /\ tok[r] = job.fence
             /\ job.complete
             /\ job.phase = "execute" /\ (job.state = "running" \/ Stranded)
             /\ job.verb # "count"
  <2>1. lease = r
    BY <1>1, BatchesAreRenewed DEF JobInv
  <2>2. Own(r)
    BY <1>1, <2>1 DEF JobInv, LeaseInv, LeaseCarriesFence, Own, Works
  <2>3. InStep(job, pc[r])
    BY <1>1, <2>2 DEF JobInv, GateInv, OwnerIsInStep
  <2>4. job.complete /\ job.phase = "execute" /\ job.state \in Claimable
    BY <1>1, <2>3 DEF InStep, Executing
  <2>5. job.verb # "count"
    BY <1>1, <2>4 DEF JobInv, GateInv, CountIsNeverExecuted
  <2> QED
    BY <2>2, <2>4, <2>5 DEF Own, Claimable, Stranded
<1>2. JobInv /\ [Next]_vars =>
        [\A r \in Runners : pc[r] = "batch" /\ pc'[r] = "read" =>
            /\ tok[r] = job.fence
            /\ job.complete
            /\ job.phase = "execute" /\ (job.state = "running" \/ Stranded)
            /\ job.verb # "count"]_vars
  BY <1>1
<1> QED
  BY <1>2, JobInvariant, PTL DEF Spec, BatchStartsOwned

-----------------------------------------------------------------------------
(* Ended jobs *)

\* A runner writes about the job as its owner, where the job is still claimable.
LEMMA WritesAreOfTheOwner ==
    ASSUME JobInv, NEW r \in Runners, Runner(r) \/ RenewalFails(r), ~Claim(r), job' # job
    PROVE  job.state \in Claimable
<1>1. ASSUME NEW fields, NEW list, NEW next, NEW otherwise,
             Progress(r, fields, list, next, otherwise)
      PROVE  job.fence = tok[r]
  BY <1>1, ProgressEffect
<1>2. CASE FreezeQueues(r) \/ WritePage(r)
  <2>1. pc[r] = "page" /\ job.fence = tok[r]
    BY <1>1, <1>2 DEF FreezeQueues, WritePage, At, redisVars
  <2> QED
    BY <2>1 DEF JobInv, GateInv, OwnerIsInStep, Own, Works, InStep, Listing
<1>3. CASE WritePause(r) \/ CompletePreview(r) \/ EndJob(r)
  <2>1. /\ pc[r] \in {"paused", "complete", "canceled", "done", "failed", "too_large"}
        /\ job.fence = tok[r]
    BY <1>1, <1>3 DEF WritePause, CompletePreview, EndJob, Finalize, At
  <2> QED
    BY <2>1 DEF JobInv, GateInv, OwnerIsInStep, Own, Works, InStep, Listing, Executing, Ending
<1>4. CASE WritePartial(r) \/ WriteBatch(r)
  <2>1. pc[r] = "act" /\ job.fence = tok[r]
    BY <1>1, <1>4 DEF WritePartial, WriteBatch, At
  <2> QED
    BY <2>1 DEF JobInv, GateInv, OwnerIsInStep, Own, Works, InStep, Executing
<1>5. CASE \/ ListJobs(r) \/ ClaimRefused(r) \/ Load(r) \/ CheckCtl(r) \/ Abort(r)
           \/ DropCandidates(r) \/ RenewBatch(r) \/ ReadBatch(r) \/ Act(r) \/ Release(r)
           \/ RenewalFails(r)
  BY <1>5 DEF ListJobs, ClaimRefused, Load, CheckCtl, Take, Abort, GiveUp, DropCandidates,
              RenewBatch, ReadBatch, Act, Release, RenewalFails, redisVars
<1> QED
  BY <1>2, <1>3, <1>4, <1>5 DEF Runner

\* However an execute races a cancel, and whatever a runner that was superseded still writes:
\* only the write of a resume, which is no compare-and-set, changes the state of a job that
\* ended.
THEOREM EndedJobsStayUnlessResumed == Spec => OnlyResumeRevives
<1>1. ASSUME JobInv, [Next]_vars, job.state \in Terminal
      PROVE  job'.state = job.state \/ \E h \in Handlers : WriteResume(h)
  <2>1. job \in Jobs /\ job.state \notin Claimable /\ job.state \notin {"preview_ready", "paused"}
    BY <1>1 DEF JobInv, TypeInv, JobTypeOK, Terminal, Claimable
  <2>2. ASSUME NEW h \in Handlers, Handler(h), ~WriteResume(h)
        PROVE  job'.state = job.state
    <3>1. CASE WriteExecute(h)
      BY <2>1, <3>1 DEF WriteExecute, Wrote, Claimable
    <3>2. CASE FinishDormant(h)
      BY <2>1, <3>2 DEF FinishDormant
    <3>3. CASE WriteCtl(h)
      <4> DEFINE ctl == IF pending[h] = "resume" THEN "" ELSE pending[h]
      <4>1. job' = [job EXCEPT !.ctl = ctl]
        BY <3>3 DEF WriteCtl, Wrote
      <4> HIDE DEF ctl
      <4> QED
        BY <2>1, <4>1 DEF Jobs
    <3>4. CASE AskExecute(h) \/ AskCancel(h) \/ AskPause(h) \/ AskResume(h) \/ FallThrough(h)
      BY <3>4 DEF AskExecute, AskCancel, AskPause, AskResume, Ask, FallThrough, redisVars
    <3> QED
      BY <2>2, <3>1, <3>2, <3>3, <3>4 DEF Handler
  <2>3. ASSUME NEW r \in Runners, Claim(r)
        PROVE  job'.state = job.state
    <3>1. job' = [job EXCEPT !.fence = job.fence + 1]
      BY <2>3 DEF Claim
    <3> DEFINE n == job.fence + 1
    <3>2. job' = [job EXCEPT !.fence = n]
      BY <3>1
    <3> HIDE DEF n
    <3> QED
      BY <2>1, <3>2 DEF Jobs
  <2>4. ASSUME NEW r \in Runners, Runner(r) \/ RenewalFails(r), ~Claim(r)
        PROVE  job'.state = job.state
    BY <1>1, <2>1, <2>4, WritesAreOfTheOwner
  <2>5. CASE \/ \E r \in Runners : Stop(r) \/ Stopped(r) \/ Start(r) \/ Crash(r)
             \/ ExpireAbandoned \/ ExpireStalled
             \/ \E t \in Tasks : MoveTask(t)
             \/ UNCHANGED vars
    BY <2>5 DEF Stop, Stopped, Start, Crash, ChangeMode, ExpireAbandoned, ExpireStalled, Expire,
                MoveTask, vars, redisVars
  <2> QED
    BY <1>1, <2>2, <2>3, <2>4, <2>5 DEF Next
<1>2. JobInv /\ [Next]_vars =>
        [job.state \in Terminal => \/ job'.state = job.state
                                   \/ \E h \in Handlers : WriteResume(h)]_vars
  BY <1>1
<1> QED
  BY <1>2, JobInvariant, PTL DEF Spec, OnlyResumeRevives

-----------------------------------------------------------------------------
(* The candidate list *)

\* The scope fits under the cap on candidates.  (Over the cap the job fails and its list is
\* dropped by a call that is not fenced; the property is about lists that are kept.)
UnderCap == \A n \in Scopes : n <= MaxCandidates

ListOf(j, list) ==
    /\ list = [n \in 1..Len(list) |-> n]
    /\ j.candidates = Len(list)
    /\ j.cursor = (IF j.cursor = 0 THEN 0 ELSE Len(list) + 1)
    /\ j.cursor = 0 => Len(list) = 0
    /\ j.complete => Len(list) = Len(task)
    /\ Len(list) <= Len(task)

\* The snapshot of a runner that lists agrees with the job.
UpToDate(j, label, snapshot) ==
    label \in Listing =>
       /\ snapshot.cursor = j.cursor /\ snapshot.candidates = j.candidates
       /\ label = "complete" => j.cursor > Len(task)

OwnerIsUpToDate == \A r \in Runners : Own(r) => UpToDate(job, pc[r], mine[r])

NothingIsDropped ==
    /\ Len(task) <= MaxCandidates
    /\ \A r \in Runners : pc[r] \notin {"too_large", "drop"}

ListInv == ListOf(job, cands) /\ OwnerIsUpToDate /\ NothingIsDropped

\* The types that the proofs about the list use.
LEMMA ListTypes ==
    ASSUME JobInv
    PROVE  /\ job \in Jobs /\ pc \in [Runners -> Labels] /\ mine \in [Runners -> Jobs]
           /\ tok \in [Runners -> 0..job.fence] /\ cands \in Seq(Tasks)
           /\ task \in Seq({"in", "out", "gone"}) /\ Len(task) \in Nat
           /\ job.fence \in Nat /\ job.cursor \in Nat /\ job.candidates \in Nat
           /\ job.complete \in BOOLEAN
BY JobFields DEF JobInv, TypeInv, JobTypeOK, Labels

\* A progress write that extends the list as its owner found it.
LEMMA ListProgress ==
    ASSUME JobInv, ListInv, NEW r \in Runners, Works(r),
           NEW fields, NEW list, NEW next \in WorkLabels,
           Progress(r, fields, list, next, "release"), fields.fence = job.fence,
           \A s \in Runners \ {r} : mine'[s] = mine[s],
           Own(r) => /\ ListOf(fields, list) /\ next \notin {"too_large", "drop"}
                     /\ UpToDate(fields, next, mine'[r])
    PROVE  ListInv'
<1>1. pc \in [Runners -> Labels]
  BY ListTypes
<1>2. /\ \/ Own(r) /\ job' = fields /\ cands' = list
         \/ job' = job /\ cands' = cands
      /\ \/ Own(r) /\ job' = fields /\ pc' = [pc EXCEPT ![r] = next]
         \/ pc' = [pc EXCEPT ![r] = "release"]
      /\ UNCHANGED <<tok, task>>
  BY ProgressEffect DEF Own
<1>3. ListOf(job, cands)'
  BY <1>2 DEF ListInv, ListOf
<1>4. NothingIsDropped'
  BY <1>1, <1>2 DEF ListInv, NothingIsDropped
<1>5. ASSUME NEW s \in Runners, Own(s)'
      PROVE  UpToDate(job, pc[s], mine[s])'
  <2>1. job'.fence = job.fence
    BY <1>2
  <2>2. CASE s = r
    <3>1. CASE pc' = [pc EXCEPT ![r] = "release"]
      BY <1>1, <2>2, <3>1 DEF UpToDate, Listing
    <3>2. CASE Own(r) /\ job' = fields /\ pc' = [pc EXCEPT ![r] = next]
      BY <1>1, <1>2, <2>2, <3>2 DEF UpToDate
    <3> QED
      BY <1>2, <3>1, <3>2
  <2>3. CASE s # r
    <3>1. pc'[s] = pc[s] /\ tok'[s] = tok[s] /\ mine'[s] = mine[s] /\ task' = task
      BY <1>1, <1>2, <2>3
    <3>2. Own(s)
      BY <1>5, <2>1, <3>1 DEF Own, Works
    <3>3. job' = job
      BY <1>2, <2>3, <3>2, OneOwner DEF JobInv
    <3> QED
      BY <3>1, <3>2, <3>3 DEF ListInv, OwnerIsUpToDate, UpToDate
  <2> QED
    BY <2>2, <2>3
<1> QED
  BY <1>3, <1>4, <1>5 DEF ListInv, OwnerIsUpToDate

\* A step that leaves the job and its list alone and moves one runner.
LEMMA ListMove ==
    ASSUME JobInv, ListInv, UNCHANGED <<job, cands, tok, task>>, NEW r \in Runners, NEW label,
           pc' = [pc EXCEPT ![r] = label], label \notin {"too_large", "drop"},
           \A s \in Runners \ {r} : mine'[s] = mine[s],
           Works(r) \/ label \in {"idle", "claim"},
           Own(r) => UpToDate(job, label, mine'[r])
    PROVE  ListInv'
<1>1. pc \in [Runners -> Labels]
  BY ListTypes
<1>2. ListOf(job, cands)' /\ NothingIsDropped'
  BY <1>1 DEF ListInv, ListOf, NothingIsDropped
<1>3. ASSUME NEW s \in Runners, Own(s)'
      PROVE  UpToDate(job, pc[s], mine[s])'
  <2>1. CASE s = r
    BY <1>1, <1>3, <2>1 DEF Own, Works, UpToDate, Listing
  <2>2. CASE s # r
    BY <1>1, <1>3, <2>2 DEF Own, Works, ListInv, OwnerIsUpToDate, UpToDate
  <2> QED
    BY <2>1, <2>2
<1> QED
  BY <1>2, <1>3 DEF ListInv, OwnerIsUpToDate

\* A step that leaves the list and the runners' places alone.
LEMMA ListStays ==
    ASSUME JobInv, ListInv, UNCHANGED <<cands, tok, pc>>, Len(task)' = Len(task),
           job'.fence = job.fence, job'.cursor = job.cursor,
           job'.candidates = job.candidates, job'.complete = job.complete,
           \A r \in Runners : pc[r] \in Listing => mine'[r] = mine[r]
    PROVE  ListInv'
<1>1. ListOf(job, cands)' /\ NothingIsDropped'
  BY DEF ListInv, ListOf, NothingIsDropped
<1>2. ASSUME NEW s \in Runners, Own(s)'
      PROVE  UpToDate(job, pc[s], mine[s])'
  BY <1>2 DEF Own, Works, ListInv, OwnerIsUpToDate, UpToDate
<1> QED
  BY <1>1, <1>2 DEF ListInv, OwnerIsUpToDate

\* The requests write a state, a phase or ctl.
LEMMA ListHandler ==
    ASSUME JobInv, ListInv, NEW h \in Handlers, Handler(h)
    PROVE  ListInv'
<1>1. job \in Jobs
  BY ListTypes
<1>2. UNCHANGED <<cands, tok, pc, mine, task>>
  BY DEF Handler, AskExecute, AskCancel, AskPause, AskResume, Ask, WriteExecute, FinishDormant,
         FallThrough, WriteCtl, WriteResume, Wrote, redisVars, runnerVars
<1>3. /\ job'.fence = job.fence /\ job'.cursor = job.cursor
      /\ job'.candidates = job.candidates /\ job'.complete = job.complete
  <2>1. CASE WriteExecute(h)
    BY <1>1, <2>1 DEF WriteExecute, Wrote, Jobs
  <2>2. CASE FinishDormant(h)
    BY <1>1, <2>2 DEF FinishDormant, Wrote, Jobs
  <2>3. CASE WriteCtl(h)
    <3> DEFINE ctl == IF pending[h] = "resume" THEN "" ELSE pending[h]
    <3>1. job' = [job EXCEPT !.ctl = ctl]
      BY <2>3 DEF WriteCtl, Wrote
    <3> HIDE DEF ctl
    <3> QED
      BY <1>1, <3>1 DEF Jobs
  <2>4. CASE WriteResume(h)
    <3> DEFINE st == IF pending[h] = "to_running" THEN "running" ELSE "previewing"
    <3>1. job' = [job EXCEPT !.ctl = "", !.state = st]
      BY <2>4 DEF WriteResume, Wrote
    <3> HIDE DEF st
    <3> QED
      BY <1>1, <3>1 DEF Jobs
  <2>5. CASE AskExecute(h) \/ AskCancel(h) \/ AskPause(h) \/ AskResume(h) \/ FallThrough(h)
    BY <2>5 DEF AskExecute, AskCancel, AskPause, AskResume, Ask, FallThrough, redisVars
  <2> QED
    BY <2>1, <2>2, <2>3, <2>4, <2>5 DEF Handler
<1> QED
  BY <1>2, <1>3, ListStays

\* What a runner does between its writes.
LEMMA ListReads ==
    ASSUME JobInv, ListInv, NEW r \in Runners,
           \/ ListJobs(r) \/ Claim(r) \/ ClaimRefused(r) \/ Load(r) \/ CheckCtl(r) \/ Abort(r)
           \/ DropCandidates(r) \/ RenewBatch(r) \/ ReadBatch(r) \/ Act(r) \/ Release(r)
           \/ RenewalFails(r)
    PROVE  ListInv'
<1> USE DEF UpToDate, Listing
<1>1. /\ job \in Jobs /\ pc \in [Runners -> Labels] /\ mine \in [Runners -> Jobs]
      /\ tok \in [Runners -> 0..job.fence]
      /\ job.fence \in Nat /\ job.cursor \in Nat /\ Len(task) \in Nat
  BY ListTypes
<1>2. Own(r) => UpToDate(job, pc[r], mine[r])
  BY DEF ListInv, OwnerIsUpToDate
<1>3. CASE ListJobs(r) \/ ClaimRefused(r)
  BY ZenonT(40), <1>3, ListMove DEF ListJobs, ClaimRefused, Goto, redisVars
<1>4. CASE Claim(r)
  <2> DEFINE n == job.fence + 1
  <2>1. job' = [job EXCEPT !.fence = n] /\ n # job.fence /\ n \in Nat
    BY <1>1, <1>4 DEF Claim
  <2> HIDE DEF n
  <2>2. /\ job'.fence = n /\ job'.cursor = job.cursor
        /\ job'.candidates = job.candidates /\ job'.complete = job.complete
    BY <1>1, <2>1 DEF Jobs
  <2>3. UNCHANGED <<cands, task>>
    BY <1>4 DEF Claim
  <2>4. ListOf(job, cands)'
    BY <2>2, <2>3 DEF ListInv, ListOf
  <2>5. NothingIsDropped'
    BY <1>1, <1>4, <2>3 DEF ListInv, NothingIsDropped, Claim, Goto
  <2>6. ASSUME NEW s \in Runners, Own(s)'
        PROVE  pc'[s] \in {"idle", "load"}
    <3>1. job'.fence = job.fence + 1
      BY <2>2 DEF n
    <3> QED
      BY <1>1, <1>4, <2>6, <3>1 DEF Claim, Own, Goto
  <2> QED
    BY <2>4, <2>5, <2>6 DEF ListInv, OwnerIsUpToDate
<1>5. CASE Load(r)
  <2>1. PICK label : Take(r, job, label) /\ label \in {NextPage(job), "batch", "release"}
    BY <1>5 DEF Load
  <2>2. Works(r)
    BY <1>5 DEF Load, At, Works
  <2>3. UpToDate(job, label, job) /\ label \notin {"too_large", "drop"}
    BY <1>1, <2>1 DEF NextPage
  <2>4. /\ pc' = [pc EXCEPT ![r] = label] /\ UNCHANGED <<job, cands, tok, task>>
        /\ mine' = [mine EXCEPT ![r] = job]
    BY <2>1 DEF Take, Goto, redisVars
  <2>5. mine'[r] = job /\ \A s \in Runners \ {r} : mine'[s] = mine[s]
    BY <1>1, <2>4
  <2> HIDE DEF UpToDate
  <2> QED
    BY <2>2, <2>3, <2>4, <2>5, ListMove
<1>6. CASE CheckCtl(r)
  <2> DEFINE page == [job EXCEPT !.cursor = mine[r].cursor]
             j == IF pc[r] = "ctl_page" THEN page ELSE job
  <2>1. /\ page.cursor = mine[r].cursor /\ page.candidates = job.candidates
    BY <1>1 DEF Jobs
  <2>2. PICK label : /\ Take(r, j, label)
                     /\ \/ label \in {"canceled", "paused", "batch"}
                        \/ pc[r] = "ctl_page" /\ label = NextPage(j)
    BY <1>6 DEF CheckCtl
  <2>3. Works(r) /\ pc[r] \in {"ctl_page", "ctl_batch"}
    BY <1>6 DEF CheckCtl, Works
  <2>4. label \in {"canceled", "paused", "batch", "page", "complete"}
    BY <2>2 DEF NextPage
  <2>5. ASSUME Own(r)
        PROVE  UpToDate(job, label, j)
    <3>1. CASE label \in {"canceled", "paused", "batch"}
      BY <3>1
    <3>2. CASE pc[r] = "ctl_page" /\ label = NextPage(page)
      BY <1>1, <1>2, <2>1, <2>5, <3>2 DEF NextPage
    <3> QED
      BY <2>2, <3>1, <3>2
  <2> HIDE DEF j
  <2>6. /\ pc' = [pc EXCEPT ![r] = label] /\ UNCHANGED <<job, cands, tok, task>>
        /\ mine' = [mine EXCEPT ![r] = j]
    BY <2>2 DEF Take, Goto, redisVars
  <2>7. mine'[r] = j /\ \A s \in Runners \ {r} : mine'[s] = mine[s]
    BY <1>1, <2>6
  <2> HIDE DEF UpToDate
  <2> QED
    BY <2>3, <2>4, <2>5, <2>6, <2>7, ListMove
<1>7. CASE Abort(r)
  <2>1. /\ pc' = [pc EXCEPT ![r] = "release"] /\ UNCHANGED <<job, cands, tok, task, mine>>
        /\ Works(r)
    BY <1>7 DEF Abort, GiveUp, Goto, redisVars, Works, At
  <2> QED
    BY <2>1, ListMove
<1>8. CASE DropCandidates(r)
  BY <1>8 DEF DropCandidates, At, ListInv, NothingIsDropped
<1>9. CASE RenewBatch(r)
  <2>1. /\ Works(r) /\ UNCHANGED <<job, cands, tok, task, mine>>
        /\ \E label \in {"release", "read"} : pc' = [pc EXCEPT ![r] = label]
    BY <1>9 DEF RenewBatch, Goto, redisVars, Works, At
  <2>2. PICK label \in {"release", "read"} : pc' = [pc EXCEPT ![r] = label]
    BY <2>1
  <2> QED
    BY <2>1, <2>2, ListMove
<1>10. CASE ReadBatch(r)
  <2>1. /\ Works(r) /\ UNCHANGED <<job, cands, tok, task>>
        /\ \E label \in {"act", "done"} : pc' = [pc EXCEPT ![r] = label]
    BY <1>10 DEF ReadBatch, Goto, redisVars, Works, At
  <2>2. PICK label \in {"act", "done"} : pc' = [pc EXCEPT ![r] = label]
    BY <2>1
  <2>3. \A s \in Runners \ {r} : mine'[s] = mine[s]
    BY <1>1, <1>10 DEF ReadBatch
  <2> QED
    BY <2>1, <2>2, <2>3, ListMove
<1>11. CASE Act(r)
  <2>1. UNCHANGED <<job, cands, tok, pc>> /\ pc[r] = "act"
    BY <1>11 DEF Act, At, redisVars
  <2>2. Len(task)' = Len(task)
    BY <1>1, <1>11, ListTypes DEF Act, Applied
  <2>3. \A s \in Runners \ {r} : mine'[s] = mine[s]
    BY <1>1, <1>11 DEF Act, Tally
  <2> QED
    BY <2>1, <2>2, <2>3, ListStays
<1>12. CASE Release(r)
  <2>1. /\ pc' = [pc EXCEPT ![r] = "idle"] /\ tok' = [tok EXCEPT ![r] = 0]
        /\ UNCHANGED <<job, cands, task>> /\ mine' = [mine EXCEPT ![r] = NoJob]
    BY <1>12 DEF Release, Goto, Forget
  <2>2. ListOf(job, cands)' /\ NothingIsDropped'
    BY <1>1, <2>1 DEF ListInv, ListOf, NothingIsDropped
  <2>3. ASSUME NEW s \in Runners, Own(s)'
        PROVE  UpToDate(job, pc[s], mine[s])'
    BY <1>1, <2>1, <2>3 DEF Own, Works, ListInv, OwnerIsUpToDate
  <2> QED
    BY <2>2, <2>3 DEF ListInv, OwnerIsUpToDate
<1>13. CASE RenewalFails(r)
  BY <1>13, ListStays DEF RenewalFails, redisVars
<1> QED
  BY <1>3, <1>4, <1>5, <1>6, <1>7, <1>8, <1>9, <1>10, <1>11, <1>12, <1>13

\* The list of all pages before a cursor, extended by the page at the cursor.
LEMMA AppendPage ==
    ASSUME NEW S, NEW list \in Seq(S), list = [n \in 1..Len(list) |-> n]
    PROVE  /\ Len(Append(list, Len(list) + 1)) = Len(list) + 1
           /\ Append(list, Len(list) + 1) = [n \in 1..(Len(list) + 1) |-> n]
<1>1. Len(list) \in Nat
  OBVIOUS
<1> DEFINE longer == Append(list, Len(list) + 1)
<1>2. longer \in Seq(S \cup {Len(list) + 1}) /\ Len(longer) = Len(list) + 1
  OBVIOUS
<1>3. \A n \in 1..Len(list) : longer[n] = n
  OBVIOUS
<1>4. longer[Len(list) + 1] = Len(list) + 1
  OBVIOUS
<1>5. longer = [n \in 1..Len(longer) |-> longer[n]]
  BY <1>2
<1> HIDE DEF longer
<1>6. \A n \in 1..Len(longer) : longer[n] = n
  BY <1>1, <1>2, <1>3, <1>4
<1>7. longer = [n \in 1..Len(longer) |-> n]
  BY <1>5, <1>6
<1>8. longer = [n \in 1..(Len(list) + 1) |-> n]
  BY <1>2, <1>7
<1> QED
  BY <1>2, <1>8 DEF longer

\* The page that its owner writes is the next one, and under the cap.
LEMMA ListPage ==
    ASSUME JobInv, ListInv, NEW r \in Runners, WritePage(r)
    PROVE  ListInv'
<1>1. /\ job \in Jobs /\ mine \in [Runners -> Jobs] /\ mine[r] \in Jobs
      /\ cands \in Seq(Tasks) /\ Len(cands) \in Nat
      /\ job.cursor \in Nat /\ job.candidates \in Nat /\ Len(task) \in Nat
      /\ mine[r].cursor \in Nat /\ mine[r].candidates \in Nat
  BY ListTypes, JobFields
<1> DEFINE c == mine[r].candidates + 1
           k == mine[r].cursor + 1
           j == [mine[r] EXCEPT !.candidates = c, !.cursor = k]
           fields == [job EXCEPT !.candidates = c, !.cursor = k]
           list == Append(cands, mine[r].cursor)
           next == IF c > MaxCandidates THEN "too_large" ELSE "ctl_page"
<1>2. j.candidates = c /\ j.cursor = k
  <2> HIDE DEF c, k
  <2> QED
    BY <1>1 DEF Jobs
<1>3. /\ fields.candidates = c /\ fields.cursor = k
      /\ fields.fence = job.fence /\ fields.complete = job.complete
  <2> HIDE DEF c, k
  <2> QED
    BY <1>1 DEF Jobs
<1>4. /\ pc[r] = "page" /\ mine[r].cursor # 0 /\ Works(r)
      /\ mine' = [mine EXCEPT ![r] = j]
      /\ Progress(r, fields, list, next, "release")
  <2>1. j = [mine[r] EXCEPT !.candidates = @ + 1, !.cursor = @ + 1]
    OBVIOUS
  <2> QED
    BY <1>2, <2>1 DEF WritePage, At, Works
<1>5. mine'[r] = j /\ \A s \in Runners \ {r} : mine'[s] = mine[s]
  BY <1>1, <1>4
<1>6. ASSUME Own(r)
      PROVE  /\ ListOf(fields, list) /\ next = "ctl_page"
             /\ UpToDate(fields, next, mine'[r])
  <2>1. InStep(job, pc[r]) /\ UpToDate(job, pc[r], mine[r]) /\ ListOf(job, cands)
    BY <1>6 DEF JobInv, GateInv, OwnerIsInStep, ListInv, OwnerIsUpToDate
  <2>2. /\ mine[r].cursor = job.cursor /\ mine[r].candidates = job.candidates /\ ~job.complete
    BY <1>4, <2>1 DEF InStep, UpToDate, Listing
  <2>3. mine[r].cursor <= Len(task) /\ Len(task) <= MaxCandidates
    BY <1>4 DEF JobInv, TypeInv, PagesAreOfTheScope, ListInv, NothingIsDropped
  <2>4. mine[r].cursor = Len(cands) + 1 /\ mine[r].candidates = Len(cands)
    BY <1>4, <2>1, <2>2 DEF ListOf
  <2>5. Len(list) = Len(cands) + 1 /\ list = [n \in 1..(Len(cands) + 1) |-> n]
    BY <1>1, <2>1, <2>4, AppendPage DEF ListOf
  <2>6. c = Len(cands) + 1 /\ k = Len(cands) + 2 /\ c <= Len(task) /\ c <= MaxCandidates
    <3> HIDE DEF j, fields, list, next
    <3>1. Len(cands) + 1 <= Len(task) /\ Len(cands) + 1 <= MaxCandidates
      BY <1>1, <2>3, <2>4, JobAssumption
    <3> QED
      BY <1>1, <2>4, <3>1
  <2>7. next = "ctl_page"
    BY <1>1, <2>6, JobAssumption
  <2>8. ListOf(fields, list)
    <3> HIDE DEF fields, list, next
    <3>1. list = [n \in 1..Len(list) |-> n]
      BY <2>5
    <3>2. fields.cursor = (IF fields.cursor = 0 THEN 0 ELSE Len(list) + 1) /\ fields.cursor # 0
      BY <1>1, <1>3, <2>5, <2>6
    <3> HIDE DEF c, k
    <3> QED
      BY <1>3, <2>2, <2>5, <2>6, <3>1, <3>2 DEF ListOf
  <2>9. UpToDate(fields, "ctl_page", j)
    BY <1>2, <1>3 DEF UpToDate
  <2> QED
    BY <1>5, <2>7, <2>8, <2>9
<1> HIDE DEF fields, list, next, j, c, k
<1>7. next \in {"too_large", "ctl_page"}
  BY DEF next
<1>8. next \in WorkLabels
  BY <1>7 DEF WorkLabels, Labels
<1> QED
  BY <1>3, <1>4, <1>5, <1>6, <1>8, ListProgress

\* The writes of a runner extend the list by what its owner listed, or leave it.
LEMMA ListWrites ==
    ASSUME JobInv, ListInv, NEW r \in Runners,
           \/ FreezeQueues(r) \/ WritePage(r) \/ WritePause(r) \/ CompletePreview(r)
           \/ EndJob(r) \/ WritePartial(r) \/ WriteBatch(r)
    PROVE  ListInv'
<1> USE DEF WorkLabels, Labels
<1>1. /\ job \in Jobs /\ mine \in [Runners -> Jobs] /\ mine[r] \in Jobs
      /\ job.cursor \in Nat /\ Len(cands) \in Nat /\ Len(task) \in Nat
  BY ListTypes
<1>2. ASSUME NEW fields, NEW next \in WorkLabels \ (Listing \cup {"too_large", "drop"}),
             Progress(r, fields, cands, next, "release"), Works(r), UNCHANGED mine,
             fields.fence = job.fence, fields.cursor = job.cursor,
             fields.candidates = job.candidates, fields.complete = job.complete
      PROVE  ListInv'
  <2>1. ListOf(fields, cands)
    BY <1>2 DEF ListInv, ListOf
  <2>2. UpToDate(fields, next, mine'[r])
    BY <1>2 DEF UpToDate
  <2> QED
    BY <1>2, <2>1, <2>2, ListProgress
<1>3. CASE FreezeQueues(r)
  <2> DEFINE fields == [job EXCEPT !.cursor = 1]
             next == NextPage(mine'[r])
  <2>1. /\ fields.fence = job.fence /\ fields.cursor = 1
        /\ fields.candidates = job.candidates /\ fields.complete = job.complete
    BY <1>1 DEF Jobs
  <2>2. pc[r] = "page" /\ mine[r].cursor = 0 /\ Works(r)
    BY <1>3 DEF FreezeQueues, At, Works
  <2>3. CASE /\ mine' = [mine EXCEPT ![r].cursor = 1]
             /\ Progress(r, fields, cands, next, "release")
    <3>1. /\ mine'[r].cursor = 1 /\ mine'[r].candidates = mine[r].candidates
          /\ \A s \in Runners \ {r} : mine'[s] = mine[s]
      BY <1>1, <2>3 DEF Jobs
    <3>2. next = (IF 1 > Len(task) THEN "complete" ELSE "page")
      BY <3>1 DEF NextPage
    <3> HIDE DEF fields, next
    <3>3. ASSUME Own(r)
          PROVE  ListOf(fields, cands) /\ UpToDate(fields, next, mine'[r])
      <4>1. /\ job.cursor = 0 /\ mine[r].candidates = job.candidates
            /\ ListOf(job, cands)
        BY <2>2, <3>3 DEF ListInv, OwnerIsUpToDate, UpToDate, Listing
      <4>2. ListOf(fields, cands)
        BY <1>1, <2>1, <4>1 DEF ListOf
      <4>3. UpToDate(fields, next, mine'[r])
        BY <1>1, <2>1, <3>1, <3>2, <4>1 DEF UpToDate
      <4> QED
        BY <4>2, <4>3
    <3>4. next \in WorkLabels /\ next \notin {"too_large", "drop"}
      BY <3>2
    <3> HIDE DEF WorkLabels
    <3> QED
      BY <2>1, <2>2, <2>3, <3>1, <3>3, <3>4, ListProgress
  <2>4. CASE /\ pc' = [pc EXCEPT ![r] = "failed"]
             /\ UNCHANGED <<job, cands, tok, task, mine>>
    <3>1. UpToDate(job, "failed", mine'[r])
      BY DEF UpToDate, Listing
    <3> QED
      BY <2>2, <2>4, <3>1, ListMove
  <2> QED
    BY <1>3, <2>3, <2>4 DEF FreezeQueues, Goto, redisVars
<1>4. CASE WritePage(r)
  BY <1>4, ListPage
<1>5. CASE WritePause(r)
  <2> DEFINE fields == [job EXCEPT !.state = "paused", !.ctl = ""]
  <2>1. /\ fields.fence = job.fence /\ fields.cursor = job.cursor
        /\ fields.candidates = job.candidates /\ fields.complete = job.complete
    BY <1>1 DEF Jobs
  <2>2. Progress(r, fields, cands, "release", "release") /\ Works(r) /\ UNCHANGED mine
    BY <1>5 DEF WritePause, At, Works
  <2> HIDE DEF fields
  <2> QED
    BY <1>2, <2>1, <2>2 DEF Listing
<1>6. CASE CompletePreview(r)
  <2> DEFINE st == IF job.phase = "preview" THEN "preview_ready" ELSE job.state
             fields == [job EXCEPT !.complete = TRUE, !.state = st]
  <2>1. /\ fields.fence = job.fence /\ fields.cursor = job.cursor
        /\ fields.candidates = job.candidates /\ fields.complete = TRUE
    <3> HIDE DEF st
    <3> QED
      BY <1>1 DEF Jobs
  <2>2. /\ Progress(r, fields, cands, "reload", "release") /\ Works(r) /\ UNCHANGED mine
        /\ pc[r] = "complete"
    BY <1>6 DEF CompletePreview, At, Works
  <2> HIDE DEF fields, st
  <2>3. ASSUME Own(r)
        PROVE  ListOf(fields, cands)
    <3>1. job.cursor > Len(task) /\ ListOf(job, cands)
      BY <2>2, <2>3 DEF ListInv, OwnerIsUpToDate, UpToDate, Listing
    <3>2. Len(cands) = Len(task)
      BY <1>1, <3>1 DEF ListOf
    <3> QED
      BY <2>1, <3>1, <3>2 DEF ListOf
  <2>4. UpToDate(fields, "reload", mine'[r])
    BY DEF UpToDate, Listing
  <2> QED
    BY <2>1, <2>2, <2>3, <2>4, ListProgress
<1>7. CASE EndJob(r)
  <2>1. ASSUME NEW st \in {"canceled", "done", "failed"}, Finalize(r, st, "release")
        PROVE  ListInv'
    <3> DEFINE end == IF st = "too_large" THEN "failed" ELSE st
               fields == [job EXCEPT !.state = end, !.ctl = ""]
    <3>1. /\ fields.fence = job.fence /\ fields.cursor = job.cursor
          /\ fields.candidates = job.candidates /\ fields.complete = job.complete
      <4> HIDE DEF end
      <4> QED
        BY <1>1 DEF Jobs
    <3>2. Progress(r, fields, cands, "release", "release") /\ Works(r) /\ UNCHANGED mine
      BY <2>1 DEF Finalize, At, Works
    <3> HIDE DEF fields, end
    <3> QED
      BY <1>2, <3>1, <3>2 DEF Listing
  <2>2. ~Finalize(r, "too_large", "drop")
    BY DEF Finalize, At, ListInv, NothingIsDropped
  <2> QED
    BY <1>7, <2>1, <2>2 DEF EndJob
<1>8. ASSUME NEW n \in Nat
      PROVE  /\ Counts(r).fence = job.fence /\ Counts(r).cursor = job.cursor
             /\ Counts(r).candidates = job.candidates /\ Counts(r).complete = job.complete
             /\ [Counts(r) EXCEPT !.act_cursor = n].fence = job.fence
             /\ [Counts(r) EXCEPT !.act_cursor = n].cursor = job.cursor
             /\ [Counts(r) EXCEPT !.act_cursor = n].candidates = job.candidates
             /\ [Counts(r) EXCEPT !.act_cursor = n].complete = job.complete
  BY <1>1 DEF Counts, Jobs
<1>9. CASE WritePartial(r)
  <2>1. Progress(r, Counts(r), cands, "release", "release") /\ Works(r) /\ UNCHANGED mine
    BY <1>9 DEF WritePartial, At, Works
  <2> QED
    BY <1>2, <1>8, <2>1 DEF Listing
<1>10. CASE WriteBatch(r)
  <2> DEFINE n == mine[r].act_cursor + chunk[r].size
             fields == [Counts(r) EXCEPT !.act_cursor = n]
  <2>1. n \in Nat
    BY <1>1, JobFields DEF JobInv, TypeInv, JobTypeOK
  <2>2. Progress(r, fields, cands, "ctl_batch", "release") /\ Works(r) /\ UNCHANGED mine
    BY <1>10 DEF WriteBatch, At, Works
  <2> HIDE DEF n
  <2>3. /\ fields.fence = job.fence /\ fields.cursor = job.cursor
        /\ fields.candidates = job.candidates /\ fields.complete = job.complete
    BY <1>8, <2>1
  <2> HIDE DEF fields
  <2> QED
    BY <1>2, <2>2, <2>3 DEF Listing
<1> QED
  BY <1>3, <1>4, <1>5, <1>6, <1>7, <1>9, <1>10

LEMMA ListStep == JobInv /\ ListInv /\ [Next]_vars => ListInv'
<1> SUFFICES ASSUME JobInv, ListInv, [Next]_vars
             PROVE  ListInv'
  OBVIOUS
<1>1. ASSUME NEW h \in Handlers, Handler(h)
      PROVE  ListInv'
  BY <1>1, ListHandler
<1>2. ASSUME NEW r \in Runners, Runner(r) \/ RenewalFails(r)
      PROVE  ListInv'
  BY <1>2, ListReads, ListWrites DEF Runner
<1>3. ASSUME NEW r \in Runners, Crash(r)
      PROVE  ListInv'
  <2>1. /\ pc \in [Runners -> Labels] /\ tok \in [Runners -> 0..job.fence]
        /\ mine \in [Runners -> Jobs]
    BY ListTypes
  <2>2. /\ pc' = [pc EXCEPT ![r] = "idle"] /\ tok' = [tok EXCEPT ![r] = 0]
        /\ UNCHANGED <<job, cands, task>> /\ mine' = [mine EXCEPT ![r] = NoJob]
    BY <1>3 DEF Crash, ChangeMode, Goto, Forget, redisVars
  <2>3. ListOf(job, cands)' /\ NothingIsDropped'
    BY <2>1, <2>2 DEF ListInv, ListOf, NothingIsDropped
  <2>4. ASSUME NEW s \in Runners, Own(s)'
        PROVE  UpToDate(job, pc[s], mine[s])'
    BY <2>1, <2>2, <2>4 DEF Own, Works, ListInv, OwnerIsUpToDate, UpToDate
  <2> QED
    BY <2>3, <2>4 DEF ListInv, OwnerIsUpToDate
<1>4. ASSUME NEW t \in Tasks, MoveTask(t)
      PROVE  ListInv'
  <2>1. UNCHANGED <<job, cands, tok, pc, mine>> /\ Len(task)' = Len(task)
    BY <1>4, ListTypes DEF MoveTask, redisVars, runnerVars
  <2> QED
    BY <2>1, ListStays
<1>5. CASE \/ \E r \in Runners : Stop(r) \/ Stopped(r) \/ Start(r)
           \/ ExpireAbandoned \/ ExpireStalled
           \/ UNCHANGED vars
  <2>1. UNCHANGED <<job, cands, tok, pc, mine, task>>
    BY <1>5 DEF Stop, Stopped, Start, ChangeMode, ExpireAbandoned, ExpireStalled, Expire, vars,
                redisVars, runnerVars
  <2> QED
    BY <2>1, ListStays
<1> QED
  BY <1>1, <1>2, <1>3, <1>4, <1>5 DEF Next

LEMMA ListInit == UnderCap /\ Init => ListInv
<1> SUFFICES ASSUME UnderCap, Init PROVE ListInv
  OBVIOUS
<1>1. PICK v \in Verbs : job = NewJob(v)
  BY DEF Init
<1>2. PICK n \in Scopes : task = [t \in 1..n |-> "in"]
  BY DEF Init
<1>3. Len(task) = n /\ n \in Nat
  BY <1>2, JobAssumption
<1>4. ListOf(job, cands)
  <2>1. cands = <<>> /\ Len(cands) = 0
    BY DEF Init
  <2>2. cands = [k \in 1..Len(cands) |-> cands[k]] /\ 1..Len(cands) = {}
    BY <2>1
  <2>3. cands = [k \in 1..Len(cands) |-> k]
    BY <2>2
  <2> QED
    <3>1. job.candidates = 0 /\ job.cursor = 0 /\ ~job.complete
      BY <1>1 DEF NewJob
    <3>2. Len(cands) <= Len(task)
      BY <1>3, <2>1
    <3> QED
      BY <2>1, <2>3, <3>1, <3>2 DEF ListOf
<1>5. OwnerIsUpToDate /\ NothingIsDropped
  BY <1>3 DEF Init, Own, Works, OwnerIsUpToDate, NothingIsDropped, UnderCap
<1> QED
  BY <1>4, <1>5 DEF ListInv

\* However often the preview changes hands, crashes between a page and its answer or is paused,
\* the list holds every page before the cursor exactly once and in order, its length is the
\* count the preview reports, and a complete preview has all of the scope.
THEOREM ListFollowsCursor == UnderCap /\ Spec => []CandidatesFollowCursor
<1>1. JobInv /\ ListInv => CandidatesFollowCursor
  BY DEF ListInv, ListOf, CandidatesFollowCursor
<1> QED
  BY <1>1, JobInvariant, ListInit, ListStep, PTL DEF Spec

-----------------------------------------------------------------------------
(* The results *)

Sum(j) == j.acted + j.skipped + j.failed
Honest(j) == j.acted <= Cardinality(acts) /\ Sum(j) >= j.act_cursor

\* A runner that acts has counted every candidate of its batch that is not left.
BatchAddsUp(label, j, batch, list) ==
    label = "act" =>
       /\ Sum(j) + Cardinality(batch.left) >= j.act_cursor + batch.size
       /\ j.act_cursor + batch.size <= Len(list)

\* The owner of the job knows how far it got.
Tracks(j, label, snapshot, list) ==
    label \in {"batch", "read", "act", "done"} =>
       /\ snapshot.act_cursor = j.act_cursor
       /\ label = "done" => j.act_cursor >= Len(list)

DoneIsComplete(j, list) == j.state = "done" => j.complete /\ j.act_cursor = Len(list)

ResultsInv ==
    /\ job.act_cursor <= Len(cands) /\ Honest(job) /\ DoneIsComplete(job, cands)
    /\ \A t \in acts : task[t] # "in"
    /\ \A r \in Runners :
          /\ Honest(mine[r]) /\ BatchAddsUp(pc[r], mine[r], chunk[r], cands)
          /\ Own(r) => Tracks(job, pc[r], mine[r], cands)

\* A batch is finite.
LEMMA RefsAreFinite ==
    ASSUME NEW S, IsFiniteSet(S)
    PROVE  IsFiniteSet([task : S, matches : BOOLEAN])
<1>1. IsFiniteSet(BOOLEAN)
  <2>1. BOOLEAN = {TRUE} \cup {FALSE}
    OBVIOUS
  <2>2. IsFiniteSet({TRUE})
    BY FS_Singleton, Zenon
  <2>3. IsFiniteSet({TRUE} \cup {FALSE})
    BY <2>2, FS_AddElement, Zenon
  <2> QED
    BY <2>1, <2>3, Zenon
<1>2. IsFiniteSet(S \X BOOLEAN)
  BY <1>1, FS_Product
<1> DEFINE refs == [task : S, matches : BOOLEAN]
           f == [p \in S \X BOOLEAN |-> [task |-> p[1], matches |-> p[2]]]
<1>3. f \in [S \X BOOLEAN -> refs]
  OBVIOUS
<1>4. ASSUME NEW t \in refs
      PROVE  \E p \in S \X BOOLEAN : f[p] = t
  <2>1. <<t.task, t.matches>> \in S \X BOOLEAN /\ t = [task |-> t.task, matches |-> t.matches]
    OBVIOUS
  <2>2. PICK p \in S \X BOOLEAN : p = <<t.task, t.matches>>
    BY <2>1
  <2>3. p[1] = t.task /\ p[2] = t.matches
    BY <2>2
  <2>4. f[p] = [task |-> p[1], matches |-> p[2]]
    OBVIOUS
  <2>5. f[p] = [task |-> t.task, matches |-> t.matches]
    BY <2>3, <2>4, Zenon
  <2> QED
    BY <2>1, <2>5, Zenon
<1>5. f \in Surjection(S \X BOOLEAN, refs)
  BY <1>3, <1>4 DEF Surjection
<1> HIDE DEF f
<1> QED
  BY <1>2, <1>5, FS_Surjection

\* The types that the proofs about the results use.
LEMMA ResultTypes ==
    ASSUME JobInv
    PROVE  /\ chunk \in [Runners -> Chunks] /\ acts \subseteq Tasks
           /\ IsFiniteSet(Tasks) /\ IsFiniteSet(acts) /\ Cardinality(acts) \in Nat
           /\ Tasks = 1..Len(task) /\ Len(cands) \in Nat
           /\ \A r \in Runners : /\ chunk[r].size \in Nat /\ IsFiniteSet(chunk[r].left)
                                 /\ Cardinality(chunk[r].left) \in Nat
<1>1. chunk \in [Runners -> Chunks] /\ acts \subseteq Tasks
  BY DEF JobInv, TypeInv, JobTypeOK, Chunks
<1>2. Tasks = 1..Len(task) /\ Len(cands) \in Nat /\ Len(task) \in Nat
  BY ListTypes DEF Tasks
<1>3. IsFiniteSet(Tasks)
  BY <1>2, FS_Interval
<1>4. IsFiniteSet(acts) /\ Cardinality(acts) \in Nat
  BY <1>1, <1>3, FS_Subset, FS_CardinalityType
<1>5. ASSUME NEW r \in Runners
      PROVE  /\ chunk[r].size \in Nat /\ IsFiniteSet(chunk[r].left)
             /\ Cardinality(chunk[r].left) \in Nat
  <2>1. /\ chunk[r].size \in 0..ExecBatch
        /\ chunk[r].left \subseteq [task : Tasks, matches : BOOLEAN]
    BY <1>1 DEF Chunks
  <2>2. IsFiniteSet([task : Tasks, matches : BOOLEAN])
    BY <1>3, RefsAreFinite
  <2>3. chunk[r].size \in Nat
    BY <2>1, JobAssumption
  <2> QED
    BY <2>1, <2>2, <2>3, FS_Subset, FS_CardinalityType
<1> QED
  BY <1>1, <1>2, <1>3, <1>4, <1>5

\* A progress write of honest counts.
LEMMA ResultsProgress ==
    ASSUME JobInv, ListInv, ResultsInv, NEW r \in Runners, Works(r),
           NEW fields, NEW list, NEW next \in WorkLabels \ {"act"},
           Progress(r, fields, list, next, "release"), fields.fence = job.fence,
           Len(list) \in Nat, Len(cands) <= Len(list),
           \A s \in Runners \ {r} : mine'[s] = mine[s] /\ chunk'[s] = chunk[s],
           Honest(mine'[r]),
           Own(r) => /\ fields.act_cursor <= Len(list) /\ Honest(fields)
                     /\ DoneIsComplete(fields, list)
                     /\ Tracks(fields, next, mine'[r], list)
    PROVE  ResultsInv'
<1>1. /\ pc \in [Runners -> Labels] /\ mine \in [Runners -> Jobs] /\ Len(cands) \in Nat
      /\ \A s \in Runners : chunk[s].size \in Nat /\ mine[s].act_cursor \in Nat
  BY ListTypes, ResultTypes, JobFields
<1>2. /\ \/ Own(r) /\ job' = fields /\ cands' = list
         \/ job' = job /\ cands' = cands
      /\ \/ Own(r) /\ job' = fields /\ cands' = list /\ pc' = [pc EXCEPT ![r] = next]
         \/ pc' = [pc EXCEPT ![r] = "release"]
      /\ UNCHANGED <<tok, task, acts>> /\ job'.fence = job.fence
  BY ProgressEffect DEF Own
<1>3. /\ job'.act_cursor <= Len(cands') /\ Honest(job)' /\ DoneIsComplete(job, cands)'
      /\ \A t \in acts' : task'[t] # "in"
  BY <1>2 DEF ResultsInv, Honest, DoneIsComplete
<1>4. Len(cands') \in Nat /\ Len(cands) <= Len(cands')
  BY <1>1, <1>2
<1>5. ASSUME NEW s \in Runners
      PROVE  Honest(mine[s])' /\ BatchAddsUp(pc[s], mine[s], chunk[s], cands)'
  <2>1. CASE s = r
    <3>1. pc'[r] # "act"
      BY <1>1, <1>2 DEF WorkLabels
    <3> QED
      BY <1>2, <2>1, <3>1 DEF Honest, BatchAddsUp
  <2>2. CASE s # r
    <3>1. pc'[s] = pc[s] /\ mine'[s] = mine[s] /\ chunk'[s] = chunk[s]
      BY <1>1, <1>2, <2>2
    <3>2. Honest(mine[s]) /\ BatchAddsUp(pc[s], mine[s], chunk[s], cands)
      BY DEF ResultsInv
    <3>3. Honest(mine[s])'
      BY <1>2, <3>1, <3>2 DEF Honest
    <3>4. pc[s] = "act" => mine[s].act_cursor + chunk[s].size <= Len(cands')
      BY <1>1, <1>4, <3>2 DEF BatchAddsUp
    <3> QED
      BY <3>1, <3>2, <3>3, <3>4 DEF BatchAddsUp
  <2> QED
    BY <2>1, <2>2
<1>6. ASSUME NEW s \in Runners, Own(s)'
      PROVE  Tracks(job, pc[s], mine[s], cands)'
  <2>1. CASE s = r
    <3>1. CASE pc' = [pc EXCEPT ![r] = "release"]
      BY <1>1, <2>1, <3>1 DEF Tracks
    <3>2. CASE Own(r) /\ job' = fields /\ cands' = list /\ pc' = [pc EXCEPT ![r] = next]
      BY <1>1, <2>1, <3>2 DEF Tracks
    <3> QED
      BY <1>2, <3>1, <3>2
  <2>2. CASE s # r
    <3>1. pc'[s] = pc[s] /\ tok'[s] = tok[s] /\ mine'[s] = mine[s]
      BY <1>1, <1>2, <2>2
    <3>2. Own(s)
      BY <1>2, <1>6, <3>1 DEF Own, Works
    <3>3. job' = job /\ cands' = cands
      BY <1>2, <2>2, <3>2, OneOwner DEF JobInv
    <3> QED
      BY <3>1, <3>2, <3>3 DEF ResultsInv, Tracks
  <2> QED
    BY <2>1, <2>2
<1> QED
  BY <1>3, <1>5, <1>6 DEF ResultsInv

\* A step that leaves the results alone and moves one runner.
LEMMA ResultsMove ==
    ASSUME JobInv, ResultsInv, UNCHANGED <<job, cands, tok, task, acts>>, NEW r \in Runners,
           NEW label, pc' = [pc EXCEPT ![r] = label],
           Works(r) \/ label \in {"idle", "claim"},
           \A s \in Runners \ {r} : mine'[s] = mine[s] /\ chunk'[s] = chunk[s],
           Honest(mine'[r]), BatchAddsUp(label, mine'[r], chunk'[r], cands),
           Own(r) => Tracks(job, label, mine'[r], cands)
    PROVE  ResultsInv'
<1>1. pc \in [Runners -> Labels]
  BY ListTypes
<1>2. /\ job'.act_cursor <= Len(cands') /\ Honest(job)' /\ DoneIsComplete(job, cands)'
      /\ \A t \in acts' : task'[t] # "in"
  BY DEF ResultsInv, Honest, DoneIsComplete
<1>3. ASSUME NEW s \in Runners
      PROVE  Honest(mine[s])' /\ BatchAddsUp(pc[s], mine[s], chunk[s], cands)'
  <2>1. CASE s = r
    BY <1>1, <2>1 DEF Honest, BatchAddsUp
  <2>2. CASE s # r
    BY <1>1, <2>2 DEF ResultsInv, Honest, BatchAddsUp
  <2> QED
    BY <2>1, <2>2
<1>4. ASSUME NEW s \in Runners, Own(s)'
      PROVE  Tracks(job, pc[s], mine[s], cands)'
  <2>1. CASE s = r
    BY <1>1, <1>4, <2>1 DEF Own, Works, Tracks
  <2>2. CASE s # r
    BY <1>1, <1>4, <2>2 DEF Own, Works, ResultsInv, Tracks
  <2> QED
    BY <2>1, <2>2
<1> QED
  BY <1>2, <1>3, <1>4 DEF ResultsInv

\* A step that changes neither the results nor what the runners count.
LEMMA ResultsStay ==
    ASSUME JobInv, ResultsInv, UNCHANGED <<cands, tok, pc, mine, chunk, acts>>,
           \A t \in acts : task'[t] # "in",
           job'.fence = job.fence, job'.act_cursor = job.act_cursor,
           job'.acted = job.acted, job'.skipped = job.skipped, job'.failed = job.failed,
           job'.complete = job.complete, job'.state = "done" => job.state = "done"
    PROVE  ResultsInv'
<1>1. /\ job'.act_cursor <= Len(cands') /\ Honest(job)' /\ DoneIsComplete(job, cands)'
      /\ \A t \in acts' : task'[t] # "in"
  BY DEF ResultsInv, Honest, Sum, DoneIsComplete
<1>2. ASSUME NEW s \in Runners
      PROVE  /\ Honest(mine[s])' /\ BatchAddsUp(pc[s], mine[s], chunk[s], cands)'
             /\ Own(s)' => Tracks(job, pc[s], mine[s], cands)'
  <2>1. Honest(mine[s]) /\ BatchAddsUp(pc[s], mine[s], chunk[s], cands)
    BY DEF ResultsInv
  <2>2. Own(s)' => Tracks(job, pc[s], mine[s], cands)
    BY DEF ResultsInv, Own, Works
  <2> QED
    BY <2>1, <2>2 DEF Honest, BatchAddsUp, Tracks
<1> QED
  BY <1>1, <1>2 DEF ResultsInv

\* The requests write no results, and end no job as done.
LEMMA ResultsHandler ==
    ASSUME JobInv, ResultsInv, NEW h \in Handlers, Handler(h)
    PROVE  ResultsInv'
<1>1. job \in Jobs
  BY ListTypes
<1>2. UNCHANGED <<cands, tok, pc, mine, chunk, acts, task>>
  BY DEF Handler, AskExecute, AskCancel, AskPause, AskResume, Ask, WriteExecute, FinishDormant,
         FallThrough, WriteCtl, WriteResume, Wrote, redisVars, runnerVars
<1>3. /\ job'.fence = job.fence /\ job'.act_cursor = job.act_cursor
      /\ job'.acted = job.acted /\ job'.skipped = job.skipped /\ job'.failed = job.failed
      /\ job'.complete = job.complete
      /\ job'.state = "done" => job.state = "done"
  <2>1. CASE WriteExecute(h)
    BY <1>1, <2>1 DEF WriteExecute, Wrote, Jobs
  <2>2. CASE FinishDormant(h)
    BY <1>1, <2>2 DEF FinishDormant, Wrote, Jobs
  <2>3. CASE WriteCtl(h)
    <3> DEFINE ctl == IF pending[h] = "resume" THEN "" ELSE pending[h]
    <3>1. job' = [job EXCEPT !.ctl = ctl]
      BY <2>3 DEF WriteCtl, Wrote
    <3> HIDE DEF ctl
    <3> QED
      BY <1>1, <3>1 DEF Jobs
  <2>4. CASE WriteResume(h)
    <3> DEFINE st == IF pending[h] = "to_running" THEN "running" ELSE "previewing"
    <3>1. job' = [job EXCEPT !.ctl = "", !.state = st] /\ st # "done"
      BY <2>4 DEF WriteResume, Wrote
    <3> HIDE DEF st
    <3> QED
      BY <1>1, <3>1 DEF Jobs
  <2>5. CASE AskExecute(h) \/ AskCancel(h) \/ AskPause(h) \/ AskResume(h) \/ FallThrough(h)
    BY <2>5 DEF AskExecute, AskCancel, AskPause, AskResume, Ask, FallThrough, redisVars
  <2> QED
    BY <2>1, <2>2, <2>3, <2>4, <2>5 DEF Handler
<1>4. \A t \in acts : task'[t] # "in"
  BY <1>2 DEF ResultsInv
<1> QED
  BY <1>2, <1>3, <1>4, ResultsStay

\* What a re-fetch does not leave to act on is counted.
LEMMA CountedOrLeft ==
    ASSUME NEW refs, IsFiniteSet(refs), NEW bad \in SUBSET refs, NEW here \in SUBSET (refs \ bad),
           NEW left, left = {[task |-> t, matches |-> task[t] = "in"] : t \in here}
    PROVE  /\ Cardinality(bad) \in Nat /\ Cardinality((refs \ bad) \ here) \in Nat
           /\ Cardinality(left) \in Nat
           /\ Cardinality(bad) + Cardinality((refs \ bad) \ here) + Cardinality(left)
                >= Cardinality(refs)
<1>1. IsFiniteSet(bad) /\ IsFiniteSet(refs \ bad) /\ IsFiniteSet(here)
      /\ IsFiniteSet((refs \ bad) \ here)
  BY FS_Subset, FS_Difference
<1>2. Cardinality(refs \ bad) = Cardinality(refs) - Cardinality(bad)
  <2>1. refs \cap bad = bad
    OBVIOUS
  <2> QED
    BY <2>1, FS_Difference
<1>3. Cardinality((refs \ bad) \ here) = Cardinality(refs \ bad) - Cardinality(here)
  <2>1. (refs \ bad) \cap here = here
    OBVIOUS
  <2> QED
    BY <1>1, <2>1, FS_Difference
<1> DEFINE f == [t \in here |-> [task |-> t, matches |-> task[t] = "in"]]
           g == [ref \in left |-> ref.task]
<1>4. f \in Surjection(here, left)
  BY DEF Surjection
<1>5. g \in Surjection(left, here)
  <2>1. \A t \in here : [task |-> t, matches |-> task[t] = "in"].task = t
    OBVIOUS
  <2>2. g \in [left -> here]
    BY <2>1
  <2>3. ASSUME NEW t \in here
        PROVE  \E ref \in left : g[ref] = t
    <3>1. PICK ref \in left : ref = [task |-> t, matches |-> task[t] = "in"]
      OBVIOUS
    <3>2. ref.task = t
      BY <2>1, <3>1
    <3> QED
      BY <3>2
  <2> QED
    BY <2>2, <2>3 DEF Surjection
<1> HIDE DEF f, g
<1>6. IsFiniteSet(left)
  BY <1>1, <1>4, FS_Surjection
<1>7. Cardinality(here) <= Cardinality(left)
  BY <1>5, <1>6, FS_Surjection
<1>8. /\ Cardinality(bad) \in Nat /\ Cardinality((refs \ bad) \ here) \in Nat
      /\ Cardinality(here) \in Nat /\ Cardinality(left) \in Nat /\ Cardinality(refs) \in Nat
      /\ Cardinality(refs \ bad) \in Nat
  BY <1>1, <1>6, FS_CardinalityType
<1> QED
  BY <1>2, <1>3, <1>7, <1>8

\* A batch that is read adds up; one that is empty ends the list.
LEMMA ResultsRead ==
    ASSUME JobInv, ListInv, ResultsInv, NEW r \in Runners, ReadBatch(r)
    PROVE  ResultsInv'
<1>1. /\ job \in Jobs /\ mine[r] \in Jobs /\ mine \in [Runners -> Jobs]
      /\ chunk \in [Runners -> Chunks] /\ TypeInv
      /\ mine[r].acted \in Nat /\ mine[r].skipped \in Nat /\ mine[r].failed \in Nat
      /\ mine[r].act_cursor \in Nat /\ Cardinality(acts) \in Nat
      /\ job.act_cursor \in Nat /\ Len(cands) \in Nat /\ Len(task) \in Nat
  BY ListTypes, ResultTypes, JobFields DEF JobInv
<1> DEFINE refs == {cands[n] : n \in Refs(mine[r])}
<1>2. PICK bad \in SUBSET refs :
           LET here == {t \in refs \ bad : task[t] # "gone"}
           IN /\ chunk' = [chunk EXCEPT ![r] =
                   [size |-> Cardinality(refs),
                    left |-> {[task |-> t, matches |-> task[t] = "in"] : t \in here}]]
              /\ mine' = [mine EXCEPT ![r].failed = @ + Cardinality(bad),
                                      ![r].skipped = @ + Cardinality((refs \ bad) \ here)]
  BY DEF ReadBatch
<1> DEFINE here == {t \in refs \ bad : task[t] # "gone"}
           left == {[task |-> t, matches |-> task[t] = "in"] : t \in here}
           size == Cardinality(refs)
           failed == mine[r].failed + Cardinality(bad)
           skipped == mine[r].skipped + Cardinality((refs \ bad) \ here)
           label == IF refs = {} THEN "done" ELSE "act"
<1>3. /\ IsFiniteSet(refs) /\ size \in Nat
      /\ refs # {} => mine[r].act_cursor + size <= Len(cands)
  BY <1>1, BatchSize, FS_CardinalityType
<1>4. /\ UNCHANGED <<job, cands, tok, task, acts>> /\ pc' = [pc EXCEPT ![r] = label]
      /\ pc[r] = "read" /\ Works(r)
  BY DEF ReadBatch, Goto, At, Works, redisVars
<1>5. chunk'[r] = [size |-> size, left |-> left] /\ \A s \in Runners \ {r} : chunk'[s] = chunk[s]
  BY <1>1, <1>2
<1>6. mine' = [mine EXCEPT ![r].failed = failed, ![r].skipped = skipped]
  BY <1>1, <1>2
<1>7. /\ Cardinality(bad) \in Nat /\ Cardinality((refs \ bad) \ here) \in Nat
      /\ Cardinality(left) \in Nat
      /\ Cardinality(bad) + Cardinality((refs \ bad) \ here) + Cardinality(left) >= size
  <2>1. here \in SUBSET (refs \ bad)
    OBVIOUS
  <2> HIDE DEF refs, here
  <2> QED
    BY <1>3, <2>1, CountedOrLeft
<1>8. /\ failed \in Nat /\ skipped \in Nat
      /\ mine[r].acted + skipped + failed + Cardinality(left) >= Sum(mine[r]) + size
      /\ mine[r].acted + skipped + failed >= Sum(mine[r])
  <2> DEFINE b == Cardinality(bad)
             gone == Cardinality((refs \ bad) \ here)
             rest == Cardinality(left)
  <2>1. b \in Nat /\ gone \in Nat /\ rest \in Nat /\ b + gone + rest >= size /\ size \in Nat
    BY <1>3, <1>7
  <2>2. failed = mine[r].failed + b /\ skipped = mine[r].skipped + gone
    OBVIOUS
  <2>3. ASSUME NEW a \in Nat, NEW k \in Nat, NEW f \in Nat, NEW m \in Nat, NEW n \in Nat,
               NEW o \in Nat, NEW z \in Nat, m + n + o >= z
        PROVE  /\ a + (k + n) + (f + m) + o >= a + k + f + z
               /\ a + (k + n) + (f + m) >= a + k + f
    BY <2>3
  <2> HIDE DEF b, gone, rest, size
  <2>4. /\ mine[r].acted + skipped + failed + rest >= Sum(mine[r]) + size
        /\ mine[r].acted + skipped + failed >= Sum(mine[r])
    <3> DEFINE a == mine[r].acted
               k == mine[r].skipped
               f == mine[r].failed
    <3>1. a \in Nat /\ k \in Nat /\ f \in Nat
      BY <1>1
    <3>2. Sum(mine[r]) = a + k + f
      BY DEF Sum
    <3> HIDE DEF a, k, f
    <3>3. /\ a + (k + gone) + (f + b) + rest >= a + k + f + size
          /\ a + (k + gone) + (f + b) >= a + k + f
      BY <2>1, <2>3, <3>1
    <3>4. failed = f + b /\ skipped = k + gone
      BY <2>2 DEF k, f
    <3>5. a + skipped + failed + rest >= Sum(mine[r]) + size /\ a + skipped + failed >= Sum(mine[r])
      <4> HIDE DEF failed, skipped
      <4> QED
        BY <3>2, <3>3, <3>4
    <3> QED
      BY <3>5 DEF a
  <2>5. failed \in Nat /\ skipped \in Nat
    BY <1>1, <2>1, <2>2
  <2> QED
    BY <2>4, <2>5 DEF rest
<1>9. /\ mine'[r].acted = mine[r].acted /\ mine'[r].skipped = skipped
      /\ mine'[r].failed = failed /\ mine'[r].act_cursor = mine[r].act_cursor
      /\ \A s \in Runners \ {r} : mine'[s] = mine[s]
  <2> HIDE DEF failed, skipped
  <2> QED
    BY <1>1, <1>6 DEF Jobs
<1>10. Honest(mine[r])
  BY DEF ResultsInv
<1>11. refs = {} => mine[r].act_cursor >= Len(cands)
  <2>1. SUFFICES ASSUME mine[r].act_cursor < Len(cands)
                 PROVE  refs # {}
    <3> HIDE DEF refs
    <3> QED
      BY <1>1, <2>1
  <2>2. Len(cands) <= Len(task) /\ Tasks = 1..Len(task) /\ ExecBatch \in Nat \ {0}
    BY JobAssumption DEF ListInv, ListOf, JobInv, TypeInv, JobTypeOK, Tasks
  <2>3. mine[r].act_cursor + 1 \in Refs(mine[r])
    <3> DEFINE n == mine[r].act_cursor + 1
    <3>1. n \in Nat /\ n >= 1 /\ n > mine[r].act_cursor /\ n <= Len(cands)
      BY <1>1, <2>1
    <3>2. n \in Tasks /\ n <= mine[r].act_cursor + ExecBatch
      BY <1>1, <2>2, <3>1
    <3> HIDE DEF n
    <3>3. n \in Refs(mine[r])
      BY <3>1, <3>2 DEF Refs
    <3> QED
      BY <3>3 DEF n
  <2> QED
    BY <2>3
<1> HIDE DEF refs, here, left, size, failed, skipped
<1>12. Honest(mine'[r])
  <2>1. /\ Sum(mine'[r]) = mine[r].acted + skipped + failed
        /\ mine'[r].acted = mine[r].acted /\ mine'[r].act_cursor = mine[r].act_cursor
    BY <1>9 DEF Sum
  <2>2. Sum(mine[r]) \in Nat /\ Sum(mine'[r]) \in Nat /\ mine[r].act_cursor \in Nat
    <3>1. /\ mine[r].acted \in Nat /\ mine[r].skipped \in Nat /\ mine[r].failed \in Nat
          /\ mine[r].act_cursor \in Nat
      BY <1>1
    <3>2. mine[r].acted + mine[r].skipped + mine[r].failed \in Nat
      BY <3>1
    <3>3. mine[r].acted + skipped + failed \in Nat
      BY <1>8, <3>1
    <3> QED
      BY <2>1, <3>1, <3>2, <3>3 DEF Sum
  <2>3. Sum(mine'[r]) >= mine[r].act_cursor
    BY <1>8, <1>10, <2>1, <2>2 DEF Honest
  <2>4. acts' = acts /\ mine[r].acted <= Cardinality(acts)
    BY <1>4, <1>10 DEF Honest
  <2> QED
    BY <2>1, <2>3, <2>4 DEF Honest
<1>13. BatchAddsUp(label, mine'[r], chunk'[r], cands)
  <2>1. ASSUME refs # {}
        PROVE  /\ Sum(mine'[r]) + Cardinality(left) >= mine[r].act_cursor + size
               /\ mine[r].act_cursor + size <= Len(cands)
    <3>1. Sum(mine[r]) >= mine[r].act_cursor /\ Sum(mine[r]) \in Nat
      BY <1>1, <1>10 DEF Honest, Sum
    <3>2. Sum(mine'[r]) = mine[r].acted + skipped + failed /\ Sum(mine'[r]) \in Nat
      <4>1. mine[r].acted \in Nat
        BY <1>1
      <4>2. mine[r].acted + skipped + failed \in Nat
        BY <1>8, <4>1
      <4> QED
        BY <1>9, <4>2 DEF Sum
    <3>3. Cardinality(left) \in Nat /\ size \in Nat
      BY <1>3, <1>7
    <3>4. Sum(mine'[r]) + Cardinality(left) >= Sum(mine[r]) + size
      BY <1>8, <3>2
    <3> QED
      BY <1>1, <1>3, <2>1, <3>1, <3>2, <3>3, <3>4
  <2>2. chunk'[r].size = size /\ chunk'[r].left = left
    BY <1>5
  <2> QED
    BY <1>9, <2>1, <2>2 DEF BatchAddsUp
<1>14. Own(r) => Tracks(job, label, mine'[r], cands)
  <2>1. Own(r) => mine[r].act_cursor = job.act_cursor
    BY <1>4 DEF ResultsInv, Tracks
  <2> QED
    BY <1>9, <1>11, <2>1 DEF Tracks
<1> HIDE DEF label
<1> QED
  BY <1>4, <1>5, <1>9, <1>12, <1>13, <1>14, ResultsMove

\* An act is counted once, and never made up: a task that is acted on was not before.
LEMMA ResultsAct ==
    ASSUME JobInv, ResultsInv, NEW r \in Runners, Act(r)
    PROVE  ResultsInv'
<1>1. /\ job \in Jobs /\ mine[r] \in Jobs /\ mine \in [Runners -> Jobs]
      /\ chunk \in [Runners -> Chunks] /\ pc \in [Runners -> Labels]
      /\ IsFiniteSet(acts) /\ Cardinality(acts) \in Nat /\ acts \subseteq Tasks
      /\ IsFiniteSet(chunk[r].left) /\ Cardinality(chunk[r].left) \in Nat
      /\ chunk[r].size \in Nat /\ task \in Seq({"in", "out", "gone"})
      /\ \A j \in Jobs : j.acted \in Nat /\ j.skipped \in Nat /\ j.failed \in Nat
                         /\ j.act_cursor \in Nat
  BY ListTypes, ResultTypes, JobFields
<1>2. PICK t \in chunk[r].left :
        /\ pc[r] = "act"
        /\ \/ (Tally(r, "skipped") \/ Tally(r, "failed")) /\ UNCHANGED <<task, acts>>
           \/ Applied(t.task) /\ (Tally(r, "acted") \/ Tally(r, "failed"))
        /\ chunk' = [chunk EXCEPT ![r].left = @ \ {t}]
        /\ UNCHANGED <<job, cands, pc, tok>>
  BY DEF Act, At, redisVars
<1>3. t.task \in Tasks
  BY <1>1 DEF Chunks
<1>4. ASSUME Applied(t.task)
      PROVE  /\ Cardinality(acts') = Cardinality(acts) + 1
             /\ \A u \in acts' : task'[u] # "in"
  <2>1. t.task \notin acts /\ acts' = acts \cup {t.task}
    BY <1>4 DEF Applied, ResultsInv
  <2> DEFINE s == IF job.verb = "delete" THEN "gone" ELSE "out"
  <2>2. task' = [task EXCEPT ![t.task] = s] /\ s # "in"
    BY <1>4 DEF Applied
  <2> HIDE DEF s
  <2>3. \A u \in acts' : task'[u] # "in"
    BY <1>1, <1>3, <2>1, <2>2 DEF ResultsInv, Tasks
  <2> QED
    BY <1>1, <2>1, <2>3, FS_AddElement
<1>5. /\ Cardinality(acts') \in Nat /\ Cardinality(acts') >= Cardinality(acts)
      /\ \A u \in acts' : task'[u] # "in"
  BY <1>1, <1>2, <1>4 DEF ResultsInv
<1>6. /\ mine'[r].act_cursor = mine[r].act_cursor /\ Sum(mine'[r]) = Sum(mine[r]) + 1
      /\ mine'[r].acted <= Cardinality(acts')
      /\ \A s \in Runners \ {r} : mine'[s] = mine[s]
  <2>0. Cardinality(acts) \in Nat
    BY <1>1
  <2>1. mine[r].acted <= Cardinality(acts)
    BY DEF ResultsInv, Honest
  <2>2. ASSUME NEW n \in Nat
        PROVE  /\ [mine[r] EXCEPT !.acted = n].acted = n
               /\ [mine[r] EXCEPT !.acted = n].skipped = mine[r].skipped
               /\ [mine[r] EXCEPT !.acted = n].failed = mine[r].failed
               /\ [mine[r] EXCEPT !.acted = n].act_cursor = mine[r].act_cursor
    BY <1>1 DEF Jobs
  <2>3. ASSUME NEW n \in Nat
        PROVE  /\ [mine[r] EXCEPT !.skipped = n].acted = mine[r].acted
               /\ [mine[r] EXCEPT !.skipped = n].skipped = n
               /\ [mine[r] EXCEPT !.skipped = n].failed = mine[r].failed
               /\ [mine[r] EXCEPT !.skipped = n].act_cursor = mine[r].act_cursor
    BY <1>1 DEF Jobs
  <2>4. ASSUME NEW n \in Nat
        PROVE  /\ [mine[r] EXCEPT !.failed = n].acted = mine[r].acted
               /\ [mine[r] EXCEPT !.failed = n].skipped = mine[r].skipped
               /\ [mine[r] EXCEPT !.failed = n].failed = n
               /\ [mine[r] EXCEPT !.failed = n].act_cursor = mine[r].act_cursor
    BY <1>1 DEF Jobs
  <2>5. /\ mine[r].acted \in Nat /\ mine[r].skipped \in Nat /\ mine[r].failed \in Nat
        /\ mine[r].acted + 1 \in Nat /\ mine[r].skipped + 1 \in Nat /\ mine[r].failed + 1 \in Nat
    BY <1>1
  <2>6. CASE Tally(r, "acted") /\ Applied(t.task)
    <3>1. mine' = [mine EXCEPT ![r] = [mine[r] EXCEPT !.acted = mine[r].acted + 1]]
      BY <2>6 DEF Tally
    <3>2. mine'[r] = [mine[r] EXCEPT !.acted = mine[r].acted + 1]
          /\ \A s \in Runners \ {r} : mine'[s] = mine[s]
      BY <1>1, <3>1
    <3>3. /\ mine'[r].acted = mine[r].acted + 1 /\ mine'[r].skipped = mine[r].skipped
          /\ mine'[r].failed = mine[r].failed /\ mine'[r].act_cursor = mine[r].act_cursor
      BY <2>2, <2>5, <3>2
    <3>4. Cardinality(acts') = Cardinality(acts) + 1
      BY <1>4, <2>6
    <3>5. Sum(mine'[r]) = Sum(mine[r]) + 1
      BY <2>5, <3>3 DEF Sum
    <3>6. mine'[r].acted <= Cardinality(acts')
      BY <1>4, <1>5, <2>0, <2>1, <2>5, <2>6, <3>3, <3>4
    <3> QED
      BY <3>2, <3>3, <3>5, <3>6
  <2>7. CASE Tally(r, "skipped")
    <3>1. mine' = [mine EXCEPT ![r] = [mine[r] EXCEPT !.skipped = mine[r].skipped + 1]]
      BY <2>7 DEF Tally
    <3>2. mine'[r] = [mine[r] EXCEPT !.skipped = mine[r].skipped + 1]
          /\ \A s \in Runners \ {r} : mine'[s] = mine[s]
      BY <1>1, <3>1
    <3>3. /\ mine'[r].acted = mine[r].acted /\ mine'[r].skipped = mine[r].skipped + 1
          /\ mine'[r].failed = mine[r].failed /\ mine'[r].act_cursor = mine[r].act_cursor
      BY <2>3, <2>5, <3>2
    <3>4. Sum(mine'[r]) = Sum(mine[r]) + 1
      BY <2>5, <3>3 DEF Sum
    <3>5. mine'[r].acted <= Cardinality(acts')
      BY <1>5, <2>0, <2>1, <2>5, <3>3
    <3> QED
      BY <3>2, <3>3, <3>4, <3>5
  <2>8. CASE Tally(r, "failed")
    <3>1. mine' = [mine EXCEPT ![r] = [mine[r] EXCEPT !.failed = mine[r].failed + 1]]
      BY <2>8 DEF Tally
    <3>2. mine'[r] = [mine[r] EXCEPT !.failed = mine[r].failed + 1]
          /\ \A s \in Runners \ {r} : mine'[s] = mine[s]
      BY <1>1, <3>1
    <3>3. /\ mine'[r].acted = mine[r].acted /\ mine'[r].skipped = mine[r].skipped
          /\ mine'[r].failed = mine[r].failed + 1 /\ mine'[r].act_cursor = mine[r].act_cursor
      BY <2>4, <2>5, <3>2
    <3>4. Sum(mine'[r]) = Sum(mine[r]) + 1
      BY <2>5, <3>3 DEF Sum
    <3>5. mine'[r].acted <= Cardinality(acts')
      BY <1>5, <2>0, <2>1, <2>5, <3>3
    <3> QED
      BY <3>2, <3>3, <3>4, <3>5
  <2> QED
    BY <1>2, <2>6, <2>7, <2>8
<1>7. /\ chunk'[r].size = chunk[r].size
      /\ Cardinality(chunk'[r].left) = Cardinality(chunk[r].left) - 1
      /\ \A s \in Runners \ {r} : chunk'[s] = chunk[s]
  <2>1. chunk'[r].size = chunk[r].size /\ chunk'[r].left = chunk[r].left \ {t}
        /\ \A s \in Runners \ {r} : chunk'[s] = chunk[s]
    BY <1>1, <1>2 DEF Chunks
  <2>2. Cardinality(chunk[r].left \ {t}) = Cardinality(chunk[r].left) - 1
    BY <1>1, <1>2, FS_RemoveElement
  <2> QED
    BY <2>1, <2>2
<1>8. Sum(mine[r]) \in Nat /\ mine[r].act_cursor \in Nat
  BY <1>1 DEF Sum
<1>9. ASSUME NEW s \in Runners
      PROVE  /\ Honest(mine[s])' /\ BatchAddsUp(pc[s], mine[s], chunk[s], cands)'
             /\ Own(s)' => Tracks(job, pc[s], mine[s], cands)'
  <2>1. /\ Honest(mine[s]) /\ BatchAddsUp(pc[s], mine[s], chunk[s], cands)
        /\ Own(s)' => Tracks(job, pc[s], mine[s], cands)
    BY <1>2 DEF ResultsInv, Own, Works
  <2>2. CASE s # r
    <3>1. mine'[s] = mine[s] /\ chunk'[s] = chunk[s] /\ mine[s].acted \in Nat
      BY <1>1, <1>6, <1>7, <2>2
    <3>2. Honest(mine[s])'
      BY <1>1, <1>5, <2>1, <3>1 DEF Honest
    <3> QED
      BY <1>2, <2>1, <3>1, <3>2 DEF BatchAddsUp, Tracks
  <2>3. CASE s = r
    <3>1. Honest(mine[r])'
      BY <1>6, <1>8, <2>1, <2>3 DEF Honest
    <3>2. BatchAddsUp(pc[r], mine[r], chunk[r], cands)'
      <4>1. /\ Sum(mine[r]) + Cardinality(chunk[r].left) >= mine[r].act_cursor + chunk[r].size
            /\ mine[r].act_cursor + chunk[r].size <= Len(cands)
        BY <1>2, <2>1, <2>3 DEF BatchAddsUp
      <4> QED
        BY <1>1, <1>2, <1>6, <1>7, <1>8, <4>1 DEF BatchAddsUp
    <3> QED
      BY <1>2, <1>6, <2>1, <2>3, <3>1, <3>2 DEF Tracks
  <2> QED
    BY <2>2, <2>3
<1>10. job.act_cursor <= Len(cands) /\ Honest(job) /\ DoneIsComplete(job, cands)
  BY DEF ResultsInv
<1>11. /\ job'.act_cursor <= Len(cands') /\ Honest(job)' /\ DoneIsComplete(job, cands)'
  BY <1>1, <1>2, <1>5, <1>10 DEF Honest, DoneIsComplete
<1> QED
  BY <1>5, <1>9, <1>11 DEF ResultsInv

\* A claim finds and leaves the results as they are.
LEMMA ResultsClaim ==
    ASSUME JobInv, ResultsInv, NEW r \in Runners, Claim(r)
    PROVE  ResultsInv'
<1>1. /\ job \in Jobs /\ job.fence \in Nat
      /\ pc \in [Runners -> Labels] /\ tok \in [Runners -> 0..job.fence]
  BY ListTypes
<1> DEFINE n == job.fence + 1
<1>2. job' = [job EXCEPT !.fence = n] /\ n \in Nat
  BY <1>1 DEF Claim
<1> HIDE DEF n
<1>3. /\ job'.fence = n /\ job'.act_cursor = job.act_cursor
      /\ job'.acted = job.acted /\ job'.skipped = job.skipped /\ job'.failed = job.failed
      /\ job'.complete = job.complete /\ job'.state = job.state
  BY <1>1, <1>2 DEF Jobs
<1>4. UNCHANGED <<cands, mine, chunk, task, acts>> /\ pc[r] = "claim"
  BY DEF Claim, At
<1>5. /\ job'.act_cursor <= Len(cands') /\ Honest(job)' /\ DoneIsComplete(job, cands)'
      /\ \A t \in acts' : task'[t] # "in"
  BY <1>3, <1>4 DEF ResultsInv, Honest, Sum, DoneIsComplete
<1>6. ASSUME NEW s \in Runners
      PROVE  /\ Honest(mine[s])' /\ BatchAddsUp(pc[s], mine[s], chunk[s], cands)'
             /\ Own(s)' => Tracks(job, pc[s], mine[s], cands)'
  <2>1. Honest(mine[s]) /\ BatchAddsUp(pc[s], mine[s], chunk[s], cands)
    BY DEF ResultsInv
  <2>2. pc'[s] = pc[s] \/ pc'[s] \in {"idle", "load"}
    BY <1>1 DEF Claim, Goto
  <2>3. Own(s)' => pc'[s] \in {"idle", "load"}
    <3>1. job'.fence = job.fence + 1
      BY <1>3 DEF n
    <3> QED
      BY <1>1, <3>1 DEF Claim, Own, Goto
  <2> QED
    BY <1>4, <2>1, <2>2, <2>3 DEF Honest, BatchAddsUp, Tracks
<1> QED
  BY <1>5, <1>6 DEF ResultsInv

\* A runner that releases its claim, or dies, takes no results with it.
LEMMA ResultsForgotten ==
    ASSUME JobInv, ResultsInv, NEW r \in Runners,
           pc' = [pc EXCEPT ![r] = "idle"], tok' = [tok EXCEPT ![r] = 0],
           mine' = [mine EXCEPT ![r] = NoJob], chunk' = [chunk EXCEPT ![r] = NoChunk],
           UNCHANGED <<job, cands, task, acts>>
    PROVE  ResultsInv'
<1>1. /\ pc \in [Runners -> Labels] /\ mine \in [Runners -> Jobs]
      /\ chunk \in [Runners -> Chunks] /\ tok \in [Runners -> 0..job.fence]
      /\ Cardinality(acts) \in Nat
  BY ListTypes, ResultTypes
<1>2. /\ job'.act_cursor <= Len(cands') /\ Honest(job)' /\ DoneIsComplete(job, cands)'
      /\ \A t \in acts' : task'[t] # "in"
  BY DEF ResultsInv, Honest, DoneIsComplete
<1>3. Honest(NoJob)
  <2>1. /\ NoJob.acted = 0 /\ NoJob.skipped = 0 /\ NoJob.failed = 0 /\ NoJob.act_cursor = 0
    BY DEF NoJob, NewJob
  <2>2. Sum(NoJob) = 0
    BY <2>1 DEF Sum
  <2> QED
    BY <1>1, <2>1, <2>2 DEF Honest
<1>4. ASSUME NEW s \in Runners
      PROVE  /\ Honest(mine[s])' /\ BatchAddsUp(pc[s], mine[s], chunk[s], cands)'
             /\ Own(s)' => Tracks(job, pc[s], mine[s], cands)'
  <2>1. CASE s = r
    <3>1. pc'[s] = "idle" /\ mine'[s] = NoJob
      BY <1>1, <2>1
    <3>2. Honest(mine[s])'
      BY <1>3, <3>1 DEF Honest
    <3> QED
      BY <3>1, <3>2 DEF BatchAddsUp, Tracks
  <2>2. CASE s # r
    <3>1. pc'[s] = pc[s] /\ mine'[s] = mine[s] /\ chunk'[s] = chunk[s] /\ tok'[s] = tok[s]
      BY <1>1, <2>2
    <3> QED
      BY <3>1 DEF ResultsInv, Honest, BatchAddsUp, Tracks, Own, Works
  <2> QED
    BY <2>1, <2>2
<1> QED
  BY <1>2, <1>4 DEF ResultsInv

\* What a runner does between its writes.
LEMMA ResultsReads ==
    ASSUME JobInv, ListInv, ResultsInv, NEW r \in Runners,
           \/ ListJobs(r) \/ Claim(r) \/ ClaimRefused(r) \/ Load(r) \/ CheckCtl(r) \/ Abort(r)
           \/ DropCandidates(r) \/ RenewBatch(r) \/ ReadBatch(r) \/ Act(r) \/ Release(r)
           \/ RenewalFails(r)
    PROVE  ResultsInv'
<1>1. /\ job \in Jobs /\ pc \in [Runners -> Labels] /\ mine \in [Runners -> Jobs]
      /\ chunk \in [Runners -> Chunks] /\ tok \in [Runners -> 0..job.fence]
  BY ListTypes, ResultTypes
<1>2. /\ Honest(job) /\ Honest(mine[r])
      /\ Own(r) => Tracks(job, pc[r], mine[r], cands)
      /\ \A t \in acts : task[t] # "in"
  BY DEF ResultsInv
<1>3. ASSUME NEW label \in {"idle", "claim", "release", "read"},
             pc' = [pc EXCEPT ![r] = label], Works(r) \/ label \in {"idle", "claim"},
             label = "read" => pc[r] = "batch",
             UNCHANGED <<job, cands, tok, task, acts, mine, chunk>>
      PROVE  ResultsInv'
  <2>1. BatchAddsUp(label, mine'[r], chunk'[r], cands) /\ Honest(mine'[r])
    BY <1>2, <1>3 DEF BatchAddsUp
  <2>2. Own(r) => Tracks(job, label, mine'[r], cands)
    BY <1>2, <1>3 DEF Tracks
  <2> QED
    BY <1>3, <2>1, <2>2, ResultsMove
<1>4. CASE ListJobs(r) \/ ClaimRefused(r)
  BY <1>3, <1>4 DEF ListJobs, ClaimRefused, Goto, redisVars
<1>5. CASE Abort(r)
  BY <1>3, <1>5 DEF Abort, GiveUp, Goto, redisVars, Works
<1>6. CASE RenewBatch(r)
  BY <1>3, <1>6 DEF RenewBatch, Goto, redisVars, At, Works
<1>7. CASE Claim(r)
  BY <1>7, ResultsClaim
<1>8. ASSUME NEW label \in {"page", "complete", "canceled", "paused", "batch", "release"},
             NEW j, Take(r, j, label), Works(r), Honest(j),
             label = "batch" => j = job
      PROVE  ResultsInv'
  <2>1. /\ pc' = [pc EXCEPT ![r] = label] /\ UNCHANGED <<job, cands, tok, task, acts, chunk>>
        /\ mine' = [mine EXCEPT ![r] = j]
    BY <1>8 DEF Take, Goto, redisVars
  <2>2. mine'[r] = j /\ \A s \in Runners \ {r} : mine'[s] = mine[s] /\ chunk'[s] = chunk[s]
    BY <1>1, <2>1
  <2>3. BatchAddsUp(label, mine'[r], chunk'[r], cands) /\ Tracks(job, label, mine'[r], cands)
    BY <1>8, <2>2 DEF BatchAddsUp, Tracks
  <2> QED
    BY <1>8, <2>1, <2>2, <2>3, ResultsMove
<1>9. CASE Load(r)
  <2>1. Works(r)
    BY <1>9 DEF Load, At, Works
  <2>2. PICK label \in {"page", "complete", "batch", "release"} : Take(r, job, label)
    BY <1>9 DEF Load, NextPage
  <2> QED
    BY <1>2, <1>8, <2>1, <2>2
<1>10. CASE CheckCtl(r)
  <2> DEFINE page == [job EXCEPT !.cursor = mine[r].cursor]
             j == IF pc[r] = "ctl_page" THEN page ELSE job
  <2>1. Honest(page)
    <3>1. /\ page.acted = job.acted /\ page.skipped = job.skipped /\ page.failed = job.failed
          /\ page.act_cursor = job.act_cursor
      BY <1>1 DEF Jobs
    <3> QED
      BY <1>2, <3>1 DEF Honest, Sum
  <2>2. PICK label : /\ Take(r, j, label)
                     /\ \/ label \in {"canceled", "paused"}
                        \/ pc[r] = "ctl_batch" /\ label = "batch"
                        \/ pc[r] = "ctl_page" /\ label = NextPage(j)
    BY <1>10 DEF CheckCtl
  <2>3. Works(r)
    BY <1>10 DEF CheckCtl, Works
  <2>4. /\ label \in {"page", "complete", "canceled", "paused", "batch"}
        /\ label = "batch" => pc[r] # "ctl_page"
    BY <2>2 DEF NextPage
  <2>5. Honest(j) /\ (label = "batch" => j = job)
    BY <1>2, <2>1, <2>4
  <2> HIDE DEF j
  <2> QED
    BY <1>8, <2>2, <2>3, <2>4, <2>5
<1>11. CASE DropCandidates(r)
  BY <1>11 DEF DropCandidates, At, ListInv, NothingIsDropped
<1>12. CASE Release(r)
  <2>1. /\ pc' = [pc EXCEPT ![r] = "idle"] /\ tok' = [tok EXCEPT ![r] = 0]
        /\ UNCHANGED <<job, cands, task, acts>> /\ mine' = [mine EXCEPT ![r] = NoJob]
        /\ chunk' = [chunk EXCEPT ![r] = NoChunk]
    BY <1>12 DEF Release, Goto, Forget
  <2> QED
    BY <2>1, ResultsForgotten
<1>13. CASE RenewalFails(r)
  BY <1>2, <1>13, ResultsStay DEF RenewalFails, redisVars
<1> QED
  BY <1>4, <1>5, <1>6, <1>7, <1>9, <1>10, <1>11, <1>12, <1>13, ResultsRead, ResultsAct

\* What a runner writes of the results is what it counted.
LEMMA ResultsWrites ==
    ASSUME JobInv, ListInv, ResultsInv, NEW r \in Runners,
           \/ FreezeQueues(r) \/ WritePage(r) \/ WritePause(r) \/ CompletePreview(r)
           \/ EndJob(r) \/ WritePartial(r) \/ WriteBatch(r)
    PROVE  ResultsInv'
<1> USE DEF WorkLabels, Labels
<1>1. /\ job \in Jobs /\ mine \in [Runners -> Jobs] /\ mine[r] \in Jobs
      /\ chunk \in [Runners -> Chunks] /\ cands \in Seq(Tasks)
      /\ Len(cands) \in Nat /\ job.act_cursor \in Nat
  BY ListTypes, ResultTypes, JobFields
<1>2. /\ job.act_cursor <= Len(cands) /\ Honest(job) /\ Honest(mine[r])
      /\ BatchAddsUp(pc[r], mine[r], chunk[r], cands)
      /\ Own(r) => Tracks(job, pc[r], mine[r], cands) /\ InStep(job, pc[r])
  BY DEF ResultsInv, JobInv, GateInv, OwnerIsInStep
\* Enumeration: the results stay what they are, and the job goes on.
<1>3. ASSUME NEW fields, NEW list, NEW next \in {"page", "complete", "too_large", "ctl_page",
                                                 "release", "reload"},
             Progress(r, fields, list, next, "release"), Works(r), UNCHANGED chunk,
             Len(list) \in Nat, Len(cands) <= Len(list),
             \A s \in Runners \ {r} : mine'[s] = mine[s], Honest(mine'[r]),
             fields.fence = job.fence, fields.act_cursor = job.act_cursor,
             fields.acted = job.acted, fields.skipped = job.skipped, fields.failed = job.failed,
             Own(r) => fields.state # "done"
      PROVE  ResultsInv'
  <2>1. Honest(fields)
    BY <1>2, <1>3 DEF Honest, Sum
  <2>2. fields.act_cursor <= Len(list)
    BY <1>1, <1>2, <1>3
  <2>3. Own(r) => DoneIsComplete(fields, list)
    BY <1>3 DEF DoneIsComplete
  <2>4. Tracks(fields, next, mine'[r], list)
    BY <1>3 DEF Tracks
  <2>5. next \in WorkLabels \ {"act"} /\ \A s \in Runners \ {r} : chunk'[s] = chunk[s]
    BY <1>3
  <2> HIDE DEF WorkLabels
  <2> QED
    BY <1>3, <2>1, <2>2, <2>3, <2>4, <2>5, ResultsProgress
<1>4. CASE FreezeQueues(r)
  <2> DEFINE fields == [job EXCEPT !.cursor = 1]
             next == NextPage(mine'[r])
  <2>1. /\ fields.fence = job.fence /\ fields.act_cursor = job.act_cursor
        /\ fields.acted = job.acted /\ fields.skipped = job.skipped
        /\ fields.failed = job.failed /\ fields.state = job.state
    BY <1>1 DEF Jobs
  <2>2. pc[r] = "page" /\ Works(r) /\ UNCHANGED chunk
    BY <1>4 DEF FreezeQueues, At, Works
  <2>3. CASE /\ mine' = [mine EXCEPT ![r].cursor = 1]
             /\ Progress(r, fields, cands, next, "release")
    <3>1. /\ mine'[r].acted = mine[r].acted /\ mine'[r].skipped = mine[r].skipped
          /\ mine'[r].failed = mine[r].failed /\ mine'[r].act_cursor = mine[r].act_cursor
          /\ \A s \in Runners \ {r} : mine'[s] = mine[s]
      BY <1>1, <2>3 DEF Jobs
    <3>2. Honest(mine'[r])
      BY <1>2, <3>1 DEF Honest, Sum
    <3>3. next \in {"page", "complete"}
      BY DEF NextPage
    <3> HIDE DEF fields, next
    <3>4. Own(r) => fields.state # "done"
      BY <1>2, <2>1, <2>2 DEF InStep, Listing, Claimable
    <3> QED
      BY <1>1, <1>3, <2>1, <2>2, <2>3, <3>1, <3>2, <3>3, <3>4
  <2>4. CASE /\ pc' = [pc EXCEPT ![r] = "failed"]
             /\ UNCHANGED <<job, cands, tok, task, acts, mine, chunk>>
    <3>1. /\ BatchAddsUp("failed", mine'[r], chunk'[r], cands)
          /\ Tracks(job, "failed", mine'[r], cands)
      BY DEF BatchAddsUp, Tracks
    <3> QED
      BY <1>2, <2>2, <2>4, <3>1, ResultsMove
  <2> QED
    BY <1>4, <2>3, <2>4 DEF FreezeQueues, Goto, redisVars
<1>5. CASE WritePage(r)
  <2> DEFINE c == mine[r].candidates + 1
             k == mine[r].cursor + 1
             j == [mine[r] EXCEPT !.candidates = c, !.cursor = k]
             fields == [job EXCEPT !.candidates = j.candidates, !.cursor = j.cursor]
             list == Append(cands, mine[r].cursor)
             next == IF j.candidates > MaxCandidates THEN "too_large" ELSE "ctl_page"
  <2>1. /\ fields.fence = job.fence /\ fields.act_cursor = job.act_cursor
        /\ fields.acted = job.acted /\ fields.skipped = job.skipped
        /\ fields.failed = job.failed /\ fields.state = job.state
    <3> HIDE DEF j
    <3> QED
      BY <1>1 DEF Jobs
  <2>2. /\ j.acted = mine[r].acted /\ j.skipped = mine[r].skipped
        /\ j.failed = mine[r].failed /\ j.act_cursor = mine[r].act_cursor
    <3> HIDE DEF c, k
    <3> QED
      BY <1>1 DEF Jobs
  <2>3. /\ pc[r] = "page" /\ Works(r) /\ UNCHANGED chunk /\ mine' = [mine EXCEPT ![r] = j]
        /\ Progress(r, fields, list, next, "release")
    <3>1. j = [mine[r] EXCEPT !.candidates = @ + 1, !.cursor = @ + 1]
      OBVIOUS
    <3> QED
      BY <1>5, <3>1 DEF WritePage, At, Works
  <2> HIDE DEF j
  <2>4. mine'[r] = j /\ \A s \in Runners \ {r} : mine'[s] = mine[s]
    BY <1>1, <2>3
  <2>5. Honest(mine'[r])
    BY <1>2, <2>2, <2>4 DEF Honest, Sum
  <2>6. Len(list) = Len(cands) + 1
    BY <1>1
  <2> HIDE DEF fields, list
  <2>7. Own(r) => fields.state # "done"
    BY <1>2, <2>1, <2>3 DEF InStep, Listing, Claimable
  <2>8. next \in {"too_large", "ctl_page"}
    OBVIOUS
  <2> HIDE DEF next
  <2>9. Len(list) \in Nat /\ Len(cands) <= Len(list)
    BY <1>1, <2>6
  <2> QED
    BY <1>3, <2>1, <2>3, <2>4, <2>5, <2>7, <2>8, <2>9
<1>6. CASE WritePause(r)
  <2> DEFINE fields == [job EXCEPT !.state = "paused", !.ctl = ""]
  <2>1. /\ fields.fence = job.fence /\ fields.act_cursor = job.act_cursor
        /\ fields.acted = job.acted /\ fields.skipped = job.skipped
        /\ fields.failed = job.failed /\ fields.state # "done"
    BY <1>1 DEF Jobs
  <2>2. /\ Progress(r, fields, cands, "release", "release") /\ Works(r)
        /\ UNCHANGED <<mine, chunk>>
    BY <1>6 DEF WritePause, At, Works
  <2> HIDE DEF fields
  <2> QED
    BY <1>1, <1>2, <1>3, <2>1, <2>2
<1>7. CASE CompletePreview(r)
  <2> DEFINE st == IF job.phase = "preview" THEN "preview_ready" ELSE job.state
             fields == [job EXCEPT !.complete = TRUE, !.state = st]
  <2>1. /\ fields.fence = job.fence /\ fields.act_cursor = job.act_cursor
        /\ fields.acted = job.acted /\ fields.skipped = job.skipped
        /\ fields.failed = job.failed /\ fields.state = st
    <3> HIDE DEF st
    <3> QED
      BY <1>1 DEF Jobs
  <2>2. /\ Progress(r, fields, cands, "reload", "release") /\ Works(r) /\ pc[r] = "complete"
        /\ UNCHANGED <<mine, chunk>>
    BY <1>7 DEF CompletePreview, At, Works
  <2>3. Own(r) => st # "done"
    BY <1>2, <2>2 DEF InStep, Listing, Claimable
  <2> HIDE DEF fields, st
  <2> QED
    BY <1>1, <1>2, <1>3, <2>1, <2>2, <2>3
\* Execution, and the ends of a job.
<1>8. CASE EndJob(r)
  <2>1. ASSUME NEW st \in {"canceled", "done", "failed"}, Finalize(r, st, "release")
        PROVE  ResultsInv'
    <3> DEFINE end == IF st = "too_large" THEN "failed" ELSE st
               fields == [job EXCEPT !.state = end, !.ctl = ""]
    <3>1. /\ fields.fence = job.fence /\ fields.act_cursor = job.act_cursor
          /\ fields.acted = job.acted /\ fields.skipped = job.skipped
          /\ fields.failed = job.failed /\ fields.state = end /\ fields.complete = job.complete
      <4> HIDE DEF end
      <4> QED
        BY <1>1 DEF Jobs
    <3>2. /\ Progress(r, fields, cands, "release", "release") /\ Works(r) /\ pc[r] = st
          /\ UNCHANGED <<mine, chunk>>
      BY <2>1 DEF Finalize, At, Works
    <3>3. end = st
      BY <2>1
    <3> HIDE DEF fields, end
    <3>4. ASSUME Own(r)
          PROVE  DoneIsComplete(fields, cands)
      <4>1. st = "done" => job.complete /\ job.act_cursor >= Len(cands)
        BY <1>2, <3>2, <3>4 DEF InStep, Executing, Tracks
      <4> QED
        BY <1>1, <1>2, <3>1, <3>3, <4>1 DEF DoneIsComplete
    <3>5. Honest(fields) /\ fields.act_cursor <= Len(cands)
      BY <1>2, <3>1 DEF Honest, Sum
    <3>6. Tracks(fields, "release", mine'[r], cands)
      BY DEF Tracks
    <3> QED
      BY <1>1, <1>2, <3>1, <3>2, <3>4, <3>5, <3>6, ResultsProgress
  <2>2. ~Finalize(r, "too_large", "drop")
    BY DEF Finalize, At, ListInv, NothingIsDropped
  <2> QED
    BY <1>8, <2>1, <2>2 DEF EndJob
<1>9. ASSUME NEW n \in Nat
      PROVE  LET upto == [Counts(r) EXCEPT !.act_cursor = n]
             IN /\ Counts(r).fence = job.fence /\ Counts(r).act_cursor = job.act_cursor
                /\ Counts(r).acted = mine[r].acted /\ Counts(r).skipped = mine[r].skipped
                /\ Counts(r).failed = mine[r].failed /\ Counts(r).state = job.state
                /\ upto.fence = job.fence /\ upto.act_cursor = n
                /\ upto.acted = mine[r].acted /\ upto.skipped = mine[r].skipped
                /\ upto.failed = mine[r].failed /\ upto.state = job.state
  BY <1>1 DEF Counts, Jobs
<1>10. CASE WritePartial(r)
  <2>1. /\ Progress(r, Counts(r), cands, "release", "release") /\ Works(r) /\ pc[r] = "act"
        /\ UNCHANGED <<mine, chunk>>
    BY <1>10 DEF WritePartial, At, Works
  <2>2. ASSUME Own(r)
        PROVE  Honest(Counts(r)) /\ DoneIsComplete(Counts(r), cands)
    <3>1. mine[r].act_cursor = job.act_cursor /\ job.state # "done"
      BY <1>2, <2>1, <2>2 DEF Tracks, InStep, Executing, Claimable
    <3> QED
      BY <1>2, <1>9, <3>1 DEF Honest, Sum, DoneIsComplete
  <2>3. Tracks(Counts(r), "release", mine'[r], cands)
    BY DEF Tracks
  <2>4. Counts(r).act_cursor <= Len(cands) /\ Counts(r).fence = job.fence
    BY <1>2, <1>9
  <2> QED
    BY <1>1, <1>2, <2>1, <2>2, <2>3, <2>4, ResultsProgress
<1>11. CASE WriteBatch(r)
  <2> DEFINE n == mine[r].act_cursor + chunk[r].size
             fields == [Counts(r) EXCEPT !.act_cursor = n]
  <2>1. /\ Progress(r, fields, cands, "ctl_batch", "release") /\ Works(r) /\ pc[r] = "act"
        /\ chunk[r].left = {} /\ UNCHANGED mine /\ chunk' = [chunk EXCEPT ![r] = NoChunk]
    BY <1>11 DEF WriteBatch, At, Works
  <2>2. n \in Nat /\ n <= Len(cands) /\ Sum(mine[r]) >= n
    <3>1. chunk[r].size \in Nat /\ mine[r].act_cursor \in Nat /\ Sum(mine[r]) \in Nat
      BY <1>1, JobFields, ResultTypes DEF Sum
    <3>2. Cardinality(chunk[r].left) = 0
      BY <2>1, FS_EmptySet
    <3>3. Sum(mine[r]) + Cardinality(chunk[r].left) >= n /\ n <= Len(cands)
      BY <1>2, <2>1 DEF BatchAddsUp
    <3> QED
      BY <3>1, <3>2, <3>3
  <2> HIDE DEF n
  <2>3. /\ fields.fence = job.fence /\ fields.act_cursor = n
        /\ fields.acted = mine[r].acted /\ fields.skipped = mine[r].skipped
        /\ fields.failed = mine[r].failed /\ fields.state = job.state
    BY <1>9, <2>2
  <2>4. \A s \in Runners \ {r} : mine'[s] = mine[s] /\ chunk'[s] = chunk[s]
    BY <1>1, <2>1
  <2> HIDE DEF fields
  <2>5. Honest(fields)
    BY <1>2, <2>2, <2>3 DEF Honest, Sum
  <2>6. Own(r) => DoneIsComplete(fields, cands)
    BY <1>2, <2>1, <2>3 DEF InStep, Executing, Claimable, DoneIsComplete
  <2>7. Tracks(fields, "ctl_batch", mine'[r], cands)
    BY DEF Tracks
  <2> QED
    BY <1>1, <1>2, <2>1, <2>2, <2>3, <2>4, <2>5, <2>6, <2>7, ResultsProgress
<1> QED
  BY <1>4, <1>5, <1>6, <1>7, <1>8, <1>10, <1>11

LEMMA ResultsStep == JobInv /\ ListInv /\ ResultsInv /\ [Next]_vars => ResultsInv'
<1> SUFFICES ASSUME JobInv, ListInv, ResultsInv, [Next]_vars
             PROVE  ResultsInv'
  OBVIOUS
<1>1. \A t \in acts : task[t] # "in"
  BY DEF ResultsInv
<1>2. ASSUME NEW h \in Handlers, Handler(h)
      PROVE  ResultsInv'
  BY <1>2, ResultsHandler
<1>3. ASSUME NEW r \in Runners, Runner(r) \/ RenewalFails(r)
      PROVE  ResultsInv'
  BY <1>3, ResultsReads, ResultsWrites DEF Runner
<1>4. ASSUME NEW r \in Runners, Crash(r)
      PROVE  ResultsInv'
  <2>1. /\ pc' = [pc EXCEPT ![r] = "idle"] /\ tok' = [tok EXCEPT ![r] = 0]
        /\ UNCHANGED <<job, cands, task, acts>> /\ mine' = [mine EXCEPT ![r] = NoJob]
        /\ chunk' = [chunk EXCEPT ![r] = NoChunk]
    BY <1>4 DEF Crash, ChangeMode, Goto, Forget, redisVars
  <2> QED
    BY <2>1, ResultsForgotten
<1>5. ASSUME NEW t \in Tasks, MoveTask(t)
      PROVE  ResultsInv'
  <2>1. /\ UNCHANGED <<job, cands, tok, pc, mine, chunk, acts>> /\ task[t] = "in"
        /\ \E s \in {"out", "gone"} : task' = [task EXCEPT ![t] = s]
    BY <1>5 DEF MoveTask, redisVars, runnerVars
  <2>2. \A u \in acts : task'[u] # "in"
    BY <1>1, <2>1, ListTypes, ResultTypes DEF Tasks
  <2> QED
    BY <2>1, <2>2, ResultsStay
<1>6. CASE \/ \E r \in Runners : Stop(r) \/ Stopped(r) \/ Start(r)
           \/ ExpireAbandoned \/ ExpireStalled
           \/ UNCHANGED vars
  <2>1. UNCHANGED <<job, cands, tok, pc, mine, chunk, acts, task>>
    BY <1>6 DEF Stop, Stopped, Start, ChangeMode, ExpireAbandoned, ExpireStalled, Expire, vars,
                redisVars, runnerVars
  <2> QED
    BY <1>1, <2>1, ResultsStay
<1> QED
  BY <1>2, <1>3, <1>4, <1>5, <1>6 DEF Next

LEMMA ResultsInit == Init => ResultsInv
<1> SUFFICES ASSUME Init PROVE ResultsInv
  OBVIOUS
<1>1. PICK v \in Verbs : job = NewJob(v)
  BY DEF Init
<1>2. Cardinality(acts) = 0 /\ Len(cands) = 0 /\ acts = {}
  BY FS_EmptySet DEF Init
<1>3. /\ job.acted = 0 /\ job.skipped = 0 /\ job.failed = 0 /\ job.act_cursor = 0
      /\ job.state = "previewing"
  BY <1>1 DEF NewJob
<1>4. ASSUME NEW r \in Runners
      PROVE  /\ mine[r].acted = 0 /\ mine[r].skipped = 0 /\ mine[r].failed = 0
             /\ mine[r].act_cursor = 0 /\ pc[r] = "idle"
  BY DEF Init, NoJob, NewJob
<1>5. Honest(job) /\ \A r \in Runners : Honest(mine[r])
  BY <1>2, <1>3, <1>4 DEF Honest, Sum
<1> QED
  BY <1>2, <1>3, <1>4, <1>5 DEF ResultsInv, DoneIsComplete, BatchAddsUp, Tracks, Own, Works

\* However batches are cut short, taken over or counted twice, and whatever the answers that are
\* lost: the results of a job account for every candidate that its cursor has passed, no act
\* is made up, and a job that is done went through its whole list.
THEOREM ResultsAreOfTheList == UnderCap /\ Spec => []ResultsAreHonest
<1>1. JobInv /\ ResultsInv => ResultsAreHonest
  BY ListTypes DEF ResultsInv, Honest, Sum, DoneIsComplete, ResultsAreHonest
<1> QED
  BY <1>1, JobInvariant, ListInit, ListStep, ResultsInit, ResultsStep, PTL DEF Spec
===============================================================================
