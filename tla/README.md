# A verification development for asynqmon

asynqmon is a console for Asynq queues. On the server, several parts keep state
of their own in Redis and run in every replica at once: three singleton
background engines that share one lease protocol, and bulk jobs that replicas
claim, work and hand over. What goes wrong there goes wrong between two Redis
calls of two processes. In the browser, most of the program is a client that
polls, listens and acts while its answers come late, out of order or not at all,
and while its user goes on. What goes wrong there goes wrong between a request
and its answer. The modules below are about both.

Contents: 1 inventory, 2 the modules, 3 how state and actions correspond to the
code, 4 the runs, 5 bounds, 6 fairness, 7 proofs, 8 what the violations mean,
9 what is not modelled, 10 plan.

## 1. Inventory

| component | state | operations | what is hard | what makes it correct |
|---|---|---|---|---|
| lease and fence (`internal/leasefence`) | per role a lock key with a TTL and a fence key `seconds:sequence` | acquire, renew, release, `Exec` (fenced chunks), `StandDown` | pauses longer than the TTL, data loss in Redis, clock jumps, batches of several chunks | only the last owner writes; tokens grow |
| engines: `stats`, `errsig`, `hygiene` | atomics `holding`, `token`; started flag | lease loop, work loop, Start, Stop | the two loops race, a refused batch, failed calls, crashes | no unfenced write by a holder, a refused claim is dropped, the role is taken over |
| bulk jobs (`jobs`, `jobs_handlers.go`) | job hash, candidate list, lease; the runner's snapshot | create, execute, cancel, pause, resume; claim, enumerate, execute, finalize | handlers race runners and each other, hand-over in the middle of a page or a batch, lost answers | the execute gate, one writer, an exact preview, honest results, terminal states are final, a claimable job settles |
| sweep and governor (`stats/rotation.go`, `cache.go`, `series.go`, `attention.go`) | cached snapshots, rotation cursor, ring buffers, attention hysteresis | sweep, plan, flush, read | the cursor indexes a list that changes, slots overwritten around a restart | every queue is refreshed within a rotation; a slot is never read as another period's |
| signature index (`errsig`) | signature hashes, tail cursors, rotation marks | tail sweep, retry sample, merge, cap | a batch split between merge and cursor, entries that arrive late in a second | each archived entry is counted once |
| hygiene reports | latest and history per kind, configs, last generated | scheduled pass, run now, webhook | the due check precedes the lock | one report per interval, Run-now never overwritten by an older one |
| SSE broker (`fleet_events_handlers.go`) | subscribers, last payload, cached active jobs | subscribe, publish, relay, reconcile | events skipped or folded in late | a tab learns the end of a job whatever the broker believes |
| saved views (`views.go`) | view hashes, index | create, update with version, delete, seed | check-then-write against compare-and-set | no lost update, the cap and unique names |
| `safego`, `loglimit` | restart timers, per-key counts | Run, GoLoop, Observe | panics, bursts | a loop restarts until its context ends; a recovery is reported once |
| AQL, searches, coverage, enqueue, metrics, observed workers | none of their own (a scan gate, a sample pipeline) | parse, plan, evaluate, list | data, not control | evaluation follows the definition |
| UI: queue workspace (`TasksView.tsx`, the task tables, `tasksActions.ts`, the reducers, `api.ts`) | the redux slices `tasks`, `queues`, `groups`; counts; page, selection, group of the table | poll, list, open a queue or tab, page, select, 45 thunks that act on a row, a selection or a whole list | late and overtaken answers, slices shared between queues, batches that fail in part, time-outs | no row of another queue, no older listing, one batch at a time, only rows that were acted on leave |
| UI: job feed (`useJobsEvents.ts`, `useJobProgress.ts`) | one EventSource per tab, its consumers, timers and store; the tracker's job and notice | attach, detach, reconnect, watchdog, frames, polls | half-open streams, lost frames, a poll and a frame that cross | one stream, the end of a job is shown, once and for good |
| UI: Tasks console and drawer (`TasksGlobalView.tsx`, `TaskDrawer.tsx`, `useFrozenData.ts`, `frozen.ts`, `urlstate.ts`) | query and peek in the URL, rows, windows, scan job, freeze, selection; the task read | type, compose, navigate, search, Continue, scan as a job, hold, select, verbs, walk the drawer | a query that changes under searches, rows held while they change | rows answer the query, held rows stay, verbs hit what is seen |
| UI: bulk dialog (`BulkJobModal.tsx`, `lib/bulkjob.ts`) | the job it created, the confirmation | open, confirm, execute, close | streaming count, time-outs, close in flight | what runs was confirmed, once; no stray preview |
| UI: the rest | settings, fleet stream, palettes, charts | rendering | | |

How they interact. The binary starts the three engines and the job runner
(`handler.go`); each engine owns a role of the lease protocol and writes what
the HTTP handlers later read. Handlers write jobs, views and configs straight to
Redis and never call the runner: jobs reach a runner by polling. The job store
publishes every transition on a channel that the broker of each replica relays.
A tab holds one stream to one replica, shared by its job trackers, and asks for
everything else by HTTP; its parts meet in the URL and in the redux store. The
dialog and the scan jobs of the console create the jobs the runners work.

`PROJECT.json` lists every component with its files, including those that are
not modelled, and under `hazards` what is hard to test in this code, each at its
line.

## 2. The modules

| module | models | lines of code |
|---|---|---|
| `SingleWriter` | the abstract promise: claims are numbered, a write belongs to the last claim | |
| `LeaseFence` | the two keys, the four scripts, the most general client, what Redis itself may do | `internal/leasefence/leasefence.go` |
| `LeasedEngine` (extends `LeaseFence`) | one engine process: lease loop, work loop, Start, Stop, crash | `stats/engine.go`, `errsig/indexer.go`, `hygiene/engine.go`, `StandDown` |
| `BulkJob` | one job: handlers, runners, lease, list, tasks | `jobs/store.go`, `jobs/runner.go`, `jobs/job.go`, `jobs_handlers.go` |
| `LeaseFence_proofs`, `LeasedEngine_proofs` | theorems about `LeaseFence` and `LeasedEngine` | |
| `BulkJob_proofs`, `BulkJobWork_proofs` (extends it) | theorems about `BulkJob`: its types, lease and writer; its gate, preview and results | |
| `TaskReducers` | the actions of the workspace's thunks, what their answers carry, the reducers of the three slices: operators from a slice and an action to a slice | `tasksActions.ts`, `api.ts`, `tasksReducer.ts`, `queuesReducer.ts`, `groupsReducer.ts` |
| `QueueWorkspace` (extends `TaskReducers`) | a user, a store, requests in flight and a queue that moves on | `TasksView.tsx`, `TasksTable.tsx` and the table of each list, `hooks/index.tsx`, `groupsActions.ts` |
| `JobFeed` | one job from Redis to a tab: publish, broker, stream, tracker | `jobs/events.go`, `fleet_events_handlers.go`, `useJobsEvents.ts`, `useJobProgress.ts` |
| `TaskConsole` | the console: query, searches, windows, freeze, selection, verbs | `TasksGlobalView.tsx`, `useFrozenData.ts`, `lib/frozen.ts`, `lib/urlstate.ts` |
| `TaskDrawer` (extends `TaskConsole`) | the drawer over the console: whose detail is read and acted on | `TaskDrawer.tsx` |
| `BulkJobModal` | the dialog of a bulk action, twice opened | `BulkJobModal.tsx`, `lib/bulkjob.ts` |
| `QueueWorkspace_proofs`, `JobFeed_proofs`, `TaskDrawer_proofs`, `BulkJobModal_proofs` | theorems about the modules of the same name; those of `TaskDrawer` are about the console, too | |
| `MC...` | instances for TLC: sets of model values, small functions, symmetry | |

`LeasedEngine` is shown to implement `LeaseFence` (the theorem
`EngineObeysFence`) and, while Redis loses nothing, `SingleWriter` (`RoleSpec`).
Both are about fenced writes: a batch under token 0 changes none of the role's
keys, and has a property of its own (`UnfencedOnlyAfterLapse`). `BulkJob` implements
`SingleWriter` too (`JobRoleSpec`), with the job's `fence` field as the epoch.
So one page says what both protocols are for.

The definitions whose comment starts with "Mutant" are plausible bugs, kept
beside the definition they break; nothing uses them but the check that each
property can fail.

## 3. State, actions and the code

**LeaseFence.** `lock` and `fence` are the two keys; Redis runs a Lua script
atomically, so a script is a step. The TTL is not a clock: a process may be
paused for any time, so `Expire` may happen whenever the lock is held, and
`Renew` has only its answer. `now` is the clock of Redis (`TIME`), which `Tick`
sets forward or back. `Replicate` copies the data to what survives a failover,
`Failover` brings that copy back: the "data loss" of the package comment.
`grants`, `claim` and `applied` are history: every claim ever made, which of
them minted the present fence, and under which the last chunk was applied.
Tokens are records; `Encode` and `Parses` are the int64 encoding and the range
check of `ParseToken`. The client may present any token it was ever granted.

**LeasedEngine.** `holding` and `token` are the two atomics. Every load, every
store and every script call is a step of its own, in the order of `leaseTick`,
`sweep`, `SweepTailNow`, `SampleRetryNow` and `SchedulePass`; a token is
represented by the number of the claim that minted it, and compared by value
(`SameToken`). The constant `Engines` says which of the three the role may be.
They differ in how a tick goes on: the indexer loads the token again for its
second feeder (`PerFeeder`) whether or not the first was refused, and runs that
feeder only when `SampleInterval` has passed since its last run, which may or may
not be now; the sweeper
and the scheduler load it once, and stop at a refusal; only the sweeper flushes
on Stop. `CallFails` is a call that answers with an error, because of a fault or
because Stop canceled its context; a failed write may have been applied. Two
simplifications: an auxiliary batch of the sweep that is refused stands the
replica down at the end of the tick, after the remaining batch was refused too,
and not between the two; and `enforceCap` of the indexer counts as a chunk of
its feeder. A Stop that flushes under token 0 writes nothing the role's keys
show, and is the return of Stop. `lapsed` is history: the flag went down since
the running tick found it set. `engine.go:441-446` lets a Start go on while a Stop
waits; only `New` starts an engine and only `Close` stops it, so no such Start is
modelled.

**BulkJob.** `job` is the hash with the fields the control flow reads, `cands`
the candidate list, `lease` the claim key. A handler is two steps, the read with
its gate (`AskExecute`, `AskCancel`, `AskPause`, `AskResume`) and the write, with
`casState` where the code uses it. A runner goes through `claimTick`, `work`,
`enumerate` and `execute` by its `pc`; `mine` is its snapshot of the job, which
it re-reads where the code does (`Load`, `CheckCtl`) and otherwise keeps, stale
as it may be. `Progress` is `WriteProgress` with its three outcomes: applied,
refused, and an error that may hide an applied write. A page of the model holds
one candidate; page 0 stands for the frozen list of queues. A task is in the
scope, out of it (in another state) or gone; `Applied` is what Asynq answers to
a verb, and `ReadBatch` freezes what the re-fetch saw until the batch acts on
it, as the code does; the workers of a batch act on its tasks in no order the
properties can tell apart, so the model takes the least first. "archive" stands for the verbs that move a task (run is
alike), "delete" and "count" for themselves. The audit stream, to which the
runner appends after a terminal write and which nothing reads back, is left out;
so are the sample and failure lists.

**TaskReducers and QueueWorkspace.** A slice is a record per list, as
`TasksState` has it; rows are a function from the tasks shown to their two
flags. An action is a message with its verb, scope and phase; `Thunks` says which
combinations exist, `CarriedBy` what an answer brings (ids, a number, nothing),
and `WorkspaceTypeOK` checks that nothing else is ever dispatched. The reducers
that differ only in their list share an operator (`ReduceRemoving`), and those
that do not are separate: an active task is not removed by a cancel, and an
aggregating slice ignores what concerns another group. In `QueueWorkspace` a
request is a record that waits in `net` (`Handle` lets the server carry it out,
`Deliver` brings its answer in any order, `Fail` is an error or axios giving up,
after which a mutation may still be carried out). `Render` is what a React commit
does after any change: clamp the page, start a table with a new key over, drop
the selection, fetch. `Supersede` is the sequence number of the list thunks. The
workers move tasks by `Progress`. `shownAt` and `acted` are history. A behaviour
begins in one of `Scenarios`: the address the user comes in by, where the tasks are
by then, and how many steps elsewhere (`visits`: a queue, a tab, a page, a group),
verbs (`acts`) and changes by workers may follow.

**JobFeed.** `job` is the job in Redis with a version, `bus` what was published
and not relayed yet (a set: events may be reordered), `cache` and `fresh` the
broker's active set and its reconcile window. `link` and `chan` are the
connection; `streams`, `refs`, `timer` and `snapshot` the module-level variables
of `useJobsEvents.ts`. `orphans` counts reconnect timeouts whose variable was
overwritten: setting `reconnectTimer` to null does not clear the timeout. The
tracker's effect is `Effect`: it starts over, with a GET at once, when one of its
dependencies changes. Other jobs are frames that say nothing of this one; there is
no bound on them, and each puts the clocks of the stream back.

**TaskConsole and TaskDrawer.** A filter stands for a whole query string; a row
is a task with the filter it was searched under, so that a row of an old query
can be told apart. `Requery` is a change of query with every effect it triggers,
in the order of the source; `frz` is the frozen-rows hook, with the flag of
`applyNextChange`. A request made by a verb, by Continue or by "scan as a job"
carries the query of the render it was made in. `dialog` is the confirmation that is
open: of a verb on the selection, which is read when the user confirms, or of the
delete of a row, which the page keeps from the click to the confirmation
(`confirmDelete`) while polls, Back and Forward go on; its `astray` records that the
query changed meanwhile. `Deletable` are the queries whose state has a delete
endpoint. `crossed` records that such a
request was in flight when the query changed (see section 8). The drawer adds
what it read (`info`), the confirmation and its calls, and closes or starts over
with the peek parameter. What lies over what (dialog, backdrop, table) decides
which gestures are possible (`Uncovered`).

**BulkJobModal.** An opening is a new instance of the component; a request knows
the instance it was sent from, and its answer finds the instance `Mounted` or
not. The server is reduced to what `BulkJob` promises the dialog: a count that
grows until it is complete, a gate checked again, a cancel. `ExecuteTimedOut` is
axios giving up, after which the execute may still be accepted.

## 4. The runs

| run | question | result |
|---|---|---|
| `fence` | three processes, clock, failovers, an old fence key | `LockMatchesFence`, `TokensGrow`, `ExecByLastOwner` hold |
| `engine` | sweeper and indexer on two replicas, every interleaving, one failed call of the sweeper | the atomics agree (`TokenlessHolderWasRefused`), a refused claim is dropped, an unfenced batch needs a lapse or a refusal, refinement of `SingleWriter` |
| `engine_takeover` | is a role taken over? | `RoleIsTakenOver` holds under the fairness of section 6 |
| `job_control` | every pair of requests against two runners and a fault | the lease and the token agree, the preview list is exact, a batch starts owned and let through, only a resume revives an ended job, progress has a single writer |
| `job_execute` | batches cut short, handed over, redone, while others move tasks | `ResultsAreHonest` holds |
| `job_settles` | does a claimable job come to rest? | `JobSettles` holds under fairness |
| `workspace` | two queues and seven ways to use them, under late, overtaken, failed and partial answers | no row of another queue stays (`QuietTableIsOfTheQueue`), listings never go back, one batch in flight over navigation and time-outs, rows leave only when acted on, a size is the sum of its lists |
| `job_feed` | one job through broker, stream and polls | one stream per tab, the poll stands down only for a stream that is there, the end is noticed once, stays, and (under fairness, once other jobs fall silent) is shown |
| `console` | console and drawer together | rows answer the query, paused rows are announced and hold still, verbs act on the rows that were chosen, the drawer on the task it shows |
| `bulk_modal` | two openings of the dialog | what runs was confirmed for what it is, one execute at a time, no stray preview |
| `resume_resurrects`, `view_change_paused` | a statement of a comment of the code | violated; see section 8 |

`CHECK_DEADLOCK FALSE` (except `workspace`, whose polls never end): the bounds on
claims, requests, gestures and faults end a behaviour, and a job that ended is at
rest.

## 5. Bounds, and why they are enough

The bounds are the smallest that let the case of each property happen; what they
leave out is, for the safety properties, covered by the theorems of section 7.

- `fence`: 3 instances (an owner, its successor and one more), 3 claims, 2
  losses (one can bring a token back, a second can lose what followed), clock
  0..1 in both directions, an encoding base of 5 with a legacy sequence of 3, so
  that the range check of `ParseToken` is met.
- `engine`: 2 replicas, 2 claims (one after the other, or one replica twice),
  two chunks per batch or two feeders per tick; outside a Stop, which fails what
  is under way, one call of the sweeper may fail and none of the indexer
  (`FaultsOf`; the two meet errors alike, and the proofs have no such bound);
  `MaxSec = 0` and no loss, as those only matter to the scripts, which `fence`
  and the proofs cover for every interleaving of calls.
- `engine_takeover`: the scheduler with one batch of one chunk (enough to be
  refused), one failed call, no symmetry (a liveness property). The role is taken
  over once; when the claims are used up nothing can be taken over any more, and
  the property says so.
- `job_control`: 2 runners, 2 requests in progress out of 3, a scope of one page
  (handed over before it, in the middle of it and after it), batch 1, 2 claims,
  1 fault (a lost lease, a crash, a Stop or a failed call), a verb that moves
  tasks and the one that counts. `job_execute` deletes two tasks in one batch,
  one of which may be moved by others, with two faults. `job_settles` has one
  handler and 2 requests, a scope of 1 or 2 pages with a cap of 1, so that a
  preview may go over it, and no symmetry. `resume_resurrects` has two handlers,
  as the race is theirs.
- `MaxCandidates` is out of reach in `job_control` and `job_execute`.
- `workspace`: two queues, three tasks of two groups in one of them and none in the
  other, pages of two rows (so that a page can become too far and a batch can fail in
  part), the tabs retry, completed and aggregating (the plain shape, the one whose
  tasks have ended and the one with groups; the reducers of the others are instances
  of the first, the active list excepted, whose rows stay). Everything at once is out
  of reach, so each of the seven `MCScenarios` gives the user and the workers what
  one question needs: a batch, another queue and a second batch; leaving a queue for
  good or coming back to it with a batch in flight; two verbs on two rows; a verb and
  a worker that takes one of its tasks first; two pages and a worker; completed
  tasks; two groups. Three requests are in flight at most. A navigation sends two, so
  one of the queue that was left may still be on its way, and a poll adds one only
  when nothing is in flight (`MaxPolled`), which leaves room for the rest. A request
  the tab no longer waits for counts as well. TLC reaches what the properties are
  about: a late answer of the queue that was left, two batches of two queues in
  flight, a batch that fails in part, a batch of two completed tasks.
- `job_feed`: one write to the job (its end), two mounts (the tracker twice, or
  the tracker and a consumer that keeps the stream alive), one frame on the way,
  one GET in flight. Events of other jobs have no bound: they add nothing to the
  state but a frame on the way.
- `console`, `view_change_paused`: one query answered by a scan and one by a
  cursor, both of states that can be deleted from, two windows of one row each, two tasks, two gestures (three for the
  violation), one change on the server, two requests in flight. A wrong row needs
  two queries, a search and the change of query: two gestures at most.
- `bulk_modal`: a delete and another verb, two openings, a preview of at most one
  task and a threshold of zero, so that a phrase is asked for a count and not
  for an empty preview; a dialog sends no execute while two requests are in
  flight.

## 6. Fairness

- Both loops of a live engine run: they wait on tickers and on nothing else
  (`WF` of `LeaseLoop` and of `WorkLoop`, per instance), and Stop returns.
- Redis expires a lease that no running holder renews (`ExpireAbandoned`). The
  expiry of a lease that *is* renewed stays possible and is never assumed.
- The claim loop ticks and work in flight goes on (`WF` of `Runner`), and
  `Stopped`, the return of Stop.
- `JobFeed`: the tab's own timers fire (watchdog, quiet and poll timers) and it
  takes the frames that arrived (`WF`); of the GETs it sends, again and again,
  some are served and some answered (`SF` of `Asked` and `Answered`). The quiet that
  the slow reconcile waits for is measured from the last frame of *any* job
  (`useJobsEvents.ts:96`, `useJobProgress.ts:135-137`), so its clock is assumed to
  run out only if frames stop coming (`WF` of `GrowQuiet`, or frames again and
  again). That other jobs do fall silent is not fairness but the premise of
  `EndIsShown` (`OthersFallSilent`); without it the property is false (section 8).
  Nothing else is assumed of the publisher, the broker, the connection, or a
  reconnect.
- Not assumed: that a process starts, that an operator asks, that a handler
  gets to its write, that a call succeeds eventually (failures are bounded).

## 7. Proofs

`LeaseFence_proofs` proves, for every set of instances, every encoding base and
every bound, from `RoleAssumption` alone:

- `TypeCorrect`: `FenceTypeOK` is inductive as it stands.
- `LockFollowsFence`: `LockMatchesFence`, inductive together with the types. It
  speaks of the replica too: after a failover the lock and the fence of the copy
  are the data, so the copy has to satisfy it before.
- `OnlyLastOwnerExecutes`: a chunk is let through when the lock belongs to the
  instance of its claim, and by `LockMatchesFence` that is the instance of the
  last remembered claim. No assumption on losses or on the clock: the check of
  the lock, and not the seconds of the token, carries the argument.
- `LaterClaimsHaveLargerTokens`: `TokensGrow`. It is not inductive: growth needs
  that the fence still holds the token of the last claim. The strengthening is
  `Durable` (`losses = 0 => Remembered`): the last claim minted the fence, and
  from claim to claim the sequence grows and the seconds never fall.
  `EncodeGrows` turns this order into the order of the int64 values; because
  both parts grow, it does not need the range check of `ParseToken`.
- `ImplementsSingleWriter`: with `MaxLosses = 0` the role implements
  `SingleWriter`; a claim maps to `Claim`, an applied chunk to `Write`, all else
  to a stutter.

`LeasedEngine_proofs` proves, for any number of replicas, batches, chunks, claims
and failed calls, from `RoleAssumption` and `EngineAssumption`:

- `EngineTypeCorrect`: the types, from `EngineInv`. That invariant adds
  `Presentable` to the types: a claim number an engine keeps (the answer it just
  got, its token, the token of the running batch) is a claim that was granted
  and whose token Go could parse. It is needed because `Exec` of `LeaseFence` may
  only present such a token.
- `UnfencedBatchesLapsed`: `UnfencedOnlyAfterLapse`, with `MaxLosses = 0`. A work
  loop writes without a fence only in a tick that lost the flag after it found it
  set, or under a claim that was refused. The strengthening is `Watched`: a tick that
  has not lapsed and goes to load a token finds the flag still set, and by `Recorded`
  (below) a set flag comes with a token or with a refused claim.
- `EngineObeysFence`, a lemma: each step of an engine is a step of `LeaseFence` or
  leaves its variables alone. It does not see a batch under token 0, which is one of
  those that leave them alone; that is what the theorem before is for. From it
  follow, by the theorems above, `EngineWritesAsLastOwner` (`ExecByLastOwner` of the engines) and, with
  `MaxLosses = 0`, `EngineImplementsSingleWriter` (`RoleSpec`).
- `RefusedClaimsAreDropped`: `RefusedClaimIsDropped`, also when Redis loses
  writes. The strengthening is `RefusedIsLeaving`: the token is a refused claim
  only between the refusal and StandDown, and a claim just won was neither used
  nor refused.
- `TokenlessHoldersWereRefused`: `TokenlessHolderWasRefused`, with
  `MaxLosses = 0`. The strengthening is `Recorded` (what `leaseTick` recorded is
  the claim it won, or StandDown took it back), together with `Remembered`: only
  when a token tells its claim does StandDown's comparison by value spare
  exactly the claims that were not refused.

`BulkJob_proofs` and `BulkJobWork_proofs` prove, for any number of replicas,
handlers, requests, pages, faults and any batch size, from `JobAssumption`:

- `JobTypeCorrect`: `JobTypeOK`, from `TypeInv`, which adds that a runner about to
  read a page holds a cursor inside the scope (`PagesAreOfTheScope`). Without it
  the page after the last one cannot be excluded.
- `LeaseIsOfLastClaimer`: `LeaseCarriesFence`. `LeaseInv` adds `TokensAreOfClaims`:
  a runner works on the job exactly while it has a token, and no two runners have
  the same one, so the release of one runner never meets the lease of another.
- `JobIsSingleWriter`: `JobRoleSpec`. A claim maps to `Claim`, a fenced write
  under the current token to `Write`, and every other step to a stutter.
- `BatchesAreOfTheOwner`: `BatchStartsOwned`. The strengthening is `GateInv`:
  `OwnerIsInStep` reads off the place of the *current owner* what holds of the job
  (it lists a preview that is not complete, it acts for a complete one in the phase
  execute, it works on a state a runner may claim), and `CountIsNeverExecuted` that
  a count passes no gate while an execute is pending. Of a superseded runner nothing
  of the kind holds.
- `EndedJobsStayUnlessResumed`: `OnlyResumeRevives`, from the same invariant: a
  runner that holds the fence never writes a state over a terminal one.
- `ListFollowsCursor`: `CandidatesFollowCursor`, under `UnderCap`, that the scope
  fits under the cap of candidates. Over the cap the job fails and
  `DropCandidates`, which is not fenced, empties the list while a count stays:
  the property is about the lists the code keeps. `ListInv` adds that the snapshot of
  the owner is up to date while it lists (`OwnerIsUpToDate`) and that below the cap
  nobody is on the way to drop the list (`NothingIsDropped`).
- `ResultsAreOfTheList`: `ResultsAreHonest`, under `UnderCap`. `ResultsInv` says
  that the counts are honest in every snapshot too, that with a batch in hand the
  counts and the tasks left reach the end of the batch (`BatchAddsUp`), and that the
  owner's position is the job's (`Tracks`); a batch that is redone counts its tasks
  a second time and never makes up an act.

`BulkJobModal_proofs`, from the module's assumption, proves `ModalTypeCorrect`,
`RunsAsConfirmed` (`ExecutedAsConfirmed`), `DialogHandsOverOnce` and
`PreviewsAreCancelled` (`NoStrayPreview`), for any threshold, count, number of
openings and requests in flight. They hold each other up: `ModalInv` is their
conjunction with four more. `WaitsForOne` says of every opening at once what
`DialogHandsOverOnce` says of one; `ShowsItsJob` and `AnswersAreItsOwn` that an
opening and the answers on their way to it know no other job, and
`RequestsAreConfirmed` that an execute in flight was confirmed for the count its
job has by then, because it was sent when the preview was complete, or
acknowledged as partial for a verb that is no delete.

`JobFeed_proofs` proves, from `FeedAssumption`, `FeedTypeCorrect`,
`TabHoldsOneStream` (`OneStreamPerTab`), `PollStandsDown` (`StandsDownForAStream`),
`EndIsToldOnce` (`SettledOnce`) and `EndIsNotTakenBack` (`EndStays`), for any number
of writes, mounts, frames and reconnect timers that leaked. `FeedInv` is needed
because each speaks of both ends: that the version on a frame, in the cache or in
a snapshot is one the job had and nobody says it ended before it did (`ServerInv`, `ChanInv`), that a stream is
there exactly while its connection is, a timer only without a stream, and that each
timer that leaked cost a mount (`StreamInv`), and what was noticed and
shown of the job (`ShownInv`, `TrackerInv`). `EndIsToldOnce` is stated where
"settled" means ended, the default of `useJobProgress`; another predicate of a
caller may be satisfied by a state that is left again.

`TaskDrawer_proofs` proves, from `ConsoleAssumption`, the six properties of the run
`console` for the console with its drawer (`DrawerSpec`): `ConsoleTypeCorrect`,
`RowsAreOfTheQuery` (`RowsAnswerTheQuery`), `BuffersAreAnnounced`
(`PausedIsAnnounced`), `RowsStayUnderThePointer` (`RowsHoldStill`),
`VerbsActOnWhatWasChosen` (`VerbsActOnChosen`) and `DrawerActsOnItsTask`
(`DrawerActsOnPeeked`). The inductive invariant is `DrawerInv`. Its parts are
`Sources` (each of the three sources of rows is of one query, and a Continue is
answered once per query, which is why a task is never listed twice), `Answering`
(until a request crosses a change of query, everything listed, buffered or still to
be answered is of the query, where of the searches only the current one counts:
this is what `useLatestOnly` is for), `Held` (the freeze is that of the gestures, and
a buffer is announced), `Choice` (the row a delete dialog keeps is of the query that
is open unless the dialog went astray) and the types of the drawer's calls. The lemmas `HoldFacts`
and `ArriveFacts` say what `setFrozen` and `arrive` do to any frozen-rows record;
`Assembled` splits a step that keeps the query into what it lists, asks and shows.

`QueueWorkspace_proofs` proves, from `WorkspaceAssumption`, the six properties of
the run `workspace`, for any number of queues, tasks, groups, requests in flight
and moves of the user, and any page size: `WorkspaceTypes` (`WorkspaceTypeOK`),
`QuietTable` (`QuietTableIsOfTheQueue`), `OneBatch` (`OneBatchInFlight`),
`NeverGoesBack` (`ShownNeverGoesBack`), `OnlyActedOnLeave` (`RemovedWasActedOn`)
and `SizesAreSums` (`SizeIsSumOfLists`). The inductive invariant `WorkspaceInv`
relates the store to the requests that may still change it:

- `RequestsAreSound`: a listing carries rows of the queue and the group it asked
  for; an act was offered by its table, and its answer names tasks the server acted
  on. `RemovedWasActedOn` follows, because a reducer takes off the screen only what
  the answer names.
- `ListsInTurn`: of the listings of a list in flight one counts, the newest; it is of
  the group the slice waits for and not older than what the slice shows. This is
  the sequence number of the thunks: without it an overtaken answer could not be
  told from the newest one.
- `BatchesInTurn`: a list has one batch that is awaited, and while it has one its flag
  is up.
- `TableIsOf`: the table on screen waits for a listing of its queue and group, or shows
  one. It holds after every commit because `Render` fetches whenever the key of the
  table changes, which `QuietTableIsOfTheQueue` alone does not say.

The lemmas follow the code: what each reducer does to a slice (`ListFacts`,
`BatchFacts`, `ActiveFacts`, `AggregatingFacts`), what a thunk dispatches (`ActMsg`),
what a commit fetches (`RenderFacts`), and one lemma per action. `SizesAreSums`
has a hypothesis, `BulkTables`: every table but the aggregating one leaves whole
lists to the bulk jobs, as `TasksView.tsx:402-450` has it. Its invariant
`SizesAddUp` is that the statistics still on their way add up, too. The sum over
the lists is a fold of the library; there are six of them, so the proof evaluates
it one element at a time and needs no induction over data.

What the proofs found in the models. Trying to prove an invariant inductive showed
two places where a model was looser than the code, and one where a property said
too much. A preview of a job with no page to list went on to a page outside its
scope (`FreezeQueues` now goes to the page the snapshot names, as the code's loop
does). `BatchStartsOwned` claimed that the job is labeled running when a batch is
begun; a resume to previewing, written late over a running job, can relabel it
under the runner, and the property now says so (`Stranded`). And
`CandidatesFollowCursor` needs the cap: the list of a job that failed over it is
dropped without a fence.

Every safety property and every action property of the passing runs is thus a
theorem, some under the hypothesis named above. Model-checked only: liveness under fairness (`RoleIsTakenOver`,
`JobSettles`, `EndIsShown`). Out of the prover's reach, too, are ENABLED and facts
that need an induction over data; the models keep such data opaque.

## 8. Where the code does not do what it says

Two runs end in a violation:

1. `resume_resurrects`. The write of a resume is a plain HSET. The same race,
   with an execute in place of the cancel, can put a complete job back to
   previewing, from where it is claimed and released without progress until an
   operator acts: the exception `Stranded` of `JobSettles`. (It takes three
   requests; the two of that run do not reach it.) `OnlyResumeRevives` says that
   nothing else revives an ended job.
2. `view_change_paused`. A change of query arms the flush flag of
   `useFrozenData`, and the same commit empties the rows (`setTasks([])`,
   `TasksGlobalView.tsx:518`). The empty list is an arrival that changes the
   buffer, so it spends the flag. With the drawer open (Back and Forward, the
   pivot) or the pointer on the table, the rows of the new query arrive paused:
   the table is empty and the pill counts one update. `filterKey` has neither
   page nor cursor, so the next window is paused under the pointer, too.

Further observations, made on the models and in the source. They keep no run of
their own; the properties above exclude them by name where they would be broken.

In the server:

- One tick of the indexer runs two feeders and looks at `holding` before the
  first only (`errsig/indexer.go:423`). If the first is refused, `standDown`
  zeroes the token, and the second captures 0, the "off-lease" value that makes
  `Exec` send a plain pipeline (`errsig/indexer.go:951`: "must fail the fence
  CAS, not silently write unfenced"). The sweep of `stats` has the smaller window
  of the same kind between looking at `holding` and loading the token. How far both
  go is `UnfencedOnlyAfterLapse`: the tick lost the lease after it began, or its claim
  was refused before.
- A replica whose acquire was granted and whose answer was lost has the lock under its
  own ID and `holding` down: a Stop skips the release, and the role is idle until the
  TTL ends, where the comment of `leasefence.go:224` has it handed over at once.
  `RoleIsTakenOver` promises the take-over only in the end.
- StandDown's compare-and-swap protects the token and not the flag stored after
  it (`leasefence.go:475`): a claim made in between loses its flag, and its role
  is idle for a TTL. `TokenlessHolderWasRefused` says how far this goes.
- `completePreviewScript` parks a job whose `ctl` says cancel, and the pause
  write clears `ctl` (`store.go:703`, `runner.go:418`): an accepted cancel waits
  or is lost.
- The cap of a preview is enforced by the process that wrote the page
  (`runner.go:642`): after a crash there, the successor completes the preview.
  `DropCandidates` of a superseded runner is not fenced.
- `isAlreadyInStateErr` knows "already ..." and not "not found": the loser of two
  deletes counts a failure, and not a skip as `runner.go:940` has it.
- A replica whose `leaseTick` stores `holding` after a `StandDown` of the very
  same claim keeps a lease it has no token for, until the renewal fails.
- A cancel that finalizes a dormant job is never audited (`store.go:749`).

In the queue workspace:

- `fetchTasks` and `fetchGroups` return nothing, so the in-flight guard of
  `usePolling` has no effect for them; only `fetchCore` is guarded. `fetchCore` in
  turn does not check that its queue is still open: a slow answer shows the
  counts of the queue the user left, until the next tick.
- Rows of the previous queue stay until the new listing arrives
  (`QuietTableIsOfTheQueue` speaks of a table whose newest listing was answered).
- The aggregating slice ignores the answer to a batch of another group: its flag
  and the rows' flags stay up until a batch of the group shown begins and ends.
- Deleting a whole list zeroes the count shown and subtracts the server's number from
  the size: with a count that was stale they would no longer add up. No table of
  `TasksView` but the aggregating one sends such a request (`BulkTables`).

In the job feed:

- The slow reconcile of a tracker that rides the stream waits for quiet on the whole
  stream, not on the job (`useJobProgress.ts:135-137`, `useJobsEvents.ts:96`). With
  the terminal frame dropped and another job ticking more often than the reconcile
  gap, it never fires, and the tracker shows a running job for as long as that goes
  on, although a dropped frame is what the reconcile is for
  (`useJobProgress.ts:37-41`). `EndIsShown` therefore has the premise
  `OthersFallSilent`; `EndReachesTracker`, the property without it, put in its place
  in `job_feed.cfg`, fails in a cycle of other jobs' frames.
- "Keeps the freshest state" holds of ended jobs only: an older frame of a running job
  replaces a newer one.
- The broker's set is not "exact" while nobody is subscribed.

In the console and the drawer:

- The continuations of `continueScan`, `scanAsJob`, `runAction` and
  `runSelectionVerb` do not look whether the query changed: Continue appends rows
  of the old query, a verb searches for it again and clears the new selection,
  a scan job of the old query takes the new one's place. `crossed` excludes
  exactly these from `RowsAnswerTheQuery` and `VerbsActOnChosen`.
- The confirmation of a row's delete stays open over Back and Forward, and over polls
  that take the row off the screen: a change of query does not clear `confirmDelete`
  (`TasksGlobalView.tsx:517-532`, `1451-1467`). The delete then names the row that was
  chosen and goes to the endpoint of the state the query has *now*, where the server
  finds no such task, or the task in its new state. `astray` excludes this from the
  last part of `VerbsActOnChosen`; without it TLC finds the counterexample: click,
  Back, confirm.
- The filter effect keeps the last answer's cursor: until the new answer, Continue
  resumes the old scan under the new query.
- The Flow tab never loads: its effect sets `flowLoading`, on which it depends, and
  the re-run's cleanup cancels the load (`TaskDrawer.tsx:386-418`).
- Delete's `onClose` closes the drawer on whichever task it is by then, and Run's
  second read, of the task of the click, blanks a drawer that has walked on until
  its next tick. Neither acts on the wrong task (`DrawerActsOnPeeked`).
- A chip that changes the query before the debounce discards typed text.

In the bulk dialog:

- Closing while an execute is in flight, or after the client gave up on it,
  cancels the job it may have started, although "Closing is fine at any point"
  (`BulkJobModal.tsx:214`).
- A dialog closed before its create was answered, or torn down with its view,
  leaves its preview behind (`excused` in `NoStrayPreview`).
- The scope shown is the view's of now, the job's that of the opening; a detail
  read late may overwrite what the feed brought since, until the next frame.

## 9. Not modelled, and why

In the server: `splitWide` and the encoding of script arguments (pure data);
logging and its rate limit; the content of sweeps, signatures and reports; groups
within a queue, AQL matching and throttling of jobs; several jobs and their
slots; the fleet payload of the broker; the HTTP layer; packaging. Pages of a
job's scope are frozen in the model: with offset paging, tasks that leave a
listing during a preview shift later pages, which the code accepts.

In the UI: rendering, wording, toasts and formatting; pausing, resuming and
deleting a queue from its page, the attention tab and the filter of the
workspace; facets, analytics, group modes, page and size of the console, and
its observed history; cloning a task; the fleet stream, which repeats the job
feed's logic with another payload; the views that render what they poll
(operations, fleet, hygiene, schedulers). The merge of `setSearchParams` into the
URL, React's order of effects and axios' time-out are taken as given (external in
`PROJECT.json`, or stated in the modules).

Assumed of what is outside. In `QueueWorkspace` a task ID belongs to one queue
(`Home`), which Asynq does not promise of IDs its users choose: the reducers match
rows by ID alone (`tasksReducer.ts:938-941`), so an answer about a task of another
queue with the same ID would take a row off. That a queue's size counts completed
tasks is read off `conversion_helpers.go:83` ("Total number of tasks in the queue")
and the reducers, which lower it when one is deleted (`queuesReducer.ts:834-849`).
The rows and the statistics of a listing are two calls of the inspector on the server
(`task_handlers.go`) and one step of the model.

Left out of what is modelled: in `BulkJob`, a queue removed during a scan, whose
pages are skipped (`runner.go:569`), and a scope that no longer compiles when its
execution begins (`runner.go:770`); in `LeasedEngine`, a Start while a Stop waits
(`engine.go:441-446`, section 3).

## 10. Plan

1. The signature index on top of `LeaseFence`: each archived entry is counted
   once, over takeovers, refused batches and the cap.
2. The rotation of the sweep: a cold queue is not passed over while the list of
   queues changes between ticks.
3. Saved views (two creates that pass the cap together) and the hygiene schedule
   (a Run-now between the due check and the lock).
4. Several jobs and the slots of a runner.

The number of runs stays small: a violation run gives way when the passing run
of a new component needs its place, and what it showed stays in section 8.
