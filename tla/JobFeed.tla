---- MODULE JobFeed ----
(* What a browser tab knows of one bulk job: the job's events over Redis pub/sub, the SSE     *)
(* broker of one replica (fleet_events_handlers.go), the tab's one shared stream              *)
(* (ui/src/hooks/useJobsEvents.ts) and the tracker that falls back to polling                 *)
(* (ui/src/hooks/useJobProgress.ts). Events are lost, delayed and reordered; a stream is      *)
(* refused, breaks, or dies without a word. External: Redis, EventSource, the timers' clocks. *)
EXTENDS Integers, Sequences, FiniteSets, SequencesExt

CONSTANTS States,          \* "running", and so on: what the tracker tells apart, and "done", the end
          SettledStates,   \* what the tracker of this job calls settled
          NoJob,           \* no observation; also: not in the broker's active set
          NoSnap,          \* the broker has built no snapshot yet
          MaxVersions,     \* bound: writes to the job
          MaxMounts,       \* bound: times a consumer mounts
          MaxChan,         \* bound: frames queued to the tab (16 in the code; a full queue drops)
          MaxGets          \* bound: GETs in flight

isTerminal(s) == s = "done"
ASSUME FeedAssumption ==
  /\ {"running", "done"} \subseteq States /\ "done" \in SettledStates /\ SettledStates \subseteq States
  /\ {MaxVersions, MaxMounts, MaxChan} \subseteq Nat /\ MaxGets \in Nat \ {0}
  /\ NoJob # NoSnap /\ {NoJob, NoSnap} \cap [state : States, v : Nat] = {}

VARIABLES
  job,       \* the job in Redis: its state and how often it was written
  bus,       \* published, not relayed yet
  cache,     \* jobsActive: NoSnap, NoJob or the job as the broker last heard of it
  fresh,     \* the cache was read less than jobsSnapshotReconcile ago
  link,      \* the tab's connection: "none", "joining", "up", "dead" (half-open), "refused"
  chan,      \* frames on their way over it
  refs,      \* consumers of the shared stream
  streams,   \* EventSources the tab holds open
  timer,     \* reconnectTimer is set
  orphans,   \* timers that still run although reconnectTimer was overwritten
  snapshot,  \* the shared store: the job and the source
  quiet,     \* no jobs event for STALE_EVENT_MS
  silent,    \* no frame at all for WATCHDOG_MS
  trk,       \* the tracker: mounted, job, notifyState, effect dependencies, GETs in flight
  fired,     \* history: how often onSettled fired since it mounted
  mounts     \* how often a consumer mounted

server == <<job, bus, cache, fresh>>
stream == <<link, chan, refs, streams, timer, orphans, snapshot, quiet, silent>>
vars == <<server, stream, trk, fired, mounts>>

---------------------------------------------------------------------------------------------
(* The job: a writer stores and publishes (best effort, progress throttled).                  *)
Frame(j) == [kind |-> "jobs", job |-> j]
Write(s) ==
  /\ job.v < MaxVersions /\ ~isTerminal(job.state)
  /\ job' = [state |-> s, v |-> job.v + 1]
  /\ \/ bus' = bus \cup {job'}
     \/ bus' = bus
  /\ UNCHANGED <<cache, fresh, stream, trk, fired, mounts>>
Lost(e) == bus' = bus \ {e} /\ UNCHANGED <<job, cache, fresh, stream, trk, fired, mounts>>

---------------------------------------------------------------------------------------------
(* The broker.                                                                                *)
subscriberCount == IF link \in {"joining", "up", "dead"} THEN 1 ELSE 0
fanOutJobs(f) ==
  IF link # "dead" /\ Len(chan) < MaxChan THEN chan' \in {chan, Append(chan, f)} ELSE chan' = chan
\* Mutant: a job that ended stays in the active set.
applyAnyEvent(e) == cache' = IF cache = NoSnap THEN NoSnap ELSE e
applyJobsEvent(e) ==
  cache' = CASE cache = NoSnap -> NoSnap
             [] cache # NoSnap /\ isTerminal(e.state) -> NoJob
             [] OTHER -> e
Relay(e) ==
  /\ bus' = bus \ {e}
  /\ IF subscriberCount = 0 THEN UNCHANGED <<chan, cache>>
     ELSE fanOutJobs(Frame(e)) /\ applyJobsEvent(e)
  /\ UNCHANGED <<job, fresh, link, refs, streams, timer, orphans, snapshot, quiet, silent,
                 trk, fired, mounts>>
\* An event of another job: it tells the tab nothing about this one, yet it is a frame. There
\* is no end to them: the fleet may always have a job that ticks.
RelayOther ==
  /\ link = "up" /\ Len(chan) < MaxChan
  /\ chan' = Append(chan, Frame(NoJob))
  /\ UNCHANGED <<server, link, refs, streams, timer, orphans, snapshot, quiet, silent,
                 trk, fired, mounts>>
\* On connect: the cached snapshot while it is fresh, or else what Redis says.
cachedJobsSnapshot ==
  \/ /\ cache # NoSnap /\ fresh /\ UNCHANGED <<cache, fresh>>
  \/ /\ ~(cache # NoSnap /\ fresh)
     /\ \/ cache' = (IF isTerminal(job.state) THEN NoJob ELSE job) /\ fresh' = TRUE
        \/ UNCHANGED <<cache, fresh>>     \* the read failed: the previous copy, if any
Join ==
  /\ link = "joining" /\ link' = "up"
  /\ cachedJobsSnapshot
  /\ chan' = IF cache' = NoSnap THEN chan ELSE <<Frame(cache')>> \o chan
  /\ UNCHANGED <<job, bus, refs, streams, timer, orphans, snapshot, quiet, silent,
                 trk, fired, mounts>>
Expire ==
  /\ fresh /\ fresh' = FALSE
  /\ UNCHANGED <<job, bus, cache, stream, trk, fired, mounts>>

---------------------------------------------------------------------------------------------
(* The tracker. `observe` takes a job from either transport.                                  *)
settled(j) == j # NoJob /\ j.state \in SettledStates
\* Mutants: a stale frame is taken; the notification is not marked as sent.
observeLatest(t, j) ==
  [t EXCEPT !.job = j,
            !.notify = CASE @ = "null" -> IF settled(j) THEN "fired" ELSE "pending"
                         [] @ = "pending" /\ settled(j) -> "fired"
                         [] OTHER -> @]
observeUnmarked(t, j) ==
  [t EXCEPT !.job = IF @ # NoJob /\ isTerminal(@.state) /\ ~isTerminal(j.state) THEN @ ELSE j,
            !.notify = IF @ = "null" THEN IF settled(j) THEN "fired" ELSE "pending" ELSE @]
observe(t, j) ==
  [t EXCEPT !.job = IF @ # NoJob /\ isTerminal(@.state) /\ ~isTerminal(j.state) THEN @ ELSE j,
            !.notify = CASE @ = "null" -> IF settled(j) THEN "fired" ELSE "pending"
                         [] @ = "pending" /\ settled(j) -> "fired"
                         [] OTHER -> @]
Fires(t, j) == t.notify = "pending" /\ settled(j)
\* The poll effect starts over, with a GET at once, when what it depends on changes.
Effect(t, s) ==
  LET covering == s.source = "sse" /\ s.job # NoJob
  IN IF t.on /\ (covering # t.covering \/ settled(t.job) # t.settledNow)
       THEN [t EXCEPT !.covering = covering, !.settledNow = settled(t.job), !.gets = <<NoJob>>]
       ELSE t
\* What a render makes of a new snapshot; `heard` says it holds a new object for this job.
Render(s, heard) ==
  /\ snapshot' = s
  /\ trk' = Effect(IF trk.on /\ heard THEN observe(trk, s.job) ELSE trk, s)
  /\ fired' = fired + (IF trk.on /\ heard /\ Fires(trk, s.job) THEN 1 ELSE 0)

---------------------------------------------------------------------------------------------
(* The shared stream.                                                                         *)
INITIAL_SNAPSHOT == [job |-> NoJob, source |-> "poll"]
\* Mutant: an open stream is not looked at.
openStreamAgain(r, pending) ==
  IF r = 0
    THEN orphans' = pending /\ UNCHANGED <<link, chan, streams, timer, silent>>
    ELSE /\ streams' = streams + 1 /\ link' \in {"joining", "refused"} /\ chan' = << >>
         /\ timer' = FALSE /\ orphans' = pending + (IF timer THEN 1 ELSE 0) /\ silent' = FALSE
\* A guard returns early: nobody listens, or a stream is open. Setting reconnectTimer to null
\* does not clear the timeout it named: one that did not call us keeps running.
openStream(r, pending) ==
  IF r = 0 \/ streams > 0
    THEN orphans' = pending /\ UNCHANGED <<link, chan, streams, timer, silent>>
    ELSE /\ streams' = streams + 1 /\ link' \in {"joining", "refused"} /\ chan' = << >>
         /\ timer' = FALSE /\ orphans' = pending + (IF timer THEN 1 ELSE 0) /\ silent' = FALSE
\* A timeout fires: the one reconnectTimer names, which leaves no orphan of itself (the term
\* openStream adds for it cancels out), or an orphan.
Reconnect ==
  /\ timer \/ orphans > 0
  /\ openStream(refs, orphans - 1)
  /\ UNCHANGED <<server, refs, snapshot, quiet, trk, fired, mounts>>

\* Mutant: the stream is closed and its consumers are not told.
DemoteSilently ==
  /\ streams' = 0 /\ link' = "none" /\ chan' = << >> /\ timer' = TRUE
  /\ UNCHANGED <<server, refs, orphans, snapshot, quiet, silent, trk, fired, mounts>>
\* closeStream(true): the consumers are demoted to polling and a reconnect is scheduled.
Demote ==
  /\ streams' = 0 /\ link' = "none" /\ chan' = << >> /\ timer' = TRUE
  /\ Render([snapshot EXCEPT !.source = "poll"], FALSE)
  /\ UNCHANGED <<server, refs, orphans, quiet, silent, mounts>>
onerror       == link \in {"joining", "up", "refused"} /\ streams > 0 /\ Demote
watchdogCheck == streams > 0 /\ silent /\ Demote
onJobs ==
  /\ link = "up" /\ chan # << >> /\ chan' = Tail(chan)
  /\ quiet' = FALSE /\ silent' = FALSE
  /\ LET j == Head(chan).job
         cur == snapshot.job
         taken == j # NoJob /\ ~(cur # NoJob /\ isTerminal(cur.state) /\ ~isTerminal(j.state))
     IN Render([job |-> IF taken THEN j ELSE cur, source |-> "sse"], taken)
  /\ UNCHANGED <<server, link, refs, streams, timer, orphans, mounts>>
\* The stream dies without an error event; only then does the ping stay away.
HalfOpen ==
  /\ link \in {"joining", "up"} /\ link' = "dead" /\ chan' = << >>
  /\ UNCHANGED <<server, refs, streams, timer, orphans, snapshot, quiet, silent,
                 trk, fired, mounts>>
GrowSilent ==
  /\ link = "dead" /\ ~silent /\ silent' = TRUE
  /\ UNCHANGED <<server, link, chan, refs, streams, timer, orphans, snapshot, quiet,
                 trk, fired, mounts>>
GrowQuiet ==
  /\ ~quiet /\ quiet' = TRUE
  /\ UNCHANGED <<server, link, chan, refs, streams, timer, orphans, snapshot, silent,
                 trk, fired, mounts>>

acquire == refs' = refs + 1 /\ openStream(refs + 1, orphans) /\ mounts < MaxMounts
           /\ mounts' = mounts + 1
\* The last consumer tears the stream and the store down.
release ==
  IF refs > 1
    THEN /\ refs' = refs - 1
         /\ UNCHANGED <<link, chan, streams, timer, orphans, snapshot, quiet, silent>>
    ELSE /\ refs' = 0 /\ streams' = 0 /\ link' = "none" /\ chan' = << >> /\ timer' = FALSE
         /\ snapshot' = INITIAL_SNAPSHOT /\ quiet' = TRUE /\ silent' = FALSE /\ UNCHANGED orphans
OpenOps ==
  /\ acquire
  /\ UNCHANGED <<server, snapshot, quiet, trk, fired>>
CloseOps ==
  /\ refs - (IF trk.on THEN 1 ELSE 0) > 0 /\ release
  /\ UNCHANGED <<server, trk, fired, mounts>>

---------------------------------------------------------------------------------------------
(* The tracker mounts, polls and unmounts.                                                    *)
Idle == [on |-> FALSE, job |-> NoJob, notify |-> "null", covering |-> FALSE,
         settledNow |-> FALSE, gets |-> << >>]
Attach ==
  /\ ~trk.on /\ acquire
  /\ LET new == [Idle EXCEPT !.on = TRUE, !.gets = <<NoJob>>]
     IN trk' = Effect(IF snapshot.job = NoJob THEN new ELSE observe(new, snapshot.job), snapshot)
  /\ fired' = 0
  /\ UNCHANGED <<server, snapshot, quiet>>
Detach ==
  /\ trk.on /\ release /\ trk' = Idle /\ fired' = 0
  /\ UNCHANGED <<server, mounts>>
\* Mutant: no reconcile while the stream covers the job.
PollUncovered ==
  /\ trk.on /\ ~trk.settledNow /\ ~trk.covering
  /\ Len(trk.gets) < MaxGets
  /\ trk' = [trk EXCEPT !.gets = Append(@, NoJob)]
  /\ UNCHANGED <<server, stream, fired, mounts>>
\* Every two seconds while the stream does not cover the job; every ten while it does and has
\* been quiet.
Poll ==
  /\ trk.on /\ ~trk.settledNow /\ (trk.covering => quiet)
  /\ Len(trk.gets) < MaxGets
  /\ trk' = [trk EXCEPT !.gets = Append(@, NoJob)]
  /\ UNCHANGED <<server, stream, fired, mounts>>
Serve(i) ==
  /\ trk.gets[i] = NoJob /\ trk' = [trk EXCEPT !.gets[i] = job]
  /\ UNCHANGED <<server, stream, fired, mounts>>
fetchNow(i) ==
  /\ trk.gets[i] # NoJob
  /\ trk' = Effect([observe(trk, trk.gets[i]) EXCEPT !.gets = RemoveAt(@, i)], snapshot)
  /\ fired' = fired + (IF Fires(trk, trk.gets[i]) THEN 1 ELSE 0)
  /\ UNCHANGED <<server, stream, mounts>>
FetchFails(i) ==
  /\ trk' = [trk EXCEPT !.gets = RemoveAt(@, i)]
  /\ UNCHANGED <<server, stream, fired, mounts>>

Init ==
  /\ job = [state |-> "running", v |-> 0] /\ bus = {} /\ cache = NoSnap /\ fresh = FALSE
  /\ link = "none" /\ chan = << >> /\ refs = 0 /\ streams = 0 /\ timer = FALSE /\ orphans = 0
  /\ snapshot = INITIAL_SNAPSHOT /\ quiet = TRUE /\ silent = FALSE
  /\ trk = Idle /\ fired = 0
  /\ mounts = 0

Answered == \E i \in DOMAIN trk.gets : fetchNow(i)
Asked == \E i \in DOMAIN trk.gets : Serve(i)
Next ==
  \/ \E s \in States : Write(s)
  \/ \E e \in bus : Lost(e) \/ Relay(e)
  \/ RelayOther \/ Join \/ Expire
  \/ Reconnect \/ onerror \/ watchdogCheck \/ onJobs \/ HalfOpen \/ GrowSilent \/ GrowQuiet
  \/ OpenOps \/ CloseOps \/ Attach \/ Detach
  \/ Poll \/ Asked \/ Answered \/ \E i \in DOMAIN trk.gets : FetchFails(i)

\* The tab's timers run and it takes the frames it got; GETs are not all lost: now and then one
\* is served, and one answered. The gap that `quiet` stands for is measured from the last frame,
\* of any job: it is reached for certain only if frames stop coming. Nothing else is assumed of
\* the publisher, the broker or the connection.
Fairness ==
  /\ WF_vars(GrowSilent) /\ WF_vars(watchdogCheck) /\ WF_vars(onJobs)
  /\ WF_vars(GrowQuiet) \/ []<><<onJobs>>_vars
  /\ WF_vars(Poll) /\ SF_vars(Asked) /\ SF_vars(Answered)
Spec == Init /\ [][Next]_vars
FairSpec == Spec /\ Fairness

---------------------------------------------------------------------------------------------
Jobs == [state : States, v : 0..MaxVersions]
\* Types; the broker's active set holds jobs that have not ended.
FeedTypeOK ==
  /\ job \in Jobs /\ bus \subseteq Jobs
  /\ cache \in {j \in Jobs : ~isTerminal(j.state)} \cup {NoJob, NoSnap}
  /\ fresh \in BOOLEAN /\ link \in {"none", "joining", "up", "dead", "refused"}
  /\ Len(chan) <= MaxChan + 1 /\ \A i \in DOMAIN chan : chan[i].job \in Jobs \cup {NoJob}
  /\ refs \in 0..MaxMounts /\ streams \in 0..MaxMounts /\ orphans \in 0..MaxMounts
  /\ {timer, quiet, silent} \subseteq BOOLEAN
  /\ snapshot.job \in Jobs \cup {NoJob} /\ snapshot.source \in {"sse", "poll"}
  /\ trk.job \in Jobs \cup {NoJob} /\ Len(trk.gets) <= MaxGets
  /\ trk.notify \in {"null", "pending", "fired"} /\ fired \in Nat

\* One stream per tab, whoever mounts, unmounts, errs or reconnects in whatever order, leaked
\* timeouts included: the consumers share one EventSource, nobody listens to none, and
\* consumers without a stream have a reconnect coming (useJobsEvents.ts:10-16, 99-116).
OneStreamPerTab ==
  /\ streams <= 1
  /\ refs = 0 => streams = 0
  /\ refs > 0 /\ streams = 0 => timer \/ orphans > 0

\* The poll stands down for a stream that is there: a tracker covered by the stream is one of
\* an open stream, and its slow reconcile is the only thing left running (useJobProgress.ts).
StandsDownForAStream == trk.covering => streams = 1 /\ snapshot.source = "sse"

\* onSettled fires at most once per tracker, and only for a job that has really ended, over
\* both transports and any reordering of their answers (useJobProgress.ts:13-15).
SettledOnce == fired > 0 => fired = 1 /\ isTerminal(job.state) /\ trk.notify = "fired"

\* A job shown as ended is never shown as running again while the tracker stays mounted: late
\* frames, stale snapshots and overtaken GETs do not bring it back (useJobProgress.ts:76-86).
EndStays ==
  [][trk.on /\ trk'.on /\ trk.job # NoJob /\ isTerminal(trk.job.state)
     => isTerminal(trk'.job.state)]_vars

\* Other jobs fall silent in the end.
OthersFallSilent == <>[][~RelayOther]_vars
EndReachesTracker ==
  (trk.on /\ isTerminal(job.state)) ~>
    (~trk.on \/ (trk.job # NoJob /\ isTerminal(trk.job.state)))

\* Once other jobs fall silent, the end of a job is shown to a tracker that stays, whatever is
\* lost on the way: a frame that was dropped, a stream that died without a word, a broker that
\* remembers the job as running (useJobProgress.ts:121-139).
\* Without the premise it fails: any job's frame puts the slow reconcile off (136; README, 8).
EndIsShown == OthersFallSilent => EndReachesTracker
====
