---------------------------- MODULE JobFeed_proofs ----------------------------
(***************************************************************************)
(* Proofs about JobFeed, for every number of writes, mounts, frames and    *)
(* GETs: the tab keeps one stream, its tracker stands down for an open one *)
(* only, the end of a job is told once, and is not taken back.             *)
(***************************************************************************)
EXTENDS JobFeed, TLAPS

-----------------------------------------------------------------------------
(* The invariant *)

\* What may be said of the job anywhere: that it ended, only once it did.
Known == {j \in Jobs : isTerminal(j.state) => isTerminal(job.state)}
Heard == Known \cup {NoJob}
Frames == [kind : {"jobs"}, job : Heard]
Snapshots == [job : Heard, source : {"sse", "poll"}]
Trackers ==
    [on : BOOLEAN, job : Heard, notify : {"null", "pending", "fired"}, covering : BOOLEAN,
     settledNow : BOOLEAN, gets : Seq(Heard)]

ServerInv ==
    /\ job \in Jobs /\ bus \subseteq Known /\ fresh \in BOOLEAN
    /\ cache \in {j \in Known : ~isTerminal(j.state)} \cup {NoJob, NoSnap}

ChanInv ==
    /\ chan \in Seq(Frames) /\ Len(chan) <= MaxChan + 1
    /\ link = "joining" => Len(chan) <= MaxChan

\* A stream is there exactly while the link is; a timer waits only while no stream is open;
\* every leaked timer cost a mount.
StreamInv ==
    /\ link \in {"none", "joining", "up", "dead", "refused"}
    /\ refs \in Nat /\ streams \in {0, 1} /\ orphans \in Nat
    /\ timer \in BOOLEAN /\ quiet \in BOOLEAN /\ silent \in BOOLEAN
    /\ mounts \in Nat /\ mounts <= MaxMounts
    /\ refs <= mounts /\ orphans <= mounts
    /\ refs = 0 => streams = 0
    /\ link = "none" <=> streams = 0
    /\ timer => streams = 0 /\ refs > 0
    /\ refs > 0 /\ streams = 0 => timer \/ orphans > 0

ShownInv == snapshot \in Snapshots /\ (snapshot.source = "sse" => streams = 1)

Covering(s) == s.source = "sse" /\ s.job # NoJob
TrackerInv ==
    /\ trk \in Trackers /\ Len(trk.gets) <= MaxGets
    /\ ~trk.on => trk = Idle
    /\ trk.on => refs > 0
    /\ trk.on => (trk.covering <=> Covering(snapshot))
    /\ fired \in Nat /\ (fired > 0 => fired = 1 /\ trk.notify = "fired")
    /\ SettledStates = {"done"} /\ fired > 0 => isTerminal(job.state)

FeedInv == ServerInv /\ ChanInv /\ StreamInv /\ ShownInv /\ TrackerInv

-----------------------------------------------------------------------------
(* Sequences *)

LEMMA SeqGrows ==
    ASSUME NEW A, NEW B, A \subseteq B, NEW s \in Seq(A)
    PROVE  s \in Seq(B)
OBVIOUS

LEMMA SeqLess ==
    ASSUME NEW S, NEW s \in Seq(S), NEW i \in DOMAIN s
    PROVE  RemoveAt(s, i) \in Seq(S) /\ Len(RemoveAt(s, i)) = Len(s) - 1
<1>1. i \in 1..Len(s) /\ Len(s) \in Nat
  OBVIOUS
<1>2. SubSeq(s, 1, i - 1) \in Seq(S) /\ Len(SubSeq(s, 1, i - 1)) = i - 1
  BY <1>1
<1>3. SubSeq(s, i + 1, Len(s)) \in Seq(S) /\ Len(SubSeq(s, i + 1, Len(s))) = Len(s) - i
  BY <1>1
<1> DEFINE a == SubSeq(s, 1, i - 1)
           b == SubSeq(s, i + 1, Len(s))
<1> HIDE DEF a, b
<1>4. RemoveAt(s, i) = a \o b
  BY DEF RemoveAt, a, b
<1>5. a \o b \in Seq(S) /\ Len(a \o b) = Len(a) + Len(b)
  BY <1>2, <1>3 DEF a, b
<1>6. Len(a) = i - 1 /\ Len(b) = Len(s) - i
  BY <1>2, <1>3 DEF a, b
<1>7. ASSUME NEW n \in Nat, NEW k \in 1..n
      PROVE  (k - 1) + (n - k) = n - 1
  OBVIOUS
<1> QED
  BY <1>1, <1>4, <1>5, <1>6, <1>7

-----------------------------------------------------------------------------
(* The tracker's operators *)

LEMMA JobsAreJobs == Jobs \subseteq [state : States, v : Nat] /\ NoJob \notin Jobs /\ NoSnap \notin Jobs
<1>1. Jobs \subseteq [state : States, v : Nat]
  BY FeedAssumption DEF Jobs
<1> QED
  BY <1>1, FeedAssumption

LEMMA ObserveType ==
    ASSUME NEW t \in Trackers, NEW j \in Known
    PROVE  /\ observe(t, j) \in Trackers
           /\ observe(t, j).on = t.on /\ observe(t, j).gets = t.gets
           /\ observe(t, j).covering = t.covering
           /\ t.notify = "fired" => observe(t, j).notify = "fired"
           /\ Fires(t, j) => t.notify = "pending" /\ observe(t, j).notify = "fired"
           /\ t.job # NoJob /\ isTerminal(t.job.state)
              => observe(t, j).job # NoJob /\ isTerminal(observe(t, j).job.state)
<1> DEFINE newJob == IF t.job # NoJob /\ isTerminal(t.job.state) /\ ~isTerminal(j.state) THEN t.job ELSE j
           newNotify == CASE t.notify = "null" -> IF settled(j) THEN "fired" ELSE "pending"
                          [] t.notify = "pending" /\ settled(j) -> "fired"
                          [] OTHER -> t.notify
<1>1. observe(t, j) = [t EXCEPT !.job = newJob, !.notify = newNotify]
  BY DEF observe
<1>2. newJob \in Heard /\ (t.job # NoJob /\ isTerminal(t.job.state) => newJob # NoJob /\ isTerminal(newJob.state))
  BY JobsAreJobs DEF Trackers, Heard, Known
<1>3. /\ newNotify \in {"null", "pending", "fired"}
      /\ t.notify = "fired" => newNotify = "fired"
      /\ Fires(t, j) => t.notify = "pending" /\ newNotify = "fired"
  BY DEF Trackers, Fires
<1> HIDE DEF newJob, newNotify
<1>4. /\ observe(t, j) \in Trackers /\ observe(t, j).job = newJob /\ observe(t, j).notify = newNotify
      /\ observe(t, j).on = t.on /\ observe(t, j).gets = t.gets /\ observe(t, j).covering = t.covering
  BY <1>1, <1>2, <1>3 DEF Trackers
<1> QED
  BY <1>2, <1>3, <1>4

LEMMA EffectType ==
    ASSUME NEW t \in Trackers, NEW s \in Snapshots
    PROVE  /\ Effect(t, s) \in Trackers
           /\ Effect(t, s).on = t.on /\ Effect(t, s).job = t.job /\ Effect(t, s).notify = t.notify
           /\ t.on => (Effect(t, s).covering <=> Covering(s))
           /\ ~t.on => Effect(t, s) = t
           /\ Len(t.gets) <= MaxGets => Len(Effect(t, s).gets) <= MaxGets
<1> DEFINE covering == s.source = "sse" /\ s.job # NoJob
           new == [t EXCEPT !.covering = covering, !.settledNow = settled(t.job), !.gets = <<NoJob>>]
           cond == t.on /\ (covering # t.covering \/ settled(t.job) # t.settledNow)
<1>1. Effect(t, s) = IF cond THEN new ELSE t
  BY DEF Effect
<1>2. covering \in BOOLEAN /\ settled(t.job) \in BOOLEAN
  BY DEF settled
<1>3. <<NoJob>> \in Seq(Heard) /\ Len(<<NoJob>>) = 1 /\ 1 <= MaxGets
  BY FeedAssumption DEF Heard
<1>4. t.on \in BOOLEAN /\ t.covering \in BOOLEAN
  BY DEF Trackers
<1>5. /\ new \in Trackers /\ new.on = t.on /\ new.job = t.job /\ new.notify = t.notify
      /\ new.covering = covering /\ new.gets = <<NoJob>>
  <2> DEFINE st == settled(t.job)
             g == <<NoJob>>
  <2>1. st \in BOOLEAN /\ g \in Seq(Heard)
    BY <1>2, <1>3
  <2> HIDE DEF st, g, covering
  <2>2. [t EXCEPT !.covering = covering, !.settledNow = st, !.gets = g] \in Trackers
    BY <1>2, <2>1 DEF Trackers
  <2> USE DEF st, g
  <2> QED
    BY <2>2 DEF Trackers
<1>6. ~cond /\ t.on => (t.covering <=> covering)
  BY <1>2, <1>4
<1>7. covering <=> Covering(s)
  BY DEF Covering
<1> HIDE DEF new, covering
<1>8. CASE cond
  <2>1. Effect(t, s) = new /\ t.on
    BY <1>1, <1>8
  <2> QED
    BY <1>3, <1>5, <1>7, <2>1
<1>9. CASE ~cond
  <2>1. Effect(t, s) = t
    BY <1>1, <1>9
  <2> QED
    BY <1>6, <1>7, <1>9, <2>1
<1> QED
  BY <1>8, <1>9

\* A fired notification is of a job that ended, when settled means ended.
LEMMA FiresEnded ==
    ASSUME NEW t, NEW j \in Known, Fires(t, j), SettledStates = {"done"}
    PROVE  isTerminal(job.state)
BY DEF Fires, settled, Known, isTerminal

\* Where the job does not change, what may be said of it does not.
LEMMA KnownStays ==
    ASSUME job' = job
    PROVE  /\ Known' = Known /\ Heard' = Heard /\ Frames' = Frames /\ Snapshots' = Snapshots
           /\ Trackers' = Trackers
BY DEF Known, Heard, Frames, Snapshots, Trackers

\* The initial state
LEMMA FeedInit == Init => FeedInv
<1> SUFFICES ASSUME Init PROVE FeedInv
  OBVIOUS
<1>1. job \in Jobs
  BY FeedAssumption DEF Init, Jobs
<1>2. ServerInv
  BY <1>1 DEF Init, ServerInv
<1>3. ChanInv
  <2>1. << >> \in Seq(Frames) /\ Len(<< >>) = 0
    OBVIOUS
  <2> QED
    BY <2>1, FeedAssumption DEF Init, ChanInv
<1>4. StreamInv
  <2>1. mounts \in Nat /\ mounts = 0 /\ MaxMounts \in Nat
    BY FeedAssumption DEF Init
  <2>2. 0 <= MaxMounts
    BY <2>1
  <2>3. /\ timer \in BOOLEAN /\ quiet \in BOOLEAN /\ silent \in BOOLEAN
        /\ timer => streams = 0 /\ refs > 0
    BY ZenonT(20) DEF Init
  <2>4. /\ link = "none" /\ refs = 0 /\ streams = 0 /\ orphans = 0
    BY DEF Init
  <2> QED
    BY <2>1, <2>2, <2>3, <2>4 DEF StreamInv
<1>5. ShownInv
  BY DEF Init, ShownInv, INITIAL_SNAPSHOT, Snapshots, Heard
<1>6. TrackerInv
  <2>1. << >> \in Seq(Heard) /\ Len(<< >>) = 0
    OBVIOUS
  <2>2. Idle \in Trackers /\ Idle.on = FALSE /\ Idle.gets = << >>
    BY <2>1 DEF Idle, Trackers, Heard
  <2> QED
    BY <2>1, <2>2, FeedAssumption DEF Init, TrackerInv
<1> QED
  BY <1>2, <1>3, <1>4, <1>5, <1>6 DEF FeedInv

-----------------------------------------------------------------------------
(* The steps of the server *)

\* A write ends a job, or not; it never takes an end back.
LEMMA WriteStep ==
    ASSUME FeedInv, NEW s \in States, Write(s)
    PROVE  FeedInv'
<1>0. ServerInv /\ ChanInv /\ StreamInv /\ ShownInv /\ TrackerInv
  BY DEF FeedInv
<1>1. job \in Jobs /\ job' \in Jobs /\ ~isTerminal(job.state)
  <2>1. job \in Jobs /\ job.v \in 0..MaxVersions /\ job.v < MaxVersions /\ MaxVersions \in Nat
    BY <1>0, FeedAssumption DEF ServerInv, Jobs, Write
  <2>2. job.v + 1 \in 0..MaxVersions
    BY <2>1
  <2> QED
    BY <2>1, <2>2 DEF Write, Jobs
<1>2. Known \subseteq Known' /\ job' \in Known' /\ Heard \subseteq Heard'
  BY <1>1 DEF Known, Heard
<1>3. Frames \subseteq Frames' /\ Snapshots \subseteq Snapshots'
  BY <1>2 DEF Frames, Snapshots
<1>4. UNCHANGED <<cache, fresh, stream, trk, fired, mounts>>
  BY DEF Write
<1>5. ServerInv'
  <2>1. bus' \subseteq bus \cup {job'}
    BY DEF Write
  <2> QED
    BY <1>0, <1>1, <1>2, <1>4, <2>1 DEF ServerInv
<1>6. ChanInv'
  <2>1. chan \in Seq(Frames')
    BY <1>0, <1>3, SeqGrows DEF ChanInv
  <2> QED
    BY <1>0, <1>4, <2>1 DEF ChanInv, stream
<1>7. StreamInv'
  BY <1>0, <1>4 DEF StreamInv, stream
<1>8. ShownInv'
  BY <1>0, <1>3, <1>4 DEF ShownInv, stream
<1>9. TrackerInv'
  <2>1. trk \in Trackers /\ trk.gets \in Seq(Heard)
    BY <1>0 DEF TrackerInv, Trackers
  <2>2. trk.gets \in Seq(Heard')
    BY <1>2, <2>1, SeqGrows
  <2>3. trk \in Trackers'
    BY <1>2, <2>1, <2>2 DEF Trackers
  <2>4. SettledStates = {"done"} /\ fired > 0 => isTerminal(job'.state)
    BY <1>0, <1>1 DEF TrackerInv
  <2> QED
    BY <1>0, <1>4, <2>3, <2>4 DEF TrackerInv, stream, Idle, Covering
<1> QED
  BY <1>5, <1>6, <1>7, <1>8, <1>9 DEF FeedInv

\* An event is lost, or the broker's copy grows old.
LEMMA LostStep ==
    ASSUME FeedInv, (\E e \in bus : Lost(e)) \/ Expire
    PROVE  FeedInv'
<1>1. /\ bus' \subseteq bus /\ fresh' \in BOOLEAN
      /\ UNCHANGED <<job, cache, stream, trk, fired, mounts>>
  BY DEF Lost, Expire, FeedInv, ServerInv
<1>2. /\ Known' = Known /\ Heard' = Heard /\ Frames' = Frames /\ Snapshots' = Snapshots
      /\ Trackers' = Trackers
  BY <1>1, KnownStays
<1> QED
  BY <1>1, <1>2 DEF FeedInv, ServerInv, ChanInv, StreamInv, ShownInv, TrackerInv, stream, Idle, Covering

\* A frame of the job, or of another, queued to the tab.
LEMMA QueueStep ==
    ASSUME FeedInv, NEW f \in Frames, job' = job,
           \/ fanOutJobs(f)
           \/ Len(chan) < MaxChan /\ chan' = Append(chan, f)
           \/ chan' = chan,
           UNCHANGED link
    PROVE  ChanInv'
<1>1. chan \in Seq(Frames) /\ Len(chan) <= MaxChan + 1 /\ (link = "joining" => Len(chan) <= MaxChan)
  BY DEF FeedInv, ChanInv
<1>2. chan' = chan \/ (Len(chan) < MaxChan /\ chan' = Append(chan, f))
  BY DEF fanOutJobs
<1>3. Frames' = Frames
  BY KnownStays
<1>4. CASE chan' = chan
  BY <1>1, <1>3, <1>4 DEF ChanInv
<1>5. CASE Len(chan) < MaxChan /\ chan' = Append(chan, f)
  <2>1. chan' \in Seq(Frames) /\ Len(chan') = Len(chan) + 1
    BY <1>1, <1>5
  <2>2. Len(chan') <= MaxChan
    BY <1>1, <1>5, <2>1, FeedAssumption
  <2>3. MaxChan <= MaxChan + 1 /\ Len(chan') \in Nat /\ MaxChan \in Nat
    BY <2>1, FeedAssumption
  <2>4. Len(chan') <= MaxChan + 1
    BY <2>2, <2>3
  <2> QED
    BY <1>3, <2>1, <2>2, <2>4 DEF ChanInv
<1> QED
  BY <1>2, <1>4, <1>5

LEMMA RelayStep ==
    ASSUME FeedInv, (\E e \in bus : Relay(e)) \/ RelayOther
    PROVE  FeedInv'
<1>0. ServerInv /\ ChanInv /\ StreamInv /\ ShownInv /\ TrackerInv
  BY DEF FeedInv
<1>1. /\ UNCHANGED <<job, fresh, link, refs, streams, timer, orphans, snapshot, quiet, silent,
                     trk, fired>>
      /\ bus' \subseteq bus
  BY DEF Relay, RelayOther, server
<1>2. /\ Known' = Known /\ Heard' = Heard /\ Frames' = Frames /\ Snapshots' = Snapshots
      /\ Trackers' = Trackers
  BY <1>1, KnownStays
<1>3. ChanInv'
  <2>1. CASE RelayOther
    <3>1. Frame(NoJob) \in Frames
      BY DEF Frame, Frames, Heard
    <3>2. Len(chan) < MaxChan /\ chan' = Append(chan, Frame(NoJob))
      BY <2>1 DEF RelayOther
    <3> QED
      BY <1>1, <3>1, <3>2, QueueStep
  <2>2. ASSUME NEW e \in bus, Relay(e) PROVE ChanInv'
    <3>1. Frame(e) \in Frames
      BY <1>0 DEF Frame, Frames, Heard, ServerInv
    <3>2. chan' = chan \/ fanOutJobs(Frame(e))
      BY <2>2 DEF Relay
    <3> QED
      BY <1>1, <3>1, <3>2, QueueStep
  <2> QED
    BY <2>1, <2>2
<1>4. ServerInv'
  <2>1. CASE RelayOther
    BY <1>0, <1>1, <1>2, <2>1 DEF RelayOther, server, ServerInv
  <2>2. ASSUME NEW e \in bus, Relay(e) PROVE ServerInv'
    <3>1. e \in Known
      BY <1>0 DEF ServerInv
    <3>2. cache' = cache \/ applyJobsEvent(e)
      BY <2>2 DEF Relay
    <3>3. cache' \in {j \in Known : ~isTerminal(j.state)} \cup {NoJob, NoSnap}
      <4>1. CASE cache' = cache
        BY <1>0, <4>1 DEF ServerInv
      <4>2. CASE applyJobsEvent(e)
        BY <3>1, <4>2 DEF applyJobsEvent
      <4> QED
        BY <3>2, <4>1, <4>2
    <3> QED
      BY <1>0, <1>1, <1>2, <3>3 DEF ServerInv
  <2> QED
    BY <2>1, <2>2
<1>5. StreamInv'
  <2>1. mounts' \in Nat /\ mounts' = mounts
    BY <1>0 DEF Relay, RelayOther, StreamInv
  <2> QED
    BY <1>0, <1>1, <2>1 DEF StreamInv
<1>6. ShownInv' /\ TrackerInv'
  BY <1>0, <1>1, <1>2 DEF ShownInv, TrackerInv, Idle, Covering
<1> QED
  BY <1>3, <1>4, <1>5, <1>6 DEF FeedInv

\* The stream is up: the broker's snapshot goes first.
LEMMA JoinStep ==
    ASSUME FeedInv, Join
    PROVE  FeedInv'
<1>0. ServerInv /\ ChanInv /\ StreamInv /\ ShownInv /\ TrackerInv
  BY DEF FeedInv
<1>1. /\ UNCHANGED <<job, bus, refs, streams, timer, orphans, snapshot, quiet, silent, trk, fired, mounts>>
      /\ link = "joining" /\ link' = "up"
  BY DEF Join
<1>2. /\ Known' = Known /\ Heard' = Heard /\ Frames' = Frames /\ Snapshots' = Snapshots
      /\ Trackers' = Trackers
  BY <1>1, KnownStays
<1>3. cache' \in {j \in Known : ~isTerminal(j.state)} \cup {NoJob, NoSnap} /\ fresh' \in BOOLEAN
  BY <1>0 DEF Join, cachedJobsSnapshot, ServerInv, Known
<1>4. ChanInv'
  <2>1. chan \in Seq(Frames) /\ Len(chan) <= MaxChan /\ MaxChan \in Nat
    BY <1>0, <1>1, FeedAssumption DEF ChanInv
  <2>2. CASE cache' = NoSnap
    <3>1. chan' = chan
      BY <2>2 DEF Join
    <3>2. Len(chan) <= MaxChan + 1
      BY <2>1
    <3> QED
      BY <1>1, <1>2, <2>1, <3>1, <3>2 DEF ChanInv
  <2>3. CASE cache' # NoSnap
    <3>1. Frame(cache') \in Frames
      BY <1>3, <2>3 DEF Frame, Frames, Heard
    <3> DEFINE f == Frame(cache')
    <3>2. chan' = <<f>> \o chan
      BY <2>3 DEF Join
    <3> HIDE DEF f
    <3>3. f \in Frames
      BY <3>1 DEF f
    <3>4. <<f>> \in Seq(Frames) /\ Len(<<f>>) = 1
      BY <3>3
    <3>5. <<f>> \o chan \in Seq(Frames) /\ Len(<<f>> \o chan) = 1 + Len(chan)
      BY <2>1, <3>4
    <3>6. Len(chan') <= MaxChan + 1
      BY <2>1, <3>2, <3>5
    <3> QED
      BY <1>1, <1>2, <3>2, <3>5, <3>6 DEF ChanInv
  <2> QED
    BY <2>2, <2>3
<1>5. ServerInv'
  BY <1>0, <1>1, <1>2, <1>3 DEF ServerInv
<1>6. StreamInv'
  BY <1>0, <1>1 DEF StreamInv
<1>7. ShownInv' /\ TrackerInv'
  BY <1>0, <1>1, <1>2 DEF ShownInv, TrackerInv, Idle, Covering
<1> QED
  BY <1>4, <1>5, <1>6, <1>7 DEF FeedInv

-----------------------------------------------------------------------------
(* The steps of the shared stream *)

\* No frame is on its way.
LEMMA EmptyChan ==
    ASSUME chan' = << >>
    PROVE  ChanInv'
<1>1. << >> \in Seq(Frames') /\ Len(<< >>) = 0
  OBVIOUS
<1>2. 0 <= MaxChan /\ 0 <= MaxChan + 1
  BY FeedAssumption
<1> QED
  BY <1>1, <1>2 DEF ChanInv

\* No timer is named, and the watchdog hears the stream.
Off == timer' \in BOOLEAN /\ ~timer' /\ silent' \in BOOLEAN

\* openStream opens the one stream, or finds nothing to do.
LEMMA OpenCases ==
    ASSUME FeedInv, NEW r \in Nat, NEW pending \in Int, openStream(r, pending), job' = job
    PROVE  /\ ChanInv'
           /\ \/ /\ r = 0 \/ streams = 1
                 /\ orphans' = pending /\ UNCHANGED <<link, chan, streams, timer, silent>>
              \/ /\ r > 0 /\ streams = 0 /\ streams' = 1 /\ link' \in {"joining", "refused"}
                 /\ Off
                 /\ (timer /\ orphans' = pending + 1) \/ (~timer /\ orphans' = pending)
<1>0. ChanInv /\ StreamInv /\ streams \in {0, 1}
  BY DEF FeedInv, StreamInv
<1>1. Frames' = Frames
  BY KnownStays
<1>2. CASE r = 0 \/ streams > 0
  <2>1. /\ r = 0 \/ streams = 1
        /\ orphans' = pending /\ UNCHANGED <<link, chan, streams, timer, silent>>
    BY <1>0, <1>2 DEF openStream
  <2>2. ChanInv'
    BY <1>0, <1>1, <2>1 DEF ChanInv
  <2> QED
    BY <2>1, <2>2
<1>3. CASE ~(r = 0 \/ streams > 0)
  <2>1. r > 0 /\ streams = 0
    BY <1>0, <1>3
  <2>2. /\ streams' = streams + 1 /\ link' \in {"joining", "refused"} /\ chan' = << >>
        /\ timer' = FALSE /\ orphans' = pending + (IF timer THEN 1 ELSE 0) /\ silent' = FALSE
    BY <1>3 DEF openStream
  <2>3. ChanInv'
    BY <2>2, EmptyChan
  <2>4. Off
    BY <2>2, ZenonT(20) DEF Off
  <2>5. streams' = 1
    BY <2>1, <2>2
  <2>6. (timer /\ orphans' = pending + 1) \/ (~timer /\ orphans' = pending)
    <3>1. CASE timer
      BY <2>2, <3>1
    <3>2. CASE ~timer
      <4>1. orphans' = pending + 0
        BY <2>2, <3>2
      <4> QED
        BY <3>2, <4>1
    <3> QED
      BY <3>1, <3>2
  <2> QED
    BY <2>1, <2>2, <2>3, <2>4, <2>5, <2>6
<1> QED
  BY <1>2, <1>3

LEMMA ReconnectStep ==
    ASSUME FeedInv, Reconnect
    PROVE  FeedInv'
<1>0. ServerInv /\ StreamInv /\ ShownInv /\ TrackerInv /\ refs \in Nat /\ orphans - 1 \in Int
  BY DEF FeedInv, StreamInv
<1>1. /\ UNCHANGED <<job, bus, cache, fresh, refs, snapshot, quiet, trk, fired, mounts>>
      /\ timer \/ orphans > 0
  BY DEF Reconnect, server
<1>2. /\ Known' = Known /\ Heard' = Heard /\ Frames' = Frames /\ Snapshots' = Snapshots
      /\ Trackers' = Trackers
  BY <1>1, KnownStays
<1>3. openStream(refs, orphans - 1)
  BY DEF Reconnect
<1>4. /\ ChanInv'
      /\ \/ /\ refs = 0 \/ streams = 1
            /\ orphans' = orphans - 1 /\ UNCHANGED <<link, chan, streams, timer, silent>>
         \/ /\ refs > 0 /\ streams = 0 /\ streams' = 1 /\ link' \in {"joining", "refused"}
            /\ Off
            /\ (timer /\ orphans' = (orphans - 1) + 1) \/ (~timer /\ orphans' = orphans - 1)
  BY <1>0, <1>1, <1>3, OpenCases
<1>5. orphans' \in Nat /\ orphans' <= mounts
  <2>1. orphans \in Nat /\ mounts \in Nat /\ orphans <= mounts
        /\ (timer => streams = 0 /\ refs > 0)
    BY <1>0 DEF StreamInv
  <2>2. CASE timer
    <3>1. streams = 0 /\ refs > 0
      BY <2>1, <2>2
    <3>2. ~(refs = 0 \/ streams = 1)
      BY <1>0, <3>1
    <3>3. orphans' = (orphans - 1) + 1
      BY <1>4, <2>2, <3>2
    <3> QED
      BY <2>1, <3>3
  <2>3. CASE ~timer
    <3>1. orphans' = orphans - 1
      BY <1>4, <2>3
    <3>2. orphans > 0
      BY <1>1, <2>3
    <3> QED
      BY <2>1, <3>1, <3>2
  <2> QED
    BY <2>2, <2>3
<1>6. StreamInv' /\ ShownInv'
  <2>1. CASE /\ refs = 0 \/ streams = 1
             /\ UNCHANGED <<link, chan, streams, timer, silent>>
    <3>1. StreamInv'
      BY <1>0, <1>1, <1>5, <2>1 DEF StreamInv
    <3> QED
      BY <1>0, <1>1, <1>2, <2>1, <3>1 DEF ShownInv
  <2>2. CASE /\ refs > 0 /\ streams = 0 /\ streams' = 1 /\ link' \in {"joining", "refused"}
             /\ Off
    <3>1. StreamInv'
      BY <1>0, <1>1, <1>5, <2>2 DEF StreamInv, Off
    <3> QED
      BY <1>0, <1>1, <1>2, <2>2, <3>1 DEF ShownInv
  <2> QED
    BY <1>4, <2>1, <2>2
<1>7. ServerInv' /\ TrackerInv'
  BY <1>0, <1>1, <1>2 DEF ServerInv, TrackerInv, Idle, Covering
<1> QED
  BY <1>4, <1>6, <1>7 DEF FeedInv

\* A consumer comes, or goes.
LEMMA AcquireStep ==
    ASSUME FeedInv, acquire, UNCHANGED <<job, snapshot, quiet>>
    PROVE  ChanInv' /\ StreamInv' /\ ShownInv' /\ refs' = refs + 1 /\ refs' > 0
<1>0. /\ StreamInv /\ ShownInv /\ refs \in Nat /\ orphans \in Nat /\ streams \in {0, 1}
      /\ refs + 1 \in Nat /\ orphans \in Int
  BY DEF FeedInv, StreamInv
<1>1. /\ refs' = refs + 1 /\ openStream(refs + 1, orphans) /\ mounts < MaxMounts
      /\ mounts' = mounts + 1
  BY DEF acquire
<1>2. /\ Known' = Known /\ Heard' = Heard /\ Frames' = Frames /\ Snapshots' = Snapshots
      /\ Trackers' = Trackers
  BY KnownStays
<1>3. /\ ChanInv'
      /\ \/ /\ streams = 1
            /\ orphans' = orphans /\ UNCHANGED <<link, chan, streams, timer, silent>>
         \/ /\ streams = 0 /\ streams' = 1 /\ link' \in {"joining", "refused"}
            /\ Off
            /\ (timer /\ orphans' = orphans + 1) \/ (~timer /\ orphans' = orphans)
  <2>1. refs + 1 # 0
    BY <1>0
  <2> QED
    BY <1>0, <1>1, <2>1, OpenCases
<1>4. /\ mounts' \in Nat /\ mounts' = mounts + 1
      /\ mounts' <= MaxMounts /\ mounts \in Nat
  <2>1. mounts \in Nat /\ MaxMounts \in Nat
    BY <1>0, FeedAssumption DEF StreamInv
  <2>2. mounts' \in Nat /\ mounts' = mounts + 1
    BY <1>1, <2>1
  <2> QED
    BY <1>1, <2>1, <2>2
<1>5. /\ orphans' \in Nat /\ orphans' <= mounts' /\ refs' \in Nat /\ refs' <= mounts'
      /\ refs' > 0
  <2>1. orphans <= mounts /\ refs <= mounts
    BY <1>0 DEF StreamInv
  <2>2. orphans' = orphans \/ orphans' = orphans + 1
    BY <1>3
  <2> QED
    BY <1>0, <1>1, <1>4, <2>1, <2>2
<1>6. StreamInv' /\ ShownInv'
  <2>1. CASE streams = 1 /\ UNCHANGED <<link, chan, streams, timer, silent>>
    <3>1. StreamInv'
      BY <1>0, <1>4, <1>5, <2>1 DEF StreamInv
    <3> QED
      BY <1>0, <1>2, <2>1, <3>1 DEF ShownInv
  <2>2. CASE /\ streams = 0 /\ streams' = 1 /\ link' \in {"joining", "refused"}
             /\ Off
    <3>1. StreamInv'
      BY <1>0, <1>4, <1>5, <2>2 DEF StreamInv, Off
    <3> QED
      BY <1>0, <1>2, <2>2, <3>1 DEF ShownInv
  <2> QED
    BY <1>3, <2>1, <2>2
<1> QED
  BY <1>1, <1>3, <1>5, <1>6

LEMMA ReleaseStep ==
    ASSUME FeedInv, refs > 0, release, UNCHANGED <<job, mounts>>
    PROVE  /\ ChanInv' /\ StreamInv' /\ ShownInv' /\ refs' = refs - 1
           /\ refs > 1 => snapshot' = snapshot
<1>0. ChanInv /\ StreamInv /\ ShownInv /\ refs \in Nat
  BY DEF FeedInv, StreamInv
<1>1. /\ Known' = Known /\ Heard' = Heard /\ Frames' = Frames /\ Snapshots' = Snapshots
      /\ Trackers' = Trackers
  BY KnownStays
<1>2. CASE refs > 1
  <2>1. /\ refs' = refs - 1
        /\ UNCHANGED <<link, chan, streams, timer, orphans, snapshot, quiet, silent>>
    BY <1>2 DEF release
  <2>2. refs' \in Nat /\ refs' > 0 /\ refs' <= refs
    BY <1>0, <1>2, <2>1
  <2>3. StreamInv'
    <3>1. refs' <= mounts
      <4>1. refs <= mounts /\ mounts \in Nat
        BY <1>0 DEF StreamInv
      <4> QED
        BY <1>0, <2>2, <4>1
    <3> QED
      BY <1>0, <1>2, <2>1, <2>2, <3>1 DEF StreamInv
  <2>4. ChanInv' /\ ShownInv'
    BY <1>0, <1>1, <2>1 DEF ChanInv, ShownInv
  <2> QED
    BY <2>1, <2>3, <2>4
<1>3. CASE ~(refs > 1)
  <2>1. /\ refs' = 0 /\ streams' = 0 /\ link' = "none" /\ chan' = << >> /\ timer' = FALSE
        /\ snapshot' = INITIAL_SNAPSHOT /\ quiet' = TRUE /\ silent' = FALSE /\ UNCHANGED orphans
    BY <1>3 DEF release
  <2>2. refs = 1
    BY <1>0, <1>3
  <2>3. 0 <= mounts
    BY <1>0 DEF StreamInv
  <2>4. StreamInv'
    <3>1. Off /\ quiet' \in BOOLEAN
      BY <2>1, ZenonT(20) DEF Off
    <3>2. refs' = 0 /\ streams' = 0 /\ link' = "none" /\ orphans' = orphans /\ mounts' = mounts
      BY <2>1
    <3> QED
      BY <1>0, <2>3, <3>1, <3>2 DEF StreamInv, Off
  <2>5. ShownInv'
    BY <2>1 DEF ShownInv, INITIAL_SNAPSHOT, Snapshots, Heard
  <2>6. ChanInv'
    BY <2>1, EmptyChan
  <2> QED
    BY <2>1, <2>2, <2>4, <2>5, <2>6
<1> QED
  BY <1>2, <1>3

LEMMA OpsStep ==
    ASSUME FeedInv, OpenOps \/ CloseOps
    PROVE  FeedInv'
<1>0. ServerInv /\ StreamInv /\ ShownInv /\ TrackerInv /\ refs \in Nat
  BY DEF FeedInv, StreamInv
<1>1. UNCHANGED <<job, bus, cache, fresh, trk, fired>>
  BY DEF OpenOps, CloseOps, server
<1>2. /\ Known' = Known /\ Heard' = Heard /\ Frames' = Frames /\ Snapshots' = Snapshots
      /\ Trackers' = Trackers
  BY <1>1, KnownStays
<1>3. ServerInv'
  BY <1>0, <1>1, <1>2 DEF ServerInv
<1>4. /\ ChanInv' /\ StreamInv' /\ ShownInv'
      /\ trk.on => refs' > 0 /\ snapshot' = snapshot
  <2>1. CASE OpenOps
    <3>1. acquire /\ UNCHANGED <<job, snapshot, quiet>>
      BY <1>1, <2>1 DEF OpenOps
    <3> QED
      BY <3>1, AcquireStep
  <2>2. CASE CloseOps
    <3>1. release /\ UNCHANGED <<job, mounts>> /\ refs - (IF trk.on THEN 1 ELSE 0) > 0
      BY <1>1, <2>2 DEF CloseOps
    <3>2. refs > 0 /\ (trk.on => refs > 1)
      BY <1>0, <3>1
    <3>3. /\ ChanInv' /\ StreamInv' /\ ShownInv' /\ refs' = refs - 1
          /\ refs > 1 => snapshot' = snapshot
      BY <3>1, <3>2, ReleaseStep
    <3>4. refs > 1 => refs' > 0
      BY <1>0, <3>3
    <3> QED
      BY <3>2, <3>3, <3>4
  <2> QED
    BY <2>1, <2>2
<1>5. TrackerInv'
  BY <1>0, <1>1, <1>2, <1>4 DEF TrackerInv, Idle, Covering
<1> QED
  BY <1>3, <1>4, <1>5 DEF FeedInv

\* The clocks of the tab, and a stream that dies without a word.
LEMMA QuietStep ==
    ASSUME FeedInv, HalfOpen \/ GrowSilent \/ GrowQuiet
    PROVE  FeedInv'
<1>0. ServerInv /\ ChanInv /\ StreamInv /\ ShownInv /\ TrackerInv
  BY DEF FeedInv
<1>1. /\ UNCHANGED <<job, bus, cache, fresh, refs, streams, timer, orphans, snapshot, trk, fired, mounts>>
      /\ quiet' \in BOOLEAN /\ silent' \in BOOLEAN
      /\ \/ UNCHANGED <<link, chan>>
         \/ link \in {"joining", "up"} /\ link' = "dead" /\ chan' = << >>
  BY <1>0 DEF HalfOpen, GrowSilent, GrowQuiet, server, StreamInv
<1>2. /\ Known' = Known /\ Heard' = Heard /\ Frames' = Frames /\ Snapshots' = Snapshots
      /\ Trackers' = Trackers
  BY <1>1, KnownStays
<1>3. ChanInv'
  <2>1. CASE UNCHANGED <<link, chan>>
    BY <1>0, <1>2, <2>1 DEF ChanInv
  <2>2. CASE chan' = << >>
    BY <2>2, EmptyChan
  <2> QED
    BY <1>1, <2>1, <2>2
<1>4. StreamInv'
  BY <1>0, <1>1 DEF StreamInv
<1>5. ServerInv' /\ ShownInv' /\ TrackerInv'
  BY <1>0, <1>1, <1>2 DEF ServerInv, ShownInv, TrackerInv, Idle, Covering
<1> QED
  BY <1>3, <1>4, <1>5 DEF FeedInv

-----------------------------------------------------------------------------
(* What a new snapshot makes of the tracker *)

LEMMA RenderStep ==
    ASSUME FeedInv, NEW s \in Snapshots, NEW heard \in BOOLEAN, heard => s.job \in Known,
           Render(s, heard), job' = job, trk.on => refs' > 0
    PROVE  snapshot' = s /\ TrackerInv'
<1>0. TrackerInv
  BY DEF FeedInv
<1> DEFINE t == IF trk.on /\ heard THEN observe(trk, s.job) ELSE trk
           fires == trk.on /\ heard /\ Fires(trk, s.job)
<1>1. /\ snapshot' = s /\ trk' = Effect(t, s)
      /\ fired' = fired + (IF fires THEN 1 ELSE 0)
  BY DEF Render
<1>2. trk \in Trackers /\ Len(trk.gets) <= MaxGets
  BY <1>0 DEF TrackerInv
<1>3. /\ t \in Trackers /\ t.on = trk.on /\ t.gets = trk.gets
      /\ trk.notify = "fired" => t.notify = "fired"
      /\ fires => trk.notify = "pending" /\ t.notify = "fired"
      /\ ~trk.on => t = trk
  <2>1. CASE trk.on /\ heard
    <3>1. s.job \in Known
      BY <2>1
    <3> QED
      BY <1>2, <2>1, <3>1, ObserveType
  <2>2. CASE ~(trk.on /\ heard)
    BY <1>2, <2>2
  <2> QED
    BY <2>1, <2>2
<1>4. /\ trk' \in Trackers /\ trk'.on = t.on /\ trk'.notify = t.notify
      /\ t.on => (trk'.covering <=> Covering(s))
      /\ ~t.on => trk' = t
      /\ Len(trk'.gets) <= MaxGets
  <2> HIDE DEF t
  <2>1. Len(t.gets) <= MaxGets
    BY <1>2, <1>3
  <2> QED
    BY <1>1, <1>3, <2>1, EffectType
<1>5. fires => (SettledStates = {"done"} => isTerminal(job.state))
  <2> SUFFICES ASSUME fires, SettledStates = {"done"} PROVE isTerminal(job.state)
    OBVIOUS
  <2>1. s.job \in Known /\ Fires(trk, s.job)
    OBVIOUS
  <2> QED
    BY <2>1, FiresEnded
<1> HIDE DEF t, fires
<1>6. /\ fired' \in Nat /\ (fired' > 0 => fired' = 1 /\ trk'.notify = "fired")
      /\ SettledStates = {"done"} /\ fired' > 0 => isTerminal(job.state)
  <2>1. fired \in Nat /\ (fired > 0 => fired = 1 /\ trk.notify = "fired")
    BY <1>0 DEF TrackerInv
  <2>2. CASE fires
    <3>1. fired = 0
      <4>1. ~(fired > 0)
        BY <1>3, <2>1, <2>2
      <4> QED
        BY <2>1, <4>1
    <3>2. fired' = 1
      <4>1. fired' = fired + 1
        BY <1>1, <2>2
      <4> QED
        BY <3>1, <4>1
    <3> QED
      BY <1>3, <1>4, <1>5, <2>2, <3>2
  <2>3. CASE ~fires
    <3>1. fired' = fired
      <4>1. fired' = fired + 0
        BY <1>1, <2>3
      <4> QED
        BY <2>1, <4>1
    <3> QED
      BY <1>0, <1>3, <1>4, <2>1, <3>1 DEF TrackerInv
  <2> QED
    BY <2>2, <2>3
<1>7. /\ ~trk'.on => trk' = Idle
      /\ trk'.on => refs' > 0
      /\ trk'.on => (trk'.covering <=> Covering(s))
  BY <1>0, <1>3, <1>4 DEF TrackerInv
<1>8. Trackers' = Trackers
  BY KnownStays
<1>9. (Idle)' = Idle /\ (Covering(snapshot))' = Covering(s)
  BY <1>1 DEF Idle, Covering
<1> QED
  BY <1>1, <1>4, <1>6, <1>7, <1>8, <1>9 DEF TrackerInv

\* The stream breaks, or is found silent: everybody polls, and a reconnect is due.
LEMMA DemoteStep ==
    ASSUME FeedInv, onerror \/ watchdogCheck
    PROVE  FeedInv'
<1>0. ServerInv /\ ChanInv /\ StreamInv /\ ShownInv /\ TrackerInv
  BY DEF FeedInv
<1> DEFINE s == [snapshot EXCEPT !.source = "poll"]
<1>1. /\ streams > 0 /\ streams' = 0 /\ link' = "none" /\ chan' = << >> /\ timer' = TRUE
      /\ Render(s, FALSE) /\ UNCHANGED <<job, bus, cache, fresh, refs, orphans, quiet, silent, mounts>>
  BY DEF onerror, watchdogCheck, Demote, server
<1>2. refs > 0 /\ streams = 1
  BY <1>0, <1>1 DEF StreamInv
<1>3. s \in Snapshots /\ s.source = "poll"
  BY <1>0 DEF ShownInv, Snapshots
<1> HIDE DEF s
<1>4. snapshot' = s /\ TrackerInv'
  <2>1. trk.on => refs' > 0
    BY <1>1, <1>2
  <2> QED
    BY <1>1, <1>3, <2>1, RenderStep
<1>5. /\ Known' = Known /\ Heard' = Heard /\ Frames' = Frames /\ Snapshots' = Snapshots
      /\ Trackers' = Trackers
  BY <1>1, KnownStays
<1>6. StreamInv'
  <2>1. timer' \in BOOLEAN /\ timer'
    BY <1>1
  <2> QED
    BY <1>0, <1>1, <1>2, <2>1 DEF StreamInv
<1>7. ChanInv'
  BY <1>1, EmptyChan
<1>8. ServerInv' /\ ShownInv'
  BY <1>0, <1>1, <1>3, <1>4, <1>5 DEF ServerInv, ShownInv
<1> QED
  BY <1>4, <1>6, <1>7, <1>8 DEF FeedInv

\* A frame is taken.
LEMMA OnJobsStep ==
    ASSUME FeedInv, onJobs
    PROVE  FeedInv'
<1>0. ServerInv /\ ChanInv /\ StreamInv /\ ShownInv /\ TrackerInv
  BY DEF FeedInv
<1> DEFINE j == Head(chan).job
           cur == snapshot.job
           taken == j # NoJob /\ ~(cur # NoJob /\ isTerminal(cur.state) /\ ~isTerminal(j.state))
           s == [job |-> IF taken THEN j ELSE cur, source |-> "sse"]
<1>1. /\ link = "up" /\ chan # << >> /\ chan' = Tail(chan) /\ quiet' = FALSE /\ silent' = FALSE
      /\ Render(s, taken)
      /\ UNCHANGED <<job, bus, cache, fresh, link, refs, streams, timer, orphans, mounts>>
  BY DEF onJobs, server
<1>2. chan \in Seq(Frames) /\ Len(chan) <= MaxChan + 1
  BY <1>0 DEF ChanInv
<1>3. Head(chan) \in Frames /\ Tail(chan) \in Seq(Frames) /\ Len(Tail(chan)) = Len(chan) - 1
  BY <1>1, <1>2
<1>4. j \in Heard /\ cur \in Heard
  BY <1>0, <1>3 DEF Frames, ShownInv, Snapshots
<1>5. /\ taken \in BOOLEAN /\ (taken => j \in Known) /\ s \in Snapshots /\ s.source = "sse"
      /\ taken => s.job \in Known
  <2> HIDE DEF j, cur
  <2>1. taken \in BOOLEAN /\ (taken => j # NoJob)
    OBVIOUS
  <2> HIDE DEF taken
  <2> QED
    BY <1>4, <2>1 DEF Heard, Snapshots
<1> HIDE DEF s, taken, j, cur
<1>6. streams = 1 /\ refs > 0
  BY <1>0, <1>1 DEF StreamInv
<1>7. snapshot' = s /\ TrackerInv'
  <2>1. trk.on => refs' > 0
    BY <1>1, <1>6
  <2> QED
    BY <1>1, <1>5, <2>1, RenderStep
<1>8. /\ Known' = Known /\ Heard' = Heard /\ Frames' = Frames /\ Snapshots' = Snapshots
      /\ Trackers' = Trackers
  BY <1>1, KnownStays
<1>9. ChanInv'
  <2>1. Len(chan) \in Nat /\ Len(chan') = Len(chan) - 1 /\ MaxChan \in Nat
    BY <1>1, <1>2, <1>3, FeedAssumption
  <2>2. Len(chan') <= MaxChan + 1
    BY <1>2, <2>1
  <2> QED
    BY <1>1, <1>3, <1>8, <2>2 DEF ChanInv
<1>10. StreamInv'
  <2>1. quiet' \in BOOLEAN /\ silent' \in BOOLEAN
    BY <1>1
  <2> QED
    BY <1>0, <1>1, <2>1 DEF StreamInv
<1>11. ServerInv' /\ ShownInv'
  BY <1>0, <1>1, <1>5, <1>6, <1>7, <1>8 DEF ServerInv, ShownInv
<1> QED
  BY <1>7, <1>9, <1>10, <1>11 DEF FeedInv

-----------------------------------------------------------------------------
(* The steps of the tracker *)

LEMMA AttachStep ==
    ASSUME FeedInv, Attach
    PROVE  FeedInv'
<1>0. ServerInv /\ ShownInv /\ TrackerInv
  BY DEF FeedInv
<1> DEFINE new == [Idle EXCEPT !.on = TRUE, !.gets = <<NoJob>>]
           t == IF snapshot.job = NoJob THEN new ELSE observe(new, snapshot.job)
<1>1. /\ acquire /\ trk' = Effect(t, snapshot) /\ fired' = 0
      /\ UNCHANGED <<job, bus, cache, fresh, snapshot, quiet>>
  BY DEF Attach, server
<1>2. ChanInv' /\ StreamInv' /\ ShownInv' /\ refs' > 0
  BY <1>1, AcquireStep
<1>3. snapshot \in Snapshots /\ snapshot.job \in Heard
  BY <1>0 DEF ShownInv, Snapshots
<1>4. new \in Trackers /\ new.on = TRUE /\ Len(new.gets) <= MaxGets
  <2>1. <<NoJob>> \in Seq(Heard) /\ Len(<<NoJob>>) = 1 /\ 1 <= MaxGets
    BY FeedAssumption DEF Heard
  <2> DEFINE g == <<NoJob>>
  <2>2. g \in Seq(Heard)
    BY <2>1
  <2> HIDE DEF g
  <2>3. /\ [on |-> TRUE, job |-> NoJob, notify |-> "null", covering |-> FALSE,
            settledNow |-> FALSE, gets |-> g] \in Trackers
    BY <2>2 DEF Trackers, Heard
  <2>4. new = [on |-> TRUE, job |-> NoJob, notify |-> "null", covering |-> FALSE,
               settledNow |-> FALSE, gets |-> g]
    <3>1. new = [Idle EXCEPT !.on = TRUE, !.gets = g]
      BY DEF g
    <3> HIDE DEF new
    <3> QED
      BY <3>1 DEF Idle
  <2>5. new.gets = g /\ new.on = TRUE
    BY <2>4
  <2> QED
    BY <2>1, <2>3, <2>4, <2>5 DEF g
<1> HIDE DEF new
<1>5. t \in Trackers /\ t.on = TRUE /\ Len(t.gets) <= MaxGets
  <2>1. CASE snapshot.job = NoJob
    BY <1>4, <2>1
  <2>2. CASE snapshot.job # NoJob
    <3>1. snapshot.job \in Known
      BY <1>3, <2>2 DEF Heard
    <3> QED
      BY <1>4, <2>2, <3>1, ObserveType
  <2> QED
    BY <2>1, <2>2
<1> HIDE DEF t
<1>6. /\ trk' \in Trackers /\ trk'.on = TRUE /\ (trk'.covering <=> Covering(snapshot))
      /\ Len(trk'.gets) <= MaxGets
  BY <1>1, <1>3, <1>5, EffectType
<1>7. /\ Known' = Known /\ Heard' = Heard /\ Frames' = Frames /\ Snapshots' = Snapshots
      /\ Trackers' = Trackers
  BY <1>1, KnownStays
<1>8. TrackerInv'
  <2>1. (Covering(snapshot))' = Covering(snapshot)
    BY <1>1 DEF Covering
  <2>2. fired' \in Nat /\ ~(fired' > 0)
    BY <1>1
  <2> QED
    BY <1>2, <1>6, <1>7, <2>1, <2>2 DEF TrackerInv
<1>9. ServerInv'
  BY <1>0, <1>1, <1>7 DEF ServerInv
<1> QED
  BY <1>2, <1>8, <1>9 DEF FeedInv

LEMMA IdleTracker == Idle \in Trackers /\ Idle.on = FALSE /\ Len(Idle.gets) <= MaxGets
<1>1. << >> \in Seq(Heard) /\ Len(<< >>) = 0 /\ 0 <= MaxGets
  BY FeedAssumption
<1> QED
  BY <1>1 DEF Idle, Trackers, Heard

LEMMA DetachStep ==
    ASSUME FeedInv, Detach
    PROVE  FeedInv'
<1>0. ServerInv /\ TrackerInv
  BY DEF FeedInv
<1>1. trk.on /\ release /\ trk' = Idle /\ fired' = 0 /\ UNCHANGED <<job, bus, cache, fresh, mounts>>
  BY DEF Detach, server
<1>2. refs > 0
  BY <1>0, <1>1 DEF TrackerInv
<1>3. ChanInv' /\ StreamInv' /\ ShownInv'
  BY <1>1, <1>2, ReleaseStep
<1>4. /\ Known' = Known /\ Heard' = Heard /\ Frames' = Frames /\ Snapshots' = Snapshots
      /\ Trackers' = Trackers
  BY <1>1, KnownStays
<1>5. TrackerInv'
  <2>1. fired' \in Nat /\ ~(fired' > 0) /\ ~trk'.on /\ (Idle)' = Idle
    BY <1>1, IdleTracker DEF Idle
  <2> QED
    BY <1>1, <1>4, <2>1, IdleTracker DEF TrackerInv
<1>6. ServerInv'
  BY <1>0, <1>1, <1>4 DEF ServerInv
<1> QED
  BY <1>3, <1>5, <1>6 DEF FeedInv

\* A GET is sent, served, or fails: the tracker holds what it held.
LEMMA GetsStep ==
    ASSUME FeedInv, Poll \/ Asked \/ \E i \in DOMAIN trk.gets : FetchFails(i)
    PROVE  FeedInv'
<1>0. ServerInv /\ ChanInv /\ StreamInv /\ ShownInv /\ TrackerInv
  BY DEF FeedInv
<1>1. trk \in Trackers /\ trk.gets \in Seq(Heard) /\ Len(trk.gets) <= MaxGets /\ MaxGets \in Nat
  BY <1>0, FeedAssumption DEF TrackerInv, Trackers
<1>2. PICK g : /\ trk' = [trk EXCEPT !.gets = g] /\ g \in Seq(Heard) /\ Len(g) <= MaxGets
               /\ trk.on
  <2>1. CASE Poll
    <3> DEFINE g == Append(trk.gets, NoJob)
    <3>1. g \in Seq(Heard) /\ Len(g) = Len(trk.gets) + 1
      BY <1>1 DEF Heard
    <3>2. trk' = [trk EXCEPT !.gets = g] /\ Len(trk.gets) < MaxGets /\ trk.on
      BY <2>1 DEF Poll
    <3>3. Len(g) <= MaxGets
      BY <1>1, <3>1, <3>2
    <3> HIDE DEF g
    <3> QED
      BY <3>1, <3>2, <3>3
  <2>2. ASSUME NEW i \in DOMAIN trk.gets
        PROVE  trk.on
    <3>1. trk.gets # << >>
      BY <1>1, <2>2
    <3>2. Idle.gets = << >>
      BY DEF Idle
    <3> QED
      BY <1>0, <3>1, <3>2 DEF TrackerInv
  <2>3. ASSUME NEW i \in DOMAIN trk.gets, Serve(i)
        PROVE  \E g : /\ trk' = [trk EXCEPT !.gets = g] /\ g \in Seq(Heard) /\ Len(g) <= MaxGets
                      /\ trk.on
    <3> DEFINE g == [trk.gets EXCEPT ![i] = job]
    <3>1. job \in Heard
      BY <1>0 DEF ServerInv, Known, Heard
    <3>2. g \in Seq(Heard) /\ Len(g) = Len(trk.gets)
      BY <1>1, <3>1
    <3>3. trk' = [trk EXCEPT !.gets = g]
      BY <2>3 DEF Serve
    <3> HIDE DEF g
    <3> QED
      BY <1>1, <2>2, <3>2, <3>3
  <2>4. ASSUME NEW i \in DOMAIN trk.gets, FetchFails(i)
        PROVE  \E g : /\ trk' = [trk EXCEPT !.gets = g] /\ g \in Seq(Heard) /\ Len(g) <= MaxGets
                      /\ trk.on
    <3> DEFINE g == RemoveAt(trk.gets, i)
    <3>1. trk' = [trk EXCEPT !.gets = g]
      BY <2>4 DEF FetchFails
    <3>2. g \in Seq(Heard) /\ Len(g) = Len(trk.gets) - 1
      BY <1>1, SeqLess
    <3> HIDE DEF g
    <3>3. Len(g) <= MaxGets
      BY <1>1, <3>2
    <3> QED
      BY <2>2, <3>1, <3>2, <3>3
  <2> QED
    BY <2>1, <2>3, <2>4 DEF Asked
<1>3. /\ trk' \in Trackers /\ trk'.on = trk.on /\ trk'.covering = trk.covering
      /\ trk'.notify = trk.notify /\ trk'.gets = g
  BY <1>1, <1>2 DEF Trackers
<1>4. UNCHANGED <<server, stream, fired, mounts>>
  BY DEF Poll, Asked, Serve, FetchFails
<1>5. /\ Known' = Known /\ Heard' = Heard /\ Frames' = Frames /\ Snapshots' = Snapshots
      /\ Trackers' = Trackers
  BY <1>4, KnownStays DEF server
<1>6. TrackerInv'
  BY <1>0, <1>2, <1>3, <1>4, <1>5 DEF TrackerInv, Covering, server, stream
<1>7. ServerInv' /\ ChanInv' /\ StreamInv' /\ ShownInv'
  BY <1>0, <1>4, <1>5 DEF ServerInv, ChanInv, StreamInv, ShownInv, server, stream
<1> QED
  BY <1>6, <1>7 DEF FeedInv

\* A GET is answered, however late.
LEMMA FetchStep ==
    ASSUME FeedInv, NEW i \in DOMAIN trk.gets, fetchNow(i)
    PROVE  FeedInv'
<1>0. ServerInv /\ ChanInv /\ StreamInv /\ ShownInv /\ TrackerInv
  BY DEF FeedInv
<1> DEFINE j == trk.gets[i]
           g == RemoveAt(trk.gets, i)
           t == [observe(trk, j) EXCEPT !.gets = g]
           fires == Fires(trk, j)
<1>1. /\ trk \in Trackers /\ trk.gets \in Seq(Heard) /\ Len(trk.gets) <= MaxGets /\ MaxGets \in Nat
      /\ trk.on
  <2>1. trk \in Trackers /\ trk.gets \in Seq(Heard) /\ Len(trk.gets) <= MaxGets /\ MaxGets \in Nat
    BY <1>0, FeedAssumption DEF TrackerInv, Trackers
  <2>2. trk.gets # << >>
    BY <2>1
  <2>3. Idle.gets = << >>
    BY DEF Idle
  <2> QED
    BY <1>0, <2>1, <2>2, <2>3 DEF TrackerInv
<1>2. j \in Known
  BY <1>1 DEF fetchNow, Heard
<1>3. observe(trk, j).gets = trk.gets
  BY <1>1, <1>2, ObserveType
<1>4. /\ trk' = Effect(t, snapshot) /\ fired' = fired + (IF fires THEN 1 ELSE 0)
      /\ UNCHANGED <<server, stream, mounts>>
  BY <1>3 DEF fetchNow
<1>5. g \in Seq(Heard) /\ Len(g) <= MaxGets
  <2>1. g \in Seq(Heard) /\ Len(g) = Len(trk.gets) - 1
    BY <1>1, SeqLess
  <2> HIDE DEF g
  <2> QED
    BY <1>1, <2>1
<1>6. /\ t \in Trackers /\ t.on = trk.on /\ t.gets = g
      /\ trk.notify = "fired" => t.notify = "fired"
      /\ fires => trk.notify = "pending" /\ t.notify = "fired"
  <2> DEFINE o == observe(trk, j)
  <2>1. /\ o \in Trackers /\ o.on = trk.on
        /\ trk.notify = "fired" => o.notify = "fired"
        /\ fires => trk.notify = "pending" /\ o.notify = "fired"
    BY <1>1, <1>2, ObserveType
  <2> HIDE DEF o, g, fires
  <2>2. [o EXCEPT !.gets = g] \in Trackers
    BY <1>5, <2>1 DEF Trackers
  <2>3. t = [o EXCEPT !.gets = g]
    BY DEF o
  <2>4. t \in Trackers /\ t.on = o.on /\ t.gets = g /\ t.notify = o.notify
    <3> HIDE DEF t
    <3> QED
      BY <2>1, <2>2, <2>3 DEF Trackers
  <2> QED
    BY <2>1, <2>4
<1>7. snapshot \in Snapshots
  BY <1>0 DEF ShownInv
<1> HIDE DEF t, g
<1>8. /\ trk' \in Trackers /\ trk'.on = t.on /\ trk'.notify = t.notify
      /\ (trk'.covering <=> Covering(snapshot))
      /\ Len(trk'.gets) <= MaxGets
  <2>1. t.on /\ Len(t.gets) <= MaxGets
    BY <1>1, <1>5, <1>6
  <2> QED
    BY <1>4, <1>6, <1>7, <2>1, EffectType
<1>9. fires => (SettledStates = {"done"} => isTerminal(job.state))
  BY <1>2, FiresEnded
<1> HIDE DEF fires, j
<1>10. /\ fired' \in Nat /\ (fired' > 0 => fired' = 1 /\ trk'.notify = "fired")
       /\ SettledStates = {"done"} /\ fired' > 0 => isTerminal(job.state)
  <2>1. fired \in Nat /\ (fired > 0 => fired = 1 /\ trk.notify = "fired")
    BY <1>0 DEF TrackerInv
  <2>2. CASE fires
    <3>1. fired = 0
      <4>1. ~(fired > 0)
        BY <1>6, <2>1, <2>2
      <4> QED
        BY <2>1, <4>1
    <3>2. fired' = 1
      <4>1. fired' = fired + 1
        BY <1>4, <2>2
      <4> QED
        BY <3>1, <4>1
    <3> QED
      BY <1>6, <1>8, <1>9, <2>2, <3>2
  <2>3. CASE ~fires
    <3>1. fired' = fired
      <4>1. fired' = fired + 0
        BY <1>4, <2>3
      <4> QED
        BY <2>1, <4>1
    <3> QED
      BY <1>0, <1>6, <1>8, <2>1, <3>1 DEF TrackerInv
  <2> QED
    BY <2>2, <2>3
<1>11. /\ Known' = Known /\ Heard' = Heard /\ Frames' = Frames /\ Snapshots' = Snapshots
       /\ Trackers' = Trackers
  BY <1>4, KnownStays DEF server
<1>12. TrackerInv'
  <2>1. job' = job /\ refs' = refs /\ (Covering(snapshot))' = Covering(snapshot)
    BY <1>4 DEF server, stream, Covering
  <2>2. trk'.on /\ refs > 0
    BY <1>0, <1>1, <1>6, <1>8 DEF TrackerInv
  <2> QED
    BY <1>8, <1>10, <1>11, <2>1, <2>2 DEF TrackerInv
<1>13. ServerInv' /\ ChanInv' /\ StreamInv' /\ ShownInv'
  BY <1>0, <1>4, <1>11 DEF ServerInv, ChanInv, StreamInv, ShownInv, server, stream
<1> QED
  BY <1>12, <1>13 DEF FeedInv

-----------------------------------------------------------------------------
(* The theorems *)

LEMMA FeedStep == FeedInv /\ [Next]_vars => FeedInv'
<1> SUFFICES ASSUME FeedInv, [Next]_vars PROVE FeedInv'
  OBVIOUS
<1>1. CASE \E s \in States : Write(s)
  BY <1>1, WriteStep
<1>2. CASE (\E e \in bus : Lost(e)) \/ Expire
  BY <1>2, LostStep
<1>3. CASE (\E e \in bus : Relay(e)) \/ RelayOther
  BY <1>3, RelayStep
<1>4. CASE Join
  BY <1>4, JoinStep
<1>5. CASE Reconnect
  BY <1>5, ReconnectStep
<1>6. CASE onerror \/ watchdogCheck
  BY <1>6, DemoteStep
<1>7. CASE onJobs
  BY <1>7, OnJobsStep
<1>8. CASE HalfOpen \/ GrowSilent \/ GrowQuiet
  BY <1>8, QuietStep
<1>9. CASE OpenOps \/ CloseOps
  BY <1>9, OpsStep
<1>10. CASE Attach
  BY <1>10, AttachStep
<1>11. CASE Detach
  BY <1>11, DetachStep
<1>12. CASE Poll \/ Asked \/ \E i \in DOMAIN trk.gets : FetchFails(i)
  BY <1>12, GetsStep
<1>13. CASE Answered
  BY <1>13, FetchStep DEF Answered
<1>14. CASE UNCHANGED vars
  <2>1. UNCHANGED <<job, bus, cache, fresh, stream, trk, fired, mounts>>
    BY <1>14 DEF vars, server
  <2> QED
    BY <2>1, KnownStays DEF FeedInv, ServerInv, ChanInv, StreamInv, ShownInv, TrackerInv, stream,
       Idle, Covering
<1> QED
  BY <1>1, <1>2, <1>3, <1>4, <1>5, <1>6, <1>7, <1>8, <1>9, <1>10, <1>11, <1>12, <1>13, <1>14
  DEF Next

\* The invariant implies what the runs check.
LEMMA FeedImplies ==
    FeedInv => /\ FeedTypeOK /\ OneStreamPerTab /\ StandsDownForAStream
               /\ SettledStates = {"done"} => SettledOnce
<1> SUFFICES ASSUME FeedInv
             PROVE  /\ FeedTypeOK /\ OneStreamPerTab /\ StandsDownForAStream
                    /\ SettledStates = {"done"} => SettledOnce
  OBVIOUS
<1>0. ServerInv /\ ChanInv /\ StreamInv /\ ShownInv /\ TrackerInv
  BY DEF FeedInv
<1>1. OneStreamPerTab
  BY <1>0 DEF StreamInv, OneStreamPerTab
<1>2. StandsDownForAStream
  <2>1. ASSUME trk.covering PROVE streams = 1 /\ snapshot.source = "sse"
    <3>1. trk.on
      BY <1>0, <2>1 DEF TrackerInv, Idle
    <3>2. Covering(snapshot)
      BY <1>0, <2>1, <3>1 DEF TrackerInv
    <3> QED
      BY <1>0, <3>2 DEF ShownInv, Covering
  <2> QED
    BY <2>1 DEF StandsDownForAStream
<1>3. SettledStates = {"done"} => SettledOnce
  BY <1>0 DEF TrackerInv, SettledOnce
<1>4. FeedTypeOK
  <2>1. job \in Jobs /\ bus \subseteq Jobs /\ fresh \in BOOLEAN
        /\ cache \in {j \in Jobs : ~isTerminal(j.state)} \cup {NoJob, NoSnap}
    BY <1>0 DEF ServerInv, Known
  <2>2. Len(chan) <= MaxChan + 1 /\ \A i \in DOMAIN chan : chan[i].job \in Jobs \cup {NoJob}
    <3>1. chan \in Seq(Frames) /\ Len(chan) <= MaxChan + 1
      BY <1>0 DEF ChanInv
    <3>2. \A i \in DOMAIN chan : chan[i] \in Frames
      BY <3>1
    <3> QED
      BY <3>1, <3>2 DEF Frames, Heard, Known
  <2>3. link \in {"none", "joining", "up", "dead", "refused"}
    BY <1>0 DEF StreamInv
  <2>4. refs \in 0..MaxMounts /\ streams \in 0..MaxMounts /\ orphans \in 0..MaxMounts
    <3>1. /\ refs \in Nat /\ streams \in {0, 1} /\ orphans \in Nat /\ mounts \in Nat
          /\ MaxMounts \in Nat /\ mounts <= MaxMounts
          /\ refs <= mounts /\ orphans <= mounts
          /\ refs = 0 => streams = 0
      BY <1>0, FeedAssumption DEF StreamInv
    <3>2. refs \in 0..MaxMounts /\ orphans \in 0..MaxMounts
      BY <3>1
    <3>3. streams <= refs
      BY <3>1
    <3> QED
      BY <3>1, <3>2, <3>3
  <2>5. {timer, quiet, silent} \subseteq BOOLEAN
    BY <1>0 DEF StreamInv
  <2>6. snapshot.job \in Jobs \cup {NoJob} /\ snapshot.source \in {"sse", "poll"}
    BY <1>0 DEF ShownInv, Snapshots, Heard, Known
  <2>7. /\ trk.job \in Jobs \cup {NoJob} /\ Len(trk.gets) <= MaxGets
        /\ trk.notify \in {"null", "pending", "fired"} /\ fired \in Nat
    BY <1>0 DEF TrackerInv, Trackers, Heard, Known
  <2> QED
    BY <2>1, <2>2, <2>3, <2>4, <2>5, <2>6, <2>7 DEF FeedTypeOK
<1> QED
  BY <1>1, <1>2, <1>3, <1>4

\* Every variable keeps to its kind, and the broker's active set to jobs that have not ended.
THEOREM FeedTypeCorrect == Spec => []FeedTypeOK
<1>1. Init => FeedInv
  BY FeedInit
<1>2. FeedInv /\ [Next]_vars => FeedInv'
  BY FeedStep
<1>3. FeedInv => FeedTypeOK
  BY FeedImplies
<1> QED
  BY <1>1, <1>2, <1>3, PTL DEF Spec

\* The tab holds one stream at most, none that nobody listens to, and whoever has none has a
\* reconnect coming, whatever leaks (useJobsEvents.ts:10-16, 99-116).
THEOREM TabHoldsOneStream == Spec => []OneStreamPerTab
<1>1. Init => FeedInv
  BY FeedInit
<1>2. FeedInv /\ [Next]_vars => FeedInv'
  BY FeedStep
<1>3. FeedInv => OneStreamPerTab
  BY FeedImplies
<1> QED
  BY <1>1, <1>2, <1>3, PTL DEF Spec

\* The poll stands down for an open stream only (useJobProgress.ts:106-130).
THEOREM PollStandsDown == Spec => []StandsDownForAStream
<1>1. Init => FeedInv
  BY FeedInit
<1>2. FeedInv /\ [Next]_vars => FeedInv'
  BY FeedStep
<1>3. FeedInv => StandsDownForAStream
  BY FeedImplies
<1> QED
  BY <1>1, <1>2, <1>3, PTL DEF Spec

\* Where settled means ended, the default of useJobProgress: the end is told once, and only
\* once the job has really ended (useJobProgress.ts:13-15).
THEOREM EndIsToldOnce == SettledStates = {"done"} /\ Spec => []SettledOnce
<1> SUFFICES ASSUME SettledStates = {"done"} PROVE Spec => []SettledOnce
  OBVIOUS
<1>1. Init => FeedInv
  BY FeedInit
<1>2. FeedInv /\ [Next]_vars => FeedInv'
  BY FeedStep
<1>3. FeedInv => SettledOnce
  BY FeedImplies
<1> QED
  BY <1>1, <1>2, <1>3, PTL DEF Spec

\* A job shown as ended stays so while the tracker is mounted (useJobProgress.ts:76-86).
THEOREM EndIsNotTakenBack == Spec => EndStays
<1> DEFINE Ended(t) == t.job # NoJob /\ isTerminal(t.job.state)
           Stays == trk.on /\ trk'.on /\ Ended(trk) => isTerminal(trk'.job.state)
<1>1. Init => FeedInv
  BY FeedInit
<1>2. FeedInv /\ [Next]_vars => FeedInv'
  BY FeedStep
<1>3. ASSUME FeedInv, Next
      PROVE  Stays
  <2>0. trk \in Trackers /\ ServerInv /\ ShownInv /\ ChanInv
    BY <1>3 DEF FeedInv, TrackerInv
  <2>1. CASE trk'.job = trk.job
    BY <2>1
  <2>2. ASSUME NEW s \in Snapshots, NEW heard \in BOOLEAN, heard => s.job \in Known, Render(s, heard)
        PROVE  Stays
    <3> DEFINE t == IF trk.on /\ heard THEN observe(trk, s.job) ELSE trk
    <3>1. trk' = Effect(t, s)
      BY <2>2 DEF Render
    <3>2. t \in Trackers /\ (Ended(trk) => Ended(t))
      <4>1. CASE trk.on /\ heard
        BY <2>0, <2>2, <4>1, ObserveType
      <4>2. CASE ~(trk.on /\ heard)
        BY <2>0, <4>2
      <4> QED
        BY <4>1, <4>2
    <3> HIDE DEF t
    <3>3. trk'.job = t.job
      BY <2>2, <3>1, <3>2, EffectType
    <3> QED
      BY <3>2, <3>3
  <2>3. CASE onerror \/ watchdogCheck
    <3>1. Render([snapshot EXCEPT !.source = "poll"], FALSE)
      BY <2>3 DEF onerror, watchdogCheck, Demote
    <3>2. [snapshot EXCEPT !.source = "poll"] \in Snapshots
      BY <2>0 DEF ShownInv, Snapshots
    <3> QED
      BY <2>2, <3>1, <3>2
  <2>4. CASE onJobs
    <3> DEFINE j == Head(chan).job
               cur == snapshot.job
               taken == j # NoJob /\ ~(cur # NoJob /\ isTerminal(cur.state) /\ ~isTerminal(j.state))
               s == [job |-> IF taken THEN j ELSE cur, source |-> "sse"]
    <3>1. Render(s, taken) /\ chan # << >> /\ chan \in Seq(Frames)
      BY <2>0, <2>4 DEF onJobs, ChanInv
    <3>2. Head(chan) \in Frames
      BY <3>1
    <3>3. j \in Heard /\ cur \in Heard
      BY <2>0, <3>2 DEF Frames, ShownInv, Snapshots
    <3>4. taken \in BOOLEAN /\ s \in Snapshots /\ (taken => s.job \in Known)
      <4> HIDE DEF j, cur
      <4>1. taken \in BOOLEAN /\ (taken => j # NoJob)
        OBVIOUS
      <4> HIDE DEF taken
      <4> QED
        BY <3>3, <4>1 DEF Heard, Snapshots
    <3> HIDE DEF s, taken
    <3> QED
      BY <2>2, <3>1, <3>4
  <2>5. CASE Attach \/ Detach
    <3>1. ~trk.on \/ trk' = Idle
      BY <2>5 DEF Attach, Detach
    <3> QED
      BY <3>1 DEF Idle
  <2>6. CASE Poll \/ Asked \/ \E i \in DOMAIN trk.gets : FetchFails(i)
    <3>1. trk'.job = trk.job
      BY <2>0, <2>6 DEF Poll, Asked, Serve, FetchFails, Trackers
    <3> QED
      BY <2>1, <3>1
  <2>7. ASSUME NEW i \in DOMAIN trk.gets, fetchNow(i)
        PROVE  Stays
    <3> DEFINE j == trk.gets[i]
               o == observe(trk, j)
               g == RemoveAt(o.gets, i)
               t == [o EXCEPT !.gets = g]
    <3>1. trk' = Effect(t, snapshot) /\ j # NoJob /\ trk.gets \in Seq(Heard)
      BY <2>0, <2>7 DEF fetchNow, Trackers
    <3>2. j \in Known
      BY <3>1 DEF Heard
    <3>3. o \in Trackers /\ o.gets = trk.gets /\ (Ended(trk) => Ended(o))
      BY <2>0, <3>2, ObserveType
    <3>4. g \in Seq(Heard)
      BY <3>1, <3>3, SeqLess
    <3> HIDE DEF o, g
    <3>5. t \in Trackers /\ t.job = o.job
      BY <3>3, <3>4 DEF Trackers
    <3> HIDE DEF t
    <3>6. trk'.job = t.job
      BY <2>0, <3>1, <3>5, EffectType DEF ShownInv
    <3> QED
      BY <3>3, <3>5, <3>6
  <2>8. CASE \/ \E s \in States : Write(s)
             \/ \E e \in bus : Lost(e) \/ Relay(e)
             \/ RelayOther \/ Join \/ Expire \/ Reconnect
             \/ HalfOpen \/ GrowSilent \/ GrowQuiet \/ OpenOps \/ CloseOps
    <3>1. trk' = trk
      BY <2>8 DEF Write, Lost, Relay, RelayOther, Join, Expire, Reconnect, HalfOpen, GrowSilent,
         GrowQuiet, OpenOps, CloseOps
    <3> QED
      BY <2>1, <3>1
  <2> HIDE DEF Stays
  <2> QED
    BY <1>3, <2>3, <2>4, <2>5, <2>6, <2>7, <2>8 DEF Next, Answered
<1>4. FeedInv /\ [Next]_vars
      => [trk.on /\ trk'.on /\ trk.job # NoJob /\ isTerminal(trk.job.state)
          => isTerminal(trk'.job.state)]_vars
  BY <1>3
<1> QED
  BY <1>1, <1>2, <1>4, PTL DEF Spec, EndStays
===============================================================================
