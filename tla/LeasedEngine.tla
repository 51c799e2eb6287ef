---------------------------- MODULE LeasedEngine ----------------------------
(***************************************************************************)
(* A process that competes for a singleton role: the stats sweeper, the    *)
(* error-signature indexer or the hygiene scheduler.  The three engines    *)
(* share this life cycle line for line: a lease loop that acquires or      *)
(* renews the lease and keeps the outcome in two atomics, "holding" and    *)
(* "token"; a work loop that looks at "holding", loads "token" and writes  *)
(* batches under it through Exec; StandDown after a refused batch; Stop.   *)
(*                                                                         *)
(* The two loops run concurrently, and other processes run against the     *)
(* same Redis, so every load, store and script call is a step of its own.  *)
(* In the model a token is the number of the claim that minted it; tokens  *)
(* are compared by value (two claims have the same token only when Redis   *)
(* lost the first of them).  The call of a renewal that succeeds and of an *)
(* acquisition that is refused change nothing and have no action.          *)
(***************************************************************************)
EXTENDS LeaseFence

CONSTANTS
    Engines,         \* which of the three engines the role may be
    BatchesOf,       \* bound: fenced batches of one tick of an engine's work loop
    ChunksOf,        \* bound: Exec chunks of one of its batches
    FaultsOf         \* bound: Redis calls of an engine that answer with an error

ASSUME EngineAssumption ==
    /\ Engines \subseteq {"stats", "errsig", "hygiene"}
    /\ BatchesOf \in [Engines -> Nat \ {0}]
    /\ ChunksOf \in [Engines -> Nat \ {0}]
    /\ FaultsOf \in [Engines -> Nat]

VARIABLES
    engine,    \* the engine of the role; it never changes
    mode,      \* "off" (not started, or stopped), "on", "stopping", "dead"
    holding,   \* the atomic flag "this replica holds the lease"
    token,     \* the atomic fencing token (0: none)
    tick,      \* where the lease loop is
    won,       \* the claim the acquire script just answered with
    loop,      \* where the work loop is
    wtoken,    \* the token the running batch is written under
    batch,     \* the running batch of the tick
    chunk,     \* the next chunk of the batch
    refused,   \* history: the claims whose chunks Redis refused, per instance
    faults,    \* how many calls answered with an error
    lapsed     \* history: the flag went down since the running tick found it set

procVars == <<engine, mode, holding, token, tick, won, loop, wtoken, batch, chunk, refused, faults>>
engineVars == <<fenceVars, procVars, lapsed>>

Batches == BatchesOf[engine]
Chunks == ChunksOf[engine]
Faults == FaultsOf[engine]

\* The indexer loads the token anew for each of its feeders, and a refused
\* feeder does not end the tick.
PerFeeder == engine = "errsig"

\* Only the stats engine has something to write before it releases the lease.
FlushesOnStop == engine = "stats"

\* The instances whose goroutines run.
Runs(i) == mode[i] \in {"on", "stopping"}

\* A call answered with an error: a fault, or the cancellation of its context.
CallFails(i) ==
    \/ mode[i] = "stopping" /\ UNCHANGED faults
    \/ mode[i] = "on" /\ faults < Faults /\ faults' = faults + 1

\* The work loop is in the middle of a tick.
Busy(i) == loop[i] \notin {"idle", "exit"}
RecordLapse(i) ==
    lapsed' = [lapsed EXCEPT ![i] =
                   Busy(i) /\ Busy(i)' /\ (@ \/ (holding[i] /\ ~holding'[i]))]

SameToken(c, d) ==
    IF c = 0 \/ d = 0 THEN c = d ELSE grants[c].tok = grants[d].tok

EngineInit ==
    /\ Init
    /\ engine \in Engines
    /\ mode = [i \in Instances |-> "off"]
    /\ holding = [i \in Instances |-> FALSE]
    /\ token = [i \in Instances |-> 0]
    /\ tick = [i \in Instances |-> "exit"]
    /\ won = [i \in Instances |-> 0]
    /\ loop = [i \in Instances |-> "exit"]
    /\ wtoken = [i \in Instances |-> 0]
    /\ batch = [i \in Instances |-> 1]
    /\ chunk = [i \in Instances |-> 1]
    /\ refused = [i \in Instances |-> {}]
    /\ faults = 0
    /\ lapsed = [i \in Instances |-> FALSE]

-----------------------------------------------------------------------------
(* Start, Stop, a crash.  Only New starts an engine and only Close stops  *)
(* it (handler.go), so no Start is modelled while a Stop waits.            *)

Start(i) ==
    /\ mode[i] = "off"
    /\ mode' = [mode EXCEPT ![i] = "on"]
    /\ tick' = [tick EXCEPT ![i] = "idle"]
    /\ loop' = [loop EXCEPT ![i] = "idle"]
    /\ UNCHANGED <<fenceVars, holding, token, won, wtoken, batch, chunk, refused, faults>>

\* Stop cancels the context of both loops and waits for them.
Stop(i) ==
    /\ mode[i] = "on"
    /\ mode' = [mode EXCEPT ![i] = "stopping"]
    /\ UNCHANGED <<fenceVars, holding, token, tick, won, loop, wtoken, batch, chunk, refused, faults>>

\* Both goroutines of a stopping engine are gone.
Joined(i) == mode[i] = "stopping" /\ tick[i] = "exit" /\ loop[i] = "exit"

\* Stop's flush of what the sampler buffers, under the token, before the
\* release.  One that fails is logged: no step.
FlushOnStop(i) ==
    /\ FlushesOnStop
    /\ Joined(i)
    /\ holding[i]
    /\ token[i] # 0
    /\ ExecScript(token[i])
    /\ UNCHANGED <<now, copy, losses, grants, procVars>>

\* The rest of Stop: a holder releases (a release that fails is logged) and
\* forgets the lease; anybody else just returns.
StopReturns(i) ==
    /\ Joined(i)
    /\ IF holding[i]
         THEN \/ ReleaseScript(i) /\ UNCHANGED faults
              \/ UNCHANGED redis /\ faults < Faults /\ faults' = faults + 1
         ELSE UNCHANGED <<redis, faults>>
    /\ token' = [token EXCEPT ![i] = IF holding[i] THEN 0 ELSE @]
    /\ holding' = [holding EXCEPT ![i] = FALSE]
    /\ mode' = [mode EXCEPT ![i] = "off"]
    /\ UNCHANGED <<now, copy, losses, grants, tick, won, loop, wtoken, batch, chunk, refused>>

\* The process dies and its memory with it; a restarted one has another
\* instance ID.
Crash(i) ==
    /\ mode[i] # "dead"
    /\ mode' = [mode EXCEPT ![i] = "dead"]
    /\ holding' = [holding EXCEPT ![i] = FALSE]
    /\ token' = [token EXCEPT ![i] = 0]
    /\ tick' = [tick EXCEPT ![i] = "exit"]
    /\ won' = [won EXCEPT ![i] = 0]
    /\ loop' = [loop EXCEPT ![i] = "exit"]
    /\ wtoken' = [wtoken EXCEPT ![i] = 0]
    /\ batch' = [batch EXCEPT ![i] = 1]
    /\ chunk' = [chunk EXCEPT ![i] = 1]
    /\ refused' = [refused EXCEPT ![i] = {}]
    /\ UNCHANGED <<fenceVars, faults>>

-----------------------------------------------------------------------------
(* leaseTick *)

Goto(pc, i, to) == pc' = [pc EXCEPT ![i] = to]

\* The renewal answers that the lease is lost, or answers with an error.
RenewFails(i) ==
    /\ Runs(i)
    /\ tick[i] = "idle"
    /\ holding[i]
    /\ Goto(tick, i, "lost")
    /\ \/ ~RenewScript(i) /\ UNCHANGED faults
       \/ CallFails(i)
    /\ UNCHANGED <<fenceVars, mode, holding, token, won, loop, wtoken, batch, chunk, refused>>

\* Mutants: the token is forgotten first; the flag is not cleared.
DropTokenFirst(i) ==
    /\ Runs(i)
    /\ tick[i] = "lost"
    /\ token' = [token EXCEPT ![i] = 0]
    /\ Goto(tick, i, "dropped")
    /\ UNCHANGED <<fenceVars, mode, holding, won, loop, wtoken, batch, chunk, refused, faults>>

KeepHolding(i) ==
    /\ Runs(i)
    /\ tick[i] = "lost"
    /\ Goto(tick, i, "dropped")
    /\ UNCHANGED <<fenceVars, mode, holding, token, won, loop, wtoken, batch, chunk, refused, faults>>

DropHolding(i) ==
    /\ Runs(i)
    /\ tick[i] = "lost"
    /\ holding' = [holding EXCEPT ![i] = FALSE]
    /\ Goto(tick, i, "dropped")
    /\ UNCHANGED <<fenceVars, mode, token, won, loop, wtoken, batch, chunk, refused, faults>>

DropToken(i) ==
    /\ Runs(i)
    /\ tick[i] = "dropped"
    /\ token' = [token EXCEPT ![i] = 0]
    /\ Goto(tick, i, "idle")
    /\ UNCHANGED <<fenceVars, mode, holding, won, loop, wtoken, batch, chunk, refused, faults>>

\* The acquire script grants the lease.  The caller learns of it unless the
\* answer is lost or holds a sequence ParseToken refuses.
TryAcquire(i) ==
    /\ Runs(i)
    /\ tick[i] = "idle"
    /\ ~holding[i]
    /\ Len(grants) < MaxClaims
    /\ AcquireScript(i)
    /\ \/ /\ Parses(Minted)
          /\ Goto(tick, i, "won")
          /\ won' = [won EXCEPT ![i] = Len(grants')]
          /\ UNCHANGED faults
       \/ /\ CallFails(i) \/ (~Parses(Minted) /\ UNCHANGED faults)
          /\ UNCHANGED <<tick, won>>
    /\ UNCHANGED <<now, copy, losses, mode, holding, token, loop, wtoken, batch, chunk, refused>>

StoreToken(i) ==
    /\ Runs(i)
    /\ tick[i] = "won"
    /\ token' = [token EXCEPT ![i] = won[i]]
    /\ Goto(tick, i, "stored")
    /\ UNCHANGED <<fenceVars, mode, holding, won, loop, wtoken, batch, chunk, refused, faults>>

\* (The kick that wakes the work loop is a tick of that loop, always possible.)
StoreHolding(i) ==
    /\ Runs(i)
    /\ tick[i] = "stored"
    /\ holding' = [holding EXCEPT ![i] = TRUE]
    /\ Goto(tick, i, "idle")
    /\ UNCHANGED <<fenceVars, mode, token, won, loop, wtoken, batch, chunk, refused, faults>>

LeaseLoopExits(i) ==
    /\ mode[i] = "stopping"
    /\ tick[i] = "idle"
    /\ Goto(tick, i, "exit")
    /\ UNCHANGED <<fenceVars, mode, holding, token, won, loop, wtoken, batch, chunk, refused, faults>>

-----------------------------------------------------------------------------
(* The work loop *)

EndTick(i) ==
    /\ batch' = [batch EXCEPT ![i] = 1]
    /\ wtoken' = [wtoken EXCEPT ![i] = 0]
    /\ Goto(loop, i, "idle")

\* Mutant: one batch too many.
NextBatchOffByOne(i) ==
    IF batch[i] <= Batches
      THEN /\ batch' = [batch EXCEPT ![i] = @ + 1]
           /\ Goto(loop, i, IF PerFeeder THEN "ready" ELSE "write")
           /\ UNCHANGED wtoken
      ELSE EndTick(i)

\* The batch is over: the next one of the tick, or the end of the tick.  The
\* indexer's second feeder runs when SampleInterval has passed since its last
\* run, which may be now or not.
NextBatch(i) ==
    \/ /\ batch[i] < Batches
       /\ batch' = [batch EXCEPT ![i] = @ + 1]
       /\ IF PerFeeder
            THEN Goto(loop, i, "ready") /\ wtoken' = [wtoken EXCEPT ![i] = 0]
            ELSE Goto(loop, i, "write") /\ UNCHANGED wtoken
    \/ /\ batch[i] < Batches => PerFeeder
       /\ EndTick(i)

\* After a refused batch: the next feeder, or the end of the tick.
AfterRefusal(i) == IF PerFeeder THEN NextBatch(i) ELSE EndTick(i)

\* Mutant: the loop does not look at the flag.
CheckNothing(i) ==
    /\ mode[i] = "on"
    /\ loop[i] = "idle"
    /\ Goto(loop, i, "ready")
    /\ UNCHANGED <<fenceVars, mode, holding, token, tick, won, wtoken, batch, chunk, refused, faults>>

\* The loop wakes and finds that it holds the lease.
CheckHolding(i) ==
    /\ mode[i] = "on"
    /\ loop[i] = "idle"
    /\ holding[i]
    /\ Goto(loop, i, "ready")
    /\ UNCHANGED <<fenceVars, mode, holding, token, tick, won, wtoken, batch, chunk, refused, faults>>

\* The token the writes are made under; what the batch writes is read after.
LoadToken(i) ==
    /\ Runs(i)
    /\ loop[i] = "ready"
    /\ wtoken' = [wtoken EXCEPT ![i] = token[i]]
    /\ Goto(loop, i, "write")
    /\ UNCHANGED <<fenceVars, mode, holding, token, tick, won, batch, chunk, refused, faults>>

\* A chunk Exec applies; after the last one the batch is over.
WriteChunk(i) ==
    /\ Runs(i)
    /\ loop[i] = "write"
    /\ wtoken[i] # 0
    /\ ExecScript(wtoken[i])
    /\ IF chunk[i] < Chunks
         THEN /\ chunk' = [chunk EXCEPT ![i] = @ + 1]
              /\ UNCHANGED <<batch, loop, wtoken>>
         ELSE /\ chunk' = [chunk EXCEPT ![i] = 1]
              /\ NextBatch(i)
    /\ UNCHANGED <<now, copy, losses, grants, mode, holding, token, tick, won, refused, faults>>

\* A chunk Exec refuses; the rest of the batch is not sent.
ChunkRefused(i) ==
    /\ Runs(i)
    /\ loop[i] = "write"
    /\ wtoken[i] # 0
    /\ ~ExecAdmits(wtoken[i])
    /\ refused' = [refused EXCEPT ![i] = @ \cup {wtoken[i]}]
    /\ chunk' = [chunk EXCEPT ![i] = 1]
    /\ Goto(loop, i, "refused")
    /\ UNCHANGED <<fenceVars, mode, holding, token, tick, won, wtoken, batch, faults>>

\* Token 0: Exec sends the batch as a plain pipeline.
WriteUnfenced(i) ==
    /\ Runs(i)
    /\ loop[i] = "write"
    /\ wtoken[i] = 0
    /\ NextBatch(i)
    /\ UNCHANGED <<fenceVars, mode, holding, token, tick, won, chunk, refused, faults>>

\* A read of the batch, or the Exec of a chunk, answers with an error; the
\* chunk may have been applied all the same.
BatchFails(i) ==
    /\ Runs(i)
    /\ loop[i] = "write"
    /\ CallFails(i)
    /\ \/ UNCHANGED redis
       \/ wtoken[i] # 0 /\ ExecScript(wtoken[i])
    /\ chunk' = [chunk EXCEPT ![i] = 1]
    /\ NextBatch(i)
    /\ UNCHANGED <<now, copy, losses, grants, mode, holding, token, tick, won, refused>>

\* Mutant: the flag is cleared and the refused token kept.
StandDownKeepsToken(i) ==
    /\ Runs(i)
    /\ loop[i] = "refused"
    /\ IF SameToken(token[i], wtoken[i])
         THEN Goto(loop, i, "clearing") /\ UNCHANGED <<batch, wtoken>>
         ELSE AfterRefusal(i)
    /\ UNCHANGED <<fenceVars, mode, holding, token, tick, won, chunk, refused, faults>>

\* StandDown, first half: forget the token if it is still the refused one.
StandDown(i) ==
    /\ Runs(i)
    /\ loop[i] = "refused"
    /\ IF SameToken(token[i], wtoken[i])
         THEN /\ token' = [token EXCEPT ![i] = 0]
              /\ Goto(loop, i, "clearing")
              /\ UNCHANGED <<batch, wtoken>>
         ELSE AfterRefusal(i) /\ UNCHANGED token
    /\ UNCHANGED <<fenceVars, mode, holding, tick, won, chunk, refused, faults>>

\* StandDown, second half.
ClearHolding(i) ==
    /\ Runs(i)
    /\ loop[i] = "clearing"
    /\ holding' = [holding EXCEPT ![i] = FALSE]
    /\ AfterRefusal(i)
    /\ UNCHANGED <<fenceVars, mode, token, tick, won, chunk, refused, faults>>

WorkLoopExits(i) ==
    /\ mode[i] = "stopping"
    /\ loop[i] = "idle"
    /\ Goto(loop, i, "exit")
    /\ UNCHANGED <<fenceVars, mode, holding, token, tick, won, wtoken, batch, chunk, refused, faults>>

-----------------------------------------------------------------------------
LeaseLoop(i) ==
    /\ UNCHANGED engine
    /\ \/ RenewFails(i) \/ DropHolding(i) \/ DropToken(i)
       \/ TryAcquire(i) \/ StoreToken(i) \/ StoreHolding(i)
       \/ LeaseLoopExits(i)
    /\ RecordLapse(i)

WorkLoop(i) ==
    /\ UNCHANGED engine
    /\ \/ CheckHolding(i) \/ LoadToken(i)
       \/ WriteChunk(i) \/ ChunkRefused(i) \/ WriteUnfenced(i) \/ BatchFails(i)
       \/ StandDown(i) \/ ClearHolding(i)
       \/ WorkLoopExits(i)
    /\ RecordLapse(i)

LifeCycle(i) ==
    /\ UNCHANGED engine
    /\ Start(i) \/ Stop(i) \/ FlushOnStop(i) \/ StopReturns(i) \/ Crash(i)
    /\ RecordLapse(i)

Redis == Environment /\ UNCHANGED <<procVars, lapsed>>

EngineNext ==
    \/ \E i \in Instances : LeaseLoop(i) \/ WorkLoop(i) \/ LifeCycle(i)
    \/ Redis

EngineSafety == EngineInit /\ [][EngineNext]_engineVars

\* The TTL runs out on a lease that no running process renews.
ExpireAbandoned ==
    /\ lock # NoOne /\ ~(Runs(lock) /\ holding[lock])
    /\ Expire /\ UNCHANGED <<procVars, lapsed>>

\* The goroutines of a live process keep running (tickers), and Redis keeps
\* its TTLs.  Nothing makes a process start, stop, fail or lose its lease.
EngineSpec ==
    /\ EngineSafety
    /\ \A i \in Instances : WF_engineVars(LeaseLoop(i)) /\ WF_engineVars(WorkLoop(i))
    /\ \A i \in Instances : WF_engineVars(StopReturns(i) /\ UNCHANGED engine /\ RecordLapse(i))
    /\ WF_engineVars(ExpireAbandoned)

-----------------------------------------------------------------------------
(* Properties *)

\* The type invariant.
EngineTypeOK ==
    /\ FenceTypeOK
    /\ engine \in Engines
    /\ mode \in [Instances -> {"off", "on", "stopping", "dead"}]
    /\ holding \in [Instances -> BOOLEAN]
    /\ token \in [Instances -> 0..Len(grants)]
    /\ tick \in [Instances -> {"idle", "lost", "dropped", "won", "stored", "exit"}]
    /\ won \in [Instances -> 0..Len(grants)]
    /\ loop \in [Instances -> {"idle", "ready", "write", "refused", "clearing", "exit"}]
    /\ wtoken \in [Instances -> 0..Len(grants)]
    /\ batch \in [Instances -> 1..Batches]
    /\ chunk \in [Instances -> 1..Chunks]
    /\ refused \in [Instances -> SUBSET (1..Len(grants))]
    /\ faults \in 0..Faults
    /\ lapsed \in [Instances -> BOOLEAN]

\* An engine that believes it holds the lease has a token to write under: the
\* order of the stores of leaseTick (token before holding on the way in, after
\* it on the way out) keeps a work loop that starts a tick from finding token
\* 0.  The exception is a claim that was refused before leaseTick finished
\* recording it: leaseTick then stores "holding" over a StandDown that ran in
\* between, and until its next renewal the replica works without a token.
TokenlessHolderWasRefused ==
    \A i \in Instances :
        holding[i] /\ Runs(i) /\ token[i] = 0 => won[i] \in refused[i]

\* Once Redis refused a claim, the instance starts no later batch under it:
\* it re-contends "instead of retrying doomed writes" (standDown's comment).
RefusedClaimIsDropped ==
    [][\A i \in Instances : LoadToken(i) => wtoken'[i] \notin refused[i]]_engineVars

\* Exec writes without a fence under token 0, which is meant for the *Now calls
\* off the lease (leasefence.go:309-323).  A work loop gets there only in a tick
\* that lost the lease after it found the flag set, or under a claim that was
\* refused: its two reads, of the flag and then of the token, are not one step,
\* and a feeder that starts late reads the token anew.
UnfencedOnlyAfterLapse ==
    \A i \in Instances :
        loop[i] = "write" /\ wtoken[i] = 0 => lapsed[i] \/ won[i] \in refused[i]

\* What the engines do to the keys of the role is what the lease protocol
\* allows.  (A batch under token 0 touches none of them: see above.)
ObeysFence == Spec

\* As long as one replica stays up, the role does not stay without a holder
\* that works, whoever else starts, stops or dies with the lease (unless nobody
\* can claim it: the model ran out of claims and the lease is free).
Covered == \E i \in Instances : mode[i] = "on" /\ lock = i /\ holding[i] /\ token[i] # 0
RoleIsTakenOver ==
    (\E i \in Instances : <>[](mode[i] = "on")) => []<>(Covered \/ (Len(grants) = MaxClaims /\ lock = NoOne))
=============================================================================
