------------------------- MODULE LeasedEngine_proofs -------------------------
(***************************************************************************)
(* Proofs about LeasedEngine, for every number of replicas, batches,       *)
(* chunks, claims, losses and failed calls.                                *)
(*   - An engine presents only tokens it was granted and that Go could     *)
(*     parse, so whatever its two loops do to Redis is a step of           *)
(*     LeaseFence, and what LeaseFence_proofs shows of the most general    *)
(*     client holds of the engines.                                        *)
(*   - A refused claim is dropped, and a holder without a token is one     *)
(*     whose claim was refused.                                            *)
(***************************************************************************)
EXTENDS LeasedEngine, LeaseFence_proofs

\* A claim number an engine keeps is 0 or a claim whose token it parsed.
Held(c) == c # 0 => c \in Claims /\ Parses(grants[c].tok)

\* What the engines keep and will present.
Presentable ==
    \A i \in Instances : Held(won[i]) /\ Held(token[i]) /\ Held(wtoken[i])

\* The inductive invariant.
EngineInv == EngineTypeOK /\ Presentable

-----------------------------------------------------------------------------
(* A step of an engine is a step of the lease protocol *)

\* A chunk that is let through is an Exec of the protocol.
LEMMA ChunkIsExec ==
    ASSUME NEW c, c # 0, Held(c), ExecScript(c), UNCHANGED <<now, copy, losses, grants>>
    PROVE  [Next]_fenceVars
BY DEF Held, Next, Exec

\* The lease loop acquires, or leaves Redis alone.
LEMMA LeaseLoopObeys ==
    ASSUME NEW i \in Instances, LeaseLoop(i)
    PROVE  [Next]_fenceVars
<1>1. CASE RenewFails(i)
  BY <1>1 DEF RenewFails
<1>2. CASE DropHolding(i) \/ DropToken(i)
  BY <1>2 DEF DropHolding, DropToken
<1>3. CASE TryAcquire(i)
  <2>1. Acquire(i)
    BY <1>3 DEF TryAcquire, Acquire
  <2> QED
    BY <2>1 DEF Next
<1>4. CASE StoreToken(i) \/ StoreHolding(i) \/ LeaseLoopExits(i)
  BY <1>4 DEF StoreToken, StoreHolding, LeaseLoopExits
<1> QED
  BY <1>1, <1>2, <1>3, <1>4 DEF LeaseLoop

\* The work loop presents a chunk, or leaves the role's keys alone.
LEMMA WorkLoopObeys ==
    ASSUME NEW i \in Instances, Presentable, WorkLoop(i)
    PROVE  [Next]_fenceVars
<1>1. Held(wtoken[i])
  BY DEF Presentable
<1>2. CASE CheckHolding(i) \/ LoadToken(i)
  BY <1>2 DEF CheckHolding, LoadToken
<1>3. CASE WriteChunk(i)
  <2>1. /\ wtoken[i] # 0
        /\ ExecScript(wtoken[i])
        /\ UNCHANGED <<now, copy, losses, grants>>
    BY <1>3 DEF WriteChunk
  <2> QED
    BY <1>1, <2>1, ChunkIsExec
<1>4. CASE ChunkRefused(i) \/ WriteUnfenced(i)
  BY <1>4 DEF ChunkRefused, WriteUnfenced
<1>5. CASE BatchFails(i)
  <2>1. UNCHANGED <<now, copy, losses, grants>>
    BY <1>5 DEF BatchFails
  <2>2. UNCHANGED redis \/ (wtoken[i] # 0 /\ ExecScript(wtoken[i]))
    BY <1>5 DEF BatchFails
  <2>3. CASE UNCHANGED redis
    BY <2>1, <2>3 DEF redis, fenceVars
  <2>4. CASE wtoken[i] # 0 /\ ExecScript(wtoken[i])
    BY <1>1, <2>1, <2>4, ChunkIsExec
  <2> QED
    BY <2>2, <2>3, <2>4
<1>6. CASE StandDown(i) \/ ClearHolding(i) \/ WorkLoopExits(i)
  BY <1>6 DEF StandDown, ClearHolding, WorkLoopExits
<1> QED
  BY <1>2, <1>3, <1>4, <1>5, <1>6 DEF WorkLoop

\* Starting, stopping and dying flush, release, or leave Redis alone.
LEMMA LifeCycleObeys ==
    ASSUME NEW i \in Instances, Presentable, LifeCycle(i)
    PROVE  [Next]_fenceVars
<1>1. CASE Start(i) \/ Stop(i) \/ Crash(i)
  BY <1>1 DEF Start, Stop, Crash
<1>2. CASE FlushOnStop(i)
  <2>1. /\ token[i] # 0
        /\ ExecScript(token[i])
        /\ UNCHANGED <<now, copy, losses, grants>>
    BY <1>2 DEF FlushOnStop
  <2> QED
    BY <2>1, ChunkIsExec DEF Presentable
<1>3. CASE StopReturns(i)
  <2>1. UNCHANGED <<now, copy, losses, grants>>
    BY <1>3 DEF StopReturns
  <2>2. ReleaseScript(i) \/ UNCHANGED redis
    BY <1>3 DEF StopReturns
  <2>3. CASE lock = i /\ ReleaseScript(i)
    BY <2>1, <2>3 DEF Next, Release
  <2>4. CASE lock # i /\ ReleaseScript(i)
    BY <2>1, <2>4 DEF ReleaseScript, fenceVars
  <2>5. CASE UNCHANGED redis
    BY <2>1, <2>5 DEF redis, fenceVars
  <2> QED
    BY <2>2, <2>3, <2>4, <2>5
<1> QED
  BY <1>1, <1>2, <1>3 DEF LifeCycle

\* Whatever an engine or Redis does is a step of the protocol.
LEMMA EngineStepObeys ==
    ASSUME Presentable, [EngineNext]_engineVars
    PROVE  [Next]_fenceVars
<1>1. CASE Redis
  BY <1>1 DEF Redis, Next
<1>2. CASE UNCHANGED engineVars
  BY <1>2 DEF engineVars
<1> QED
  BY <1>1, <1>2, LeaseLoopObeys, WorkLoopObeys, LifeCycleObeys DEF EngineNext

-----------------------------------------------------------------------------
(* What an engine keeps stays valid *)

\* Claims are only ever added.
LEMMA GrantsOnlyGrow ==
    ASSUME FenceTypeOK, [Next]_fenceVars
    PROVE  /\ Len(grants) \in Nat /\ Len(grants') \in Nat
           /\ Len(grants') >= Len(grants)
           /\ DOMAIN grants = 1..Len(grants) /\ DOMAIN grants' = 1..Len(grants')
           /\ \A c \in 1..Len(grants) : grants'[c] = grants[c]
<1> DEFINE Grant == [inst : Instances, tok : Token]
<1>1. grants \in Seq(Grant)
  BY DEF FenceTypeOK
<1>2. (\E new \in Grant : grants' = Append(grants, new)) \/ grants' = grants
  <2>1. ASSUME NEW i \in Instances, Acquire(i)
        PROVE  \E new \in Grant : grants' = Append(grants, new)
    <3>1. [inst |-> i, tok |-> Minted] \in Grant
      BY MintedToken DEF FenceTypeOK
    <3>2. grants' = Append(grants, [inst |-> i, tok |-> Minted])
      BY <2>1 DEF Acquire, AcquireScript
    <3> QED
      BY <3>1, <3>2
  <2>2. ASSUME NEW i \in Instances, Release(i)
        PROVE  grants' = grants
    BY <2>2 DEF Release
  <2>3. ASSUME NEW c \in Claims, Exec(c)
        PROVE  grants' = grants
    BY <2>3 DEF Exec
  <2>4. CASE Environment
    BY <2>4 DEF Environment, Expire, Tick, Replicate, Failover
  <2>5. CASE UNCHANGED fenceVars
    BY <2>5 DEF fenceVars
  <2> HIDE DEF Grant
  <2> QED
    BY <2>1, <2>2, <2>3, <2>4, <2>5 DEF Next
<1> HIDE DEF Grant
<1>3. CASE \E new \in Grant : grants' = Append(grants, new)
  <2>1. PICK new \in Grant : grants' = Append(grants, new)
    BY <1>3
  <2> QED
    BY <1>1, <2>1
<1>4. CASE grants' = grants
  BY <1>1, <1>4
<1> QED
  BY <1>2, <1>3, <1>4

\* The last claim has the token that was minted for it.
LEMMA MintedGranted ==
    ASSUME FenceTypeOK, NEW i \in Instances, Parses(Minted),
           grants' = Append(grants, [inst |-> i, tok |-> Minted])
    PROVE  Len(grants') \in DOMAIN grants' /\ Parses(grants'[Len(grants')].tok)
<1> DEFINE Grant == [inst : Instances, tok : Token]
           new == [inst |-> i, tok |-> Minted]
<1>1. grants \in Seq(Grant) /\ new \in Grant /\ grants' = Append(grants, new)
  BY MintedToken DEF FenceTypeOK
<1>2. Len(grants') \in DOMAIN grants' /\ grants'[Len(grants')] = new
  <2> HIDE DEF Grant, new
  <2> QED
    BY <1>1
<1> QED
  BY <1>2 DEF Parses

\* A claim an engine keeps stays one it may present.
LEMMA HeldStays ==
    ASSUME FenceTypeOK, [Next]_fenceVars, NEW c, Held(c)
    PROVE  c # 0 => c \in DOMAIN grants' /\ Parses(grants'[c].tok)
BY GrantsOnlyGrow DEF Held, Parses, Claims

-----------------------------------------------------------------------------
(* The types of an engine *)

\* The types of the engines' variables, for claims numbered up to n.
ProcTypeOK(n) ==
    /\ engine \in Engines
    /\ mode \in [Instances -> {"off", "on", "stopping", "dead"}]
    /\ holding \in [Instances -> BOOLEAN]
    /\ token \in [Instances -> 0..n]
    /\ tick \in [Instances -> {"idle", "lost", "dropped", "won", "stored", "exit"}]
    /\ won \in [Instances -> 0..n]
    /\ loop \in [Instances -> {"idle", "ready", "write", "refused", "clearing", "exit"}]
    /\ wtoken \in [Instances -> 0..n]
    /\ batch \in [Instances -> 1..Batches]
    /\ chunk \in [Instances -> 1..Chunks]
    /\ refused \in [Instances -> SUBSET (1..n)]
    /\ faults \in 0..Faults

\* A call that fails leaves the count of faults within its bound.
LEMMA CallFailsTypes ==
    ASSUME NEW i \in Instances, CallFails(i), engine \in Engines, faults \in 0..Faults
    PROVE  faults' \in 0..Faults
BY EngineAssumption DEF CallFails, Faults

\* The end of a batch keeps the work loop within its bounds.
LEMMA NextBatchTypes ==
    ASSUME NEW i \in Instances, NEW n \in Nat, ProcTypeOK(n), UNCHANGED engine, NextBatch(i)
    PROVE  /\ batch' \in [Instances -> 1..Batches']
           /\ loop' \in [Instances -> {"idle", "ready", "write", "refused", "clearing", "exit"}]
           /\ wtoken' \in [Instances -> 0..n]
<1>1. Batches \in Nat \ {0} /\ Batches' = Batches
  BY EngineAssumption DEF ProcTypeOK, Batches
<1>2. CASE ~EndTick(i)
  BY <1>1, <1>2 DEF NextBatch, ProcTypeOK, Goto
<1>3. CASE EndTick(i)
  BY <1>1, <1>3 DEF EndTick, ProcTypeOK, Goto
<1> QED
  BY <1>2, <1>3

\* So does the end of a refused batch.
LEMMA AfterRefusalTypes ==
    ASSUME NEW i \in Instances, NEW n \in Nat, ProcTypeOK(n), UNCHANGED engine, AfterRefusal(i)
    PROVE  /\ batch' \in [Instances -> 1..Batches']
           /\ loop' \in [Instances -> {"idle", "ready", "write", "refused", "clearing", "exit"}]
           /\ wtoken' \in [Instances -> 0..n]
<1>1. Batches \in Nat \ {0} /\ Batches' = Batches
  BY EngineAssumption DEF ProcTypeOK, Batches
<1>2. CASE PerFeeder
  BY <1>2, NextBatchTypes DEF AfterRefusal
<1>3. CASE ~PerFeeder
  BY <1>1, <1>3 DEF AfterRefusal, EndTick, ProcTypeOK, Goto
<1> QED
  BY <1>2, <1>3

\* The lease loop keeps the types.
LEMMA LeaseLoopTypes ==
    ASSUME NEW i \in Instances, NEW n \in Nat, ProcTypeOK(n), LeaseLoop(i), Len(grants') \in 0..n
    PROVE  ProcTypeOK(n)'
<1>0. UNCHANGED engine /\ Batches' = Batches /\ Chunks' = Chunks /\ Faults' = Faults
  BY DEF LeaseLoop, Batches, Chunks, Faults
<1> USE <1>0 DEF ProcTypeOK, Goto
<1>1. CASE RenewFails(i)
  BY <1>1, CallFailsTypes DEF RenewFails
<1>2. CASE DropHolding(i)
  BY <1>2 DEF DropHolding
<1>6. CASE DropToken(i)
  BY <1>6 DEF DropToken
<1>3. CASE TryAcquire(i)
  <2>1. PICK m \in 0..n : m = Len(grants')
    OBVIOUS
  <2>2. tick' \in {tick, [tick EXCEPT ![i] = "won"]} /\ won' \in {won, [won EXCEPT ![i] = m]}
    BY <1>3, <2>1 DEF TryAcquire
  <2>3. faults' \in 0..Faults
    BY <1>3, CallFailsTypes DEF TryAcquire
  <2>4. UNCHANGED <<mode, holding, token, loop, wtoken, batch, chunk, refused>>
    BY <1>3 DEF TryAcquire
  <2>5. tick' \in [Instances -> {"idle", "lost", "dropped", "won", "stored", "exit"}]
    BY <2>2
  <2>6. won' \in [Instances -> 0..n]
    BY <2>1, <2>2
  <2> QED
    BY <2>3, <2>4, <2>5, <2>6
<1>4. CASE StoreToken(i) \/ StoreHolding(i)
  <2>1. CASE StoreToken(i)
    BY <2>1 DEF StoreToken
  <2>2. CASE StoreHolding(i)
    BY <2>2 DEF StoreHolding
  <2> QED
    BY <1>4, <2>1, <2>2
<1>5. CASE LeaseLoopExits(i)
  BY <1>5 DEF LeaseLoopExits
<1> QED
  BY <1>1, <1>2, <1>3, <1>4, <1>5, <1>6 DEF LeaseLoop

\* The work loop keeps the types.
LEMMA WorkLoopTypes ==
    ASSUME NEW i \in Instances, NEW n \in Nat, ProcTypeOK(n), WorkLoop(i)
    PROVE  ProcTypeOK(n)'
<1>0. /\ UNCHANGED engine /\ Batches' = Batches /\ Chunks' = Chunks /\ Faults' = Faults
      /\ Chunks \in Nat \ {0}
  BY EngineAssumption DEF WorkLoop, Batches, Chunks, Faults, ProcTypeOK
<1>1. CASE CheckHolding(i) \/ LoadToken(i)
  BY <1>0, <1>1 DEF CheckHolding, LoadToken, ProcTypeOK, Goto
<1>2. CASE WriteChunk(i)
  <2>1. CASE chunk[i] < Chunks
    BY <1>0, <1>2, <2>1 DEF WriteChunk, ProcTypeOK
  <2>2. CASE ~(chunk[i] < Chunks)
    <3>1. NextBatch(i) /\ chunk' = [chunk EXCEPT ![i] = 1]
      BY <1>2, <2>2 DEF WriteChunk
    <3> QED
      BY <1>0, <1>2, <3>1, NextBatchTypes DEF WriteChunk, ProcTypeOK
  <2> QED
    BY <2>1, <2>2
<1>3. CASE ChunkRefused(i)
  BY <1>0, <1>3 DEF ChunkRefused, ProcTypeOK, Goto
<1>4. CASE WriteUnfenced(i)
  BY <1>0, <1>4, NextBatchTypes DEF WriteUnfenced, ProcTypeOK
<1>5. CASE BatchFails(i)
  BY <1>0, <1>5, NextBatchTypes, CallFailsTypes DEF BatchFails, ProcTypeOK
<1>6. CASE StandDown(i)
  <2>1. CASE SameToken(token[i], wtoken[i])
    BY <1>0, <1>6, <2>1 DEF StandDown, ProcTypeOK, Goto
  <2>2. CASE ~SameToken(token[i], wtoken[i])
    BY <1>0, <1>6, <2>2, AfterRefusalTypes DEF StandDown, ProcTypeOK
  <2> QED
    BY <2>1, <2>2
<1>7. CASE ClearHolding(i)
  BY <1>0, <1>7, AfterRefusalTypes DEF ClearHolding, ProcTypeOK
<1>8. CASE WorkLoopExits(i)
  BY <1>0, <1>8 DEF WorkLoopExits, ProcTypeOK, Goto
<1> QED
  BY <1>1, <1>2, <1>3, <1>4, <1>5, <1>6, <1>7, <1>8 DEF WorkLoop

\* Starting, stopping and dying keep the types.
LEMMA LifeCycleTypes ==
    ASSUME NEW i \in Instances, NEW n \in Nat, ProcTypeOK(n), LifeCycle(i)
    PROVE  ProcTypeOK(n)'
<1>0. /\ UNCHANGED engine /\ Batches' = Batches /\ Chunks' = Chunks /\ Faults' = Faults
      /\ Batches \in Nat \ {0} /\ Chunks \in Nat \ {0} /\ Faults \in Nat
  BY EngineAssumption DEF LifeCycle, Batches, Chunks, Faults, ProcTypeOK
<1> USE <1>0 DEF ProcTypeOK
<1>1. CASE Start(i) \/ Stop(i)
  BY <1>1 DEF Start, Stop
<1>2. CASE FlushOnStop(i)
  BY <1>2 DEF FlushOnStop, procVars
<1>3. CASE StopReturns(i)
  <2>1. faults' \in 0..Faults
    BY <1>3, EngineAssumption DEF StopReturns
  <2> QED
    BY <1>3, <2>1 DEF StopReturns
<1>4. CASE Crash(i)
  BY <1>4 DEF Crash
<1> QED
  BY <1>1, <1>2, <1>3, <1>4 DEF LifeCycle

-----------------------------------------------------------------------------
(* What an engine keeps comes from the lease *)

\* Every claim an instance keeps after a step is one it kept before, or the one
\* it just won and parsed.
KeepsClaims(j) ==
    /\ token'[j] \in {0, token[j], won[j]}
    /\ wtoken'[j] \in {0, wtoken[j], token[j]}
    /\ \/ won'[j] \in {0, won[j]}
       \/ /\ Parses(Minted)
          /\ won'[j] = Len(grants')
          /\ \E i \in Instances : grants' = Append(grants, [inst |-> i, tok |-> Minted])

\* The lease loop keeps only what it won.
LEMMA LeaseLoopKeeps ==
    ASSUME NEW i \in Instances, NEW n \in Nat, ProcTypeOK(n), LeaseLoop(i), NEW j \in Instances
    PROVE  KeepsClaims(j)
<1> USE DEF KeepsClaims, ProcTypeOK
<1>1. CASE RenewFails(i) \/ DropHolding(i) \/ StoreHolding(i) \/ LeaseLoopExits(i)
  BY <1>1 DEF RenewFails, DropHolding, StoreHolding, LeaseLoopExits
<1>2. CASE DropToken(i) \/ StoreToken(i)
  BY <1>2 DEF DropToken, StoreToken
<1>3. CASE TryAcquire(i)
  <2>1. UNCHANGED <<token, wtoken>>
    BY <1>3 DEF TryAcquire
  <2>2. CASE UNCHANGED won
    BY <2>1, <2>2
  <2>3. CASE Parses(Minted) /\ won' = [won EXCEPT ![i] = Len(grants')]
    <3>1. grants' = Append(grants, [inst |-> i, tok |-> Minted])
      BY <1>3 DEF TryAcquire, AcquireScript
    <3>2. won'[j] = won[j] \/ won'[j] = Len(grants')
      BY <2>3
    <3> QED
      BY <2>1, <2>3, <3>1, <3>2
  <2> QED
    BY <1>3, <2>2, <2>3 DEF TryAcquire
<1> QED
  BY <1>1, <1>2, <1>3 DEF LeaseLoop

\* The work loop copies the token or forgets it.
LEMMA WorkLoopKeeps ==
    ASSUME NEW i \in Instances, NEW n \in Nat, ProcTypeOK(n), WorkLoop(i), NEW j \in Instances
    PROVE  KeepsClaims(j)
<1> USE DEF KeepsClaims, ProcTypeOK
<1>1. CASE CheckHolding(i) \/ LoadToken(i) \/ ChunkRefused(i) \/ WorkLoopExits(i)
  BY <1>1 DEF CheckHolding, LoadToken, ChunkRefused, WorkLoopExits
<1>2. ASSUME NextBatch(i) \/ AfterRefusal(i) \/ UNCHANGED wtoken
      PROVE  wtoken'[j] \in {0, wtoken[j], token[j]}
  BY <1>2 DEF NextBatch, AfterRefusal, EndTick
<1>3. CASE WriteChunk(i) \/ WriteUnfenced(i) \/ BatchFails(i)
  BY <1>2, <1>3 DEF WriteChunk, WriteUnfenced, BatchFails
<1>4. CASE StandDown(i) \/ ClearHolding(i)
  BY <1>2, <1>4 DEF StandDown, ClearHolding
<1> QED
  BY <1>1, <1>3, <1>4 DEF WorkLoop

\* Starting, stopping and dying keep the claims or forget them.
LEMMA LifeCycleKeeps ==
    ASSUME NEW i \in Instances, NEW n \in Nat, ProcTypeOK(n), LifeCycle(i), NEW j \in Instances
    PROVE  KeepsClaims(j)
BY DEF LifeCycle, KeepsClaims, ProcTypeOK, Start, Stop, FlushOnStop, procVars, StopReturns, Crash

-----------------------------------------------------------------------------
(* The inductive invariant *)

\* An engine that was not started keeps no claim.
LEMMA EngineInvInit == EngineInit => EngineInv
<1> SUFFICES ASSUME EngineInit
             PROVE  EngineInv
  OBVIOUS
<1>1. FenceTypeOK
  BY TypeInit DEF EngineInit
<1>2. Len(grants) = 0
  BY DEF EngineInit, Init
<1>3. Batches \in Nat \ {0} /\ Chunks \in Nat \ {0} /\ Faults \in Nat
  BY EngineAssumption DEF EngineInit, Batches, Chunks, Faults
<1>4. EngineTypeOK
  BY <1>1, <1>2, <1>3 DEF EngineInit, EngineTypeOK
<1>5. Presentable
  BY DEF EngineInit, Presentable, Held
<1> QED
  BY <1>4, <1>5 DEF EngineInv

\* Every step of an engine and of Redis preserves it.
LEMMA EngineInvStep == EngineInv /\ [EngineNext]_engineVars => EngineInv'
<1> SUFFICES ASSUME EngineInv, [EngineNext]_engineVars
             PROVE  EngineInv'
  OBVIOUS
<1>1. FenceTypeOK /\ Presentable /\ ProcTypeOK(Len(grants))
  BY DEF EngineInv, EngineTypeOK, ProcTypeOK
<1>2. [Next]_fenceVars
  BY <1>1, EngineStepObeys
<1>3. FenceTypeOK'
  BY <1>1, <1>2, TypeStep
<1>4. PICK n \in Nat : n = Len(grants') /\ Len(grants) \in 0..n
  BY <1>1, <1>2, GrantsOnlyGrow
<1>5. ProcTypeOK(n)
  BY <1>1, <1>4 DEF ProcTypeOK
<1>6. ProcTypeOK(n)' /\ \A j \in Instances : KeepsClaims(j)
  <2>1. CASE Redis \/ UNCHANGED engineVars
    <3>1. UNCHANGED procVars
      BY <2>1 DEF Redis, engineVars
    <3>2. ProcTypeOK(n)'
      BY <1>5, <3>1 DEF procVars, ProcTypeOK, Batches, Chunks, Faults
    <3> QED
      BY <3>1, <3>2 DEF procVars, KeepsClaims
  <2>2. ASSUME NEW i \in Instances, LeaseLoop(i)
        PROVE  ProcTypeOK(n)' /\ \A j \in Instances : KeepsClaims(j)
    <3>1. Len(grants') \in 0..n
      BY <1>4
    <3> QED
      BY <1>5, <2>2, <3>1, LeaseLoopTypes, LeaseLoopKeeps
  <2>3. ASSUME NEW i \in Instances, WorkLoop(i)
        PROVE  ProcTypeOK(n)' /\ \A j \in Instances : KeepsClaims(j)
    BY <1>5, <2>3, WorkLoopTypes, WorkLoopKeeps
  <2>4. ASSUME NEW i \in Instances, LifeCycle(i)
        PROVE  ProcTypeOK(n)' /\ \A j \in Instances : KeepsClaims(j)
    BY <1>5, <2>4, LifeCycleTypes, LifeCycleKeeps
  <2> QED
    BY <2>1, <2>2, <2>3, <2>4 DEF EngineNext
<1>9. lapsed' \in [Instances -> BOOLEAN]
  <2>1. lapsed \in [Instances -> BOOLEAN]
    BY DEF EngineInv, EngineTypeOK
  <2>2. ASSUME NEW i \in Instances, RecordLapse(i)
        PROVE  lapsed' \in [Instances -> BOOLEAN]
    BY <2>1, <2>2 DEF RecordLapse, Busy
  <2> QED
    BY <2>1, <2>2 DEF EngineNext, LeaseLoop, WorkLoop, LifeCycle, Redis, engineVars
<1>7. EngineTypeOK'
  BY <1>3, <1>4, <1>6, <1>9 DEF EngineTypeOK, ProcTypeOK
<1>8. ASSUME NEW j \in Instances
      PROVE  (Held(won[j]) /\ Held(token[j]) /\ Held(wtoken[j]))'
  <2> DEFINE Ok(c) == c # 0 => c \in DOMAIN grants' /\ Parses(grants'[c].tok)
  <2>1. Ok(won[j]) /\ Ok(token[j]) /\ Ok(wtoken[j])
    BY <1>1, <1>2, HeldStays DEF Presentable
  <2>2. Ok(0)
    OBVIOUS
  <2>3. ASSUME NEW i \in Instances, Parses(Minted),
               grants' = Append(grants, [inst |-> i, tok |-> Minted])
        PROVE  Ok(Len(grants'))
    BY <1>1, <2>3, MintedGranted
  <2>4. KeepsClaims(j)
    BY <1>6
  <2>5. Ok(won'[j]) /\ Ok(token'[j]) /\ Ok(wtoken'[j])
    <3> HIDE DEF Ok
    <3> QED
      BY <2>1, <2>2, <2>3, <2>4 DEF KeepsClaims
  <2> QED
    BY <2>5 DEF Held, Claims, Parses
<1> QED
  BY <1>7, <1>8 DEF EngineInv, Presentable

\* The types of the engines' variables, whatever the two loops interleave.
THEOREM EngineTypeCorrect == EngineSafety => []EngineTypeOK
<1>1. EngineInv => EngineTypeOK
  BY DEF EngineInv
<1> QED
  BY <1>1, EngineInvInit, EngineInvStep, PTL DEF EngineSafety

\* What the engines do to the keys of the role is what the lease protocol
\* allows: a claim, a renewal, a release, or a chunk under a token.  A batch
\* without a token touches none of them; UnfencedOnlyAfterLapse is about those.
THEOREM EngineObeysFence == EngineSafety => ObeysFence
<1>1. EngineInit => Init
  BY DEF EngineInit
<1>2. EngineInv /\ [EngineNext]_engineVars => [Next]_fenceVars
  BY EngineStepObeys DEF EngineInv
<1> QED
  BY <1>1, <1>2, EngineInvInit, EngineInvStep, PTL DEF EngineSafety, ObeysFence, Spec

\* So whatever was lost, a fenced chunk of an engine is applied only for the
\* last instance that Redis remembers.
THEOREM EngineWritesAsLastOwner == EngineSafety => ExecByLastOwner
BY EngineObeysFence, OnlyLastOwnerExecutes DEF ObeysFence

\* And when Redis loses nothing, the engines of a role are together a
\* SingleWriter.
THEOREM EngineImplementsSingleWriter ==
    ASSUME MaxLosses = 0
    PROVE  EngineSafety => RoleSpec
BY EngineObeysFence, ImplementsSingleWriter DEF ObeysFence

-----------------------------------------------------------------------------
(* Refused claims *)

\* A refused claim is in use only between the refusal and StandDown, a claim that
\* was just won was neither used nor refused, and a stopped engine is idle.
RefusedIsLeaving(i) ==
    /\ token[i] \in refused[i] => loop[i] = "refused" /\ token[i] = wtoken[i]
    /\ tick[i] = "won" =>
         won[i] # 0 /\ won[i] \notin refused[i] /\ won[i] # token[i] /\ won[i] # wtoken[i]
    /\ mode[i] = "off" => loop[i] = "exit"

\* What leaseTick records is the claim it won, or StandDown took it back.
Recorded(i) ==
    /\ mode[i] = "off" \/ tick[i] \in {"won", "stored", "dropped"} => ~holding[i]
    /\ loop[i] = "refused" => wtoken[i] \in refused[i]
    /\ holding[i] \/ tick[i] \in {"won", "stored"} => won[i] # 0
    /\ holding[i] \/ tick[i] = "stored" =>
         token[i] = won[i] \/ (token[i] = 0 /\ won[i] \in refused[i])

\* Acquiring takes a number that no engine has kept or seen refused.
LEMMA WonIsFresh ==
    ASSUME EngineInv, NEW i \in Instances, TryAcquire(i)
    PROVE  \/ UNCHANGED <<tick, won>>
           \/ \E m \in Nat : /\ m > Len(grants)
                             /\ tick' = [tick EXCEPT ![i] = "won"]
                             /\ won' = [won EXCEPT ![i] = m]
<1>1. Len(grants) \in Nat /\ Len(grants') = Len(grants) + 1
  <2> DEFINE Grant == [inst : Instances, tok : Token]
             new == [inst |-> i, tok |-> Minted]
  <2>1. grants \in Seq(Grant) /\ new \in Grant
    BY MintedToken DEF EngineInv, EngineTypeOK, FenceTypeOK
  <2>2. grants' = Append(grants, new)
    BY DEF TryAcquire, AcquireScript
  <2> HIDE DEF Grant, new
  <2> QED
    BY <2>1, <2>2
<1>2. PICK m \in Nat : m = Len(grants') /\ m > Len(grants)
  BY <1>1
<1> QED
  BY <1>2 DEF TryAcquire, Goto

\* What an instance does leaves the memory of the others alone.
SameMemory(j) ==
    /\ mode'[j] = mode[j] /\ holding'[j] = holding[j] /\ token'[j] = token[j]
    /\ tick'[j] = tick[j] /\ won'[j] = won[j] /\ loop'[j] = loop[j]
    /\ wtoken'[j] = wtoken[j] /\ refused'[j] = refused[j]

\* One instance's step is a stutter of all the others.
LEMMA OthersKeepMemory ==
    ASSUME EngineTypeOK, NEW i \in Instances, NEW j \in Instances, j # i,
           LeaseLoop(i) \/ WorkLoop(i) \/ LifeCycle(i)
    PROVE  SameMemory(j)
<1> USE DEF SameMemory, EngineTypeOK, Goto
<1>1. CASE LeaseLoop(i)
  BY <1>1 DEF LeaseLoop, RenewFails, DropHolding, DropToken, TryAcquire, StoreToken,
              StoreHolding, LeaseLoopExits
<1>2. CASE WorkLoop(i)
  <2>1. CASE CheckHolding(i) \/ LoadToken(i) \/ ChunkRefused(i) \/ WorkLoopExits(i)
    BY <2>1 DEF CheckHolding, LoadToken, ChunkRefused, WorkLoopExits
  <2>2. ASSUME NextBatch(i) \/ AfterRefusal(i) \/ UNCHANGED <<loop, wtoken>>
        PROVE  loop'[j] = loop[j] /\ wtoken'[j] = wtoken[j]
    BY <2>2 DEF NextBatch, AfterRefusal, EndTick
  <2>3. CASE WriteChunk(i) \/ WriteUnfenced(i) \/ BatchFails(i)
    BY <2>2, <2>3 DEF WriteChunk, WriteUnfenced, BatchFails
  <2>4. CASE ClearHolding(i)
    BY <2>2, <2>4 DEF ClearHolding
  <2>5. CASE StandDown(i)
    BY <2>2, <2>5 DEF StandDown
  <2> QED
    BY <1>2, <2>1, <2>3, <2>4, <2>5 DEF WorkLoop
<1>3. CASE LifeCycle(i)
  BY <1>3 DEF LifeCycle, Start, Stop, FlushOnStop, procVars, StopReturns, Crash
<1> QED
  BY <1>1, <1>2, <1>3

\* The lease loop never brings a refused claim back.
LEMMA LeaseLoopLeaves ==
    ASSUME EngineInv, NEW i \in Instances, LeaseLoop(i), RefusedIsLeaving(i)
    PROVE  RefusedIsLeaving(i)'
<1>1. ProcTypeOK(Len(grants)) /\ Len(grants) \in Nat
  BY GrantTypes DEF EngineInv, EngineTypeOK, ProcTypeOK
<1> USE DEF RefusedIsLeaving, Goto
<1>2. CASE RenewFails(i) \/ DropHolding(i) \/ StoreHolding(i) \/ LeaseLoopExits(i)
  BY <1>1, <1>2 DEF RenewFails, DropHolding, StoreHolding, LeaseLoopExits, ProcTypeOK
<1>3. CASE DropToken(i) \/ StoreToken(i)
  BY <1>1, <1>3 DEF DropToken, StoreToken, ProcTypeOK
<1>4. CASE TryAcquire(i)
  <2>1. UNCHANGED <<mode, token, loop, wtoken, refused>>
    BY <1>4 DEF TryAcquire
  <2>2. CASE UNCHANGED <<tick, won>>
    BY <2>1, <2>2
  <2>3. ASSUME NEW m \in Nat, m > Len(grants),
               tick' = [tick EXCEPT ![i] = "won"], won' = [won EXCEPT ![i] = m]
        PROVE  RefusedIsLeaving(i)'
    BY <1>1, <2>1, <2>3 DEF ProcTypeOK
  <2> QED
    BY <1>4, <2>2, <2>3, WonIsFresh
<1> QED
  BY <1>2, <1>3, <1>4 DEF LeaseLoop

\* The work loop leaves a refused claim through StandDown.
LEMMA WorkLoopLeaves ==
    ASSUME EngineInv, NEW i \in Instances, WorkLoop(i), RefusedIsLeaving(i)
    PROVE  RefusedIsLeaving(i)'
<1>1. ProcTypeOK(Len(grants)) /\ Len(grants) \in Nat
  BY GrantTypes DEF EngineInv, EngineTypeOK, ProcTypeOK
<1> USE DEF RefusedIsLeaving, Goto
<1>2. CASE CheckHolding(i) \/ LoadToken(i) \/ WorkLoopExits(i)
  BY <1>1, <1>2 DEF CheckHolding, LoadToken, WorkLoopExits, ProcTypeOK
<1>5. CASE ChunkRefused(i)
  BY <1>1, <1>5 DEF ChunkRefused, ProcTypeOK
<1>3. CASE WriteChunk(i) \/ WriteUnfenced(i) \/ BatchFails(i) \/ ClearHolding(i)
  <2>1. /\ UNCHANGED <<mode, token, tick, won, refused>>
        /\ loop[i] \notin {"refused", "exit"}
    BY <1>3 DEF WriteChunk, WriteUnfenced, BatchFails, ClearHolding
  <2>2. NextBatch(i) \/ AfterRefusal(i) \/ UNCHANGED <<loop, wtoken>>
    BY <1>3 DEF WriteChunk, WriteUnfenced, BatchFails, ClearHolding
  <2> QED
    BY <1>1, <2>1, <2>2 DEF NextBatch, AfterRefusal, EndTick, ProcTypeOK
<1>4. CASE StandDown(i)
  <2>1. CASE SameToken(token[i], wtoken[i])
    BY <1>1, <1>4, <2>1 DEF StandDown, ProcTypeOK
  <2>2. CASE ~SameToken(token[i], wtoken[i])
    <3>1. token[i] # wtoken[i]
      BY <2>2 DEF SameToken
    <3> QED
      BY <1>1, <1>4, <2>2, <3>1 DEF StandDown, NextBatch, AfterRefusal, EndTick, ProcTypeOK
  <2> QED
    BY <2>1, <2>2
<1> QED
  BY <1>2, <1>3, <1>4, <1>5 DEF WorkLoop

\* So do starting, stopping and dying.
LEMMA LifeCycleLeaves ==
    ASSUME EngineInv, NEW i \in Instances, LifeCycle(i), RefusedIsLeaving(i)
    PROVE  RefusedIsLeaving(i)'
<1>1. ProcTypeOK(Len(grants)) /\ Len(grants) \in Nat
  BY GrantTypes DEF EngineInv, EngineTypeOK, ProcTypeOK
<1> USE DEF RefusedIsLeaving, ProcTypeOK
<1>2. CASE Start(i) \/ Stop(i)
  BY <1>1, <1>2 DEF Start, Stop
<1>5. CASE FlushOnStop(i)
  BY <1>1, <1>5 DEF FlushOnStop, procVars
<1>3. CASE StopReturns(i)
  <2>1. UNCHANGED <<tick, won, loop, wtoken, refused>> /\ tick[i] = "exit" /\ loop[i] = "exit"
    BY <1>3 DEF StopReturns, Joined
  <2>2. token'[i] \in {0, token[i]}
    BY <1>1, <1>3 DEF StopReturns
  <2> QED
    BY <1>1, <2>1, <2>2
<1>4. CASE Crash(i)
  BY <1>1, <1>4 DEF Crash
<1> QED
  BY <1>2, <1>3, <1>4, <1>5 DEF LifeCycle

\* No step of an engine brings a refused claim back.
LEMMA RefusedStep ==
    ASSUME EngineInv, [EngineNext]_engineVars, \A i \in Instances : RefusedIsLeaving(i)
    PROVE  \A i \in Instances : RefusedIsLeaving(i)'
<1>1. CASE Redis \/ UNCHANGED engineVars
  BY <1>1 DEF Redis, engineVars, procVars, RefusedIsLeaving
<1>2. ASSUME NEW i \in Instances, LeaseLoop(i) \/ WorkLoop(i) \/ LifeCycle(i), NEW j \in Instances
      PROVE  RefusedIsLeaving(j)'
  <2>1. CASE j = i
    BY <1>2, <2>1, LeaseLoopLeaves, WorkLoopLeaves, LifeCycleLeaves
  <2>2. CASE j # i
    <3>1. SameMemory(j)
      BY <1>2, <2>2, OthersKeepMemory DEF EngineInv
    <3> QED
      BY <3>1 DEF SameMemory, RefusedIsLeaving
  <2> QED
    BY <2>1, <2>2
<1> QED
  BY <1>1, <1>2 DEF EngineNext

\* A replica whose batch was refused starts no other batch under that claim,
\* whatever its lease loop does meanwhile and whatever Redis loses.
THEOREM RefusedClaimsAreDropped == EngineSafety => RefusedClaimIsDropped
<1> DEFINE Leaving == \A i \in Instances : RefusedIsLeaving(i)
<1>1. EngineInit => Leaving
  BY DEF EngineInit, RefusedIsLeaving
<1>2. EngineInv /\ Leaving /\ [EngineNext]_engineVars => Leaving'
  BY RefusedStep
<1>3. EngineInv /\ Leaving
        => [\A i \in Instances : LoadToken(i) => wtoken'[i] \notin refused[i]]_engineVars
  <2> SUFFICES ASSUME EngineInv, Leaving, NEW i \in Instances, LoadToken(i)
               PROVE  wtoken'[i] \notin refused[i]
    OBVIOUS
  <2>1. wtoken'[i] = token[i] /\ loop[i] = "ready"
    BY DEF LoadToken, EngineInv, EngineTypeOK
  <2> QED
    BY <2>1 DEF RefusedIsLeaving
<1> HIDE DEF Leaving
<1> QED
  BY <1>1, <1>2, <1>3, EngineInvInit, EngineInvStep, PTL DEF EngineSafety, RefusedClaimIsDropped

-----------------------------------------------------------------------------
(* A holder without a token *)

\* The lease loop records what it won, before it says that it holds the lease.
LEMMA LeaseLoopRecords ==
    ASSUME EngineInv, NEW i \in Instances, LeaseLoop(i), Recorded(i)
    PROVE  Recorded(i)'
<1>1. ProcTypeOK(Len(grants))
  BY DEF EngineInv, EngineTypeOK, ProcTypeOK
<1> USE DEF Recorded, Goto
<1>2. CASE RenewFails(i) \/ DropHolding(i) \/ LeaseLoopExits(i)
  BY <1>1, <1>2 DEF RenewFails, DropHolding, LeaseLoopExits, ProcTypeOK
<1>3. CASE DropToken(i) \/ StoreToken(i)
  BY <1>1, <1>3 DEF DropToken, StoreToken, Runs, ProcTypeOK
<1>4. CASE StoreHolding(i)
  BY <1>1, <1>4 DEF StoreHolding, Runs, ProcTypeOK
<1>5. CASE TryAcquire(i)
  <2>1. UNCHANGED <<mode, holding, token, loop, wtoken, refused>> /\ ~holding[i]
    BY <1>5 DEF TryAcquire
  <2>2. tick[i] = "idle"
    BY <1>5 DEF TryAcquire
  <2>3. Len(grants) \in Nat
    BY GrantTypes DEF EngineInv, EngineTypeOK
  <2>4. tick'[i] = "idle" \/ (tick'[i] = "won" /\ won'[i] # 0)
    BY <1>1, <1>5, <2>2, <2>3, WonIsFresh DEF ProcTypeOK
  <2> QED
    BY <2>1, <2>4
<1> QED
  BY <1>2, <1>3, <1>4, <1>5 DEF LeaseLoop

\* As long as Redis lost nothing, a token tells its claim.
LEMMA TokenTellsClaim ==
    ASSUME FenceTypeOK, Remembered, NEW c \in 0..Len(grants), NEW d \in 0..Len(grants),
           SameToken(c, d)
    PROVE  c = d
<1>1. CASE c = 0 \/ d = 0
  BY <1>1 DEF SameToken
<1>2. CASE c # 0 /\ d # 0
  <2>1. c \in Claims /\ d \in Claims /\ grants[c].tok = grants[d].tok
    BY <1>2, GrantTypes DEF SameToken
  <2>2. grants[c].tok \in Token /\ grants[d].tok \in Token
    BY <2>1, GrantTypes
  <2> QED
    BY <2>1, <2>2 DEF Remembered, Token
<1> QED
  BY <1>1, <1>2

\* StandDown takes the token back from a claim that was refused.
LEMMA WorkLoopRecords ==
    ASSUME EngineInv, Remembered, NEW i \in Instances, WorkLoop(i), Recorded(i)
    PROVE  Recorded(i)'
<1>1. ProcTypeOK(Len(grants)) /\ FenceTypeOK
  BY DEF EngineInv, EngineTypeOK, ProcTypeOK
<1>0. ASSUME NextBatch(i) \/ AfterRefusal(i)
      PROVE  loop'[i] # "refused"
  BY <1>0, <1>1 DEF NextBatch, AfterRefusal, EndTick, ProcTypeOK, Goto
<1> USE DEF Recorded
<1>2. CASE CheckHolding(i) \/ LoadToken(i) \/ WorkLoopExits(i)
  BY <1>1, <1>2 DEF CheckHolding, LoadToken, WorkLoopExits, ProcTypeOK, Goto
<1>3. CASE ChunkRefused(i)
  BY <1>1, <1>3 DEF ChunkRefused, ProcTypeOK, Goto
<1>4. CASE WriteChunk(i) \/ WriteUnfenced(i) \/ BatchFails(i)
  <2>1. UNCHANGED <<mode, holding, token, tick, won, refused>> /\ loop[i] = "write"
    BY <1>4 DEF WriteChunk, WriteUnfenced, BatchFails
  <2>2. NextBatch(i) \/ UNCHANGED loop
    BY <1>4 DEF WriteChunk, WriteUnfenced, BatchFails
  <2> QED
    BY <1>0, <2>1, <2>2
<1>5. CASE ClearHolding(i)
  <2>1. UNCHANGED <<mode, token, tick, won, refused>> /\ ~holding'[i]
    BY <1>1, <1>5 DEF ClearHolding, ProcTypeOK
  <2>2. loop'[i] # "refused"
    BY <1>0, <1>5 DEF ClearHolding
  <2> QED
    BY <2>1, <2>2
<1>6. CASE StandDown(i)
  <2>1. UNCHANGED <<mode, holding, tick, won, refused>> /\ loop[i] = "refused"
    BY <1>6 DEF StandDown
  <2>2. CASE SameToken(token[i], wtoken[i])
    <3>1. token'[i] = 0 /\ loop'[i] = "clearing"
      BY <1>1, <1>6, <2>2 DEF StandDown, ProcTypeOK, Goto
    <3>2. token[i] = wtoken[i] /\ wtoken[i] \in refused[i] /\ wtoken[i] # 0
      BY <1>1, <2>1, <2>2, TokenTellsClaim DEF ProcTypeOK
    <3> QED
      BY <2>1, <3>1, <3>2
  <2>3. CASE ~SameToken(token[i], wtoken[i])
    <3>1. UNCHANGED token /\ loop'[i] # "refused"
      BY <1>0, <1>6, <2>3 DEF StandDown
    <3> QED
      BY <2>1, <3>1
  <2> QED
    BY <2>2, <2>3
<1> QED
  BY <1>2, <1>3, <1>4, <1>5, <1>6 DEF WorkLoop

\* A stopped engine forgot the lease; a dead one has no memory.
LEMMA LifeCycleRecords ==
    ASSUME EngineInv, NEW i \in Instances, LifeCycle(i), Recorded(i)
    PROVE  Recorded(i)'
<1>1. ProcTypeOK(Len(grants))
  BY DEF EngineInv, EngineTypeOK, ProcTypeOK
<1> USE DEF Recorded, ProcTypeOK
<1>2. CASE Start(i) \/ Stop(i)
  BY <1>1, <1>2 DEF Start, Stop
<1>5. CASE FlushOnStop(i)
  BY <1>1, <1>5 DEF FlushOnStop, procVars
<1>3. CASE StopReturns(i)
  <2>1. UNCHANGED <<tick, won, loop, wtoken, refused>> /\ tick[i] = "exit" /\ loop[i] = "exit"
    BY <1>3 DEF StopReturns, Joined
  <2>2. ~holding'[i]
    BY <1>1, <1>3 DEF StopReturns
  <2> QED
    BY <2>1, <2>2
<1>4. CASE Crash(i)
  BY <1>1, <1>4 DEF Crash
<1> QED
  BY <1>2, <1>3, <1>4, <1>5 DEF LifeCycle

\* What leaseTick records stays recorded, when Redis loses nothing.
Records == \A i \in Instances : Recorded(i)
LEMMA RecordsStep ==
    ASSUME MaxLosses = 0, EngineInv, Durable, Records, [EngineNext]_engineVars
    PROVE  Durable' /\ Records'
<1>1. FenceTypeOK /\ Remembered
  BY DEF EngineInv, EngineTypeOK, FenceTypeOK, Durable
<1>2. Durable'
  BY <1>1, EngineStepObeys, DurableStep DEF EngineInv
<1>3. CASE Redis \/ UNCHANGED engineVars
  BY <1>2, <1>3 DEF Redis, engineVars, procVars, Recorded, Records
<1>4. ASSUME NEW i \in Instances, LeaseLoop(i) \/ WorkLoop(i) \/ LifeCycle(i),
             NEW j \in Instances
      PROVE  Recorded(j)'
  <2>0. Recorded(i) /\ Recorded(j)
    BY DEF Records
  <2>1. CASE j = i
    BY <1>1, <1>4, <2>0, <2>1, LeaseLoopRecords, WorkLoopRecords, LifeCycleRecords
  <2>2. CASE j # i
    <3>1. SameMemory(j)
      BY <1>4, <2>2, OthersKeepMemory DEF EngineInv
    <3> QED
      BY <2>0, <3>1 DEF SameMemory, Recorded
  <2> QED
    BY <2>1, <2>2
<1> QED
  BY <1>2, <1>3, <1>4 DEF EngineNext, Records

LEMMA RecordsInit == EngineInit => Durable /\ Records
BY DurableInit DEF EngineInit, Recorded, Records

\* A replica that says it holds the lease and has no token was refused under the
\* claim it recorded last, when Redis loses nothing.
THEOREM TokenlessHoldersWereRefused ==
    ASSUME MaxLosses = 0
    PROVE  EngineSafety => []TokenlessHolderWasRefused
<1>1. EngineInv /\ Durable /\ Records /\ [EngineNext]_engineVars => Durable' /\ Records'
  BY RecordsStep
<1>2. Records => TokenlessHolderWasRefused
  BY DEF Records, Recorded, TokenlessHolderWasRefused
<1> QED
  BY <1>1, <1>2, RecordsInit, EngineInvInit, EngineInvStep, PTL DEF EngineSafety

-----------------------------------------------------------------------------
(* Batches without a token *)

\* A tick runs with the flag set or has seen it go down; and it is without a
\* token only in the second case, or under a refused claim.
Watched(i) ==
    /\ Busy(i) => holding[i] \/ lapsed[i]
    /\ loop[i] = "write" /\ wtoken[i] = 0 => lapsed[i] \/ won[i] \in refused[i]

\* While a tick runs, what was seen of the flag is not forgotten.
LEMMA LapseIsKept ==
    ASSUME EngineTypeOK, NEW i \in Instances, RecordLapse(i), Busy(i), Busy(i)'
    PROVE  /\ lapsed[i] => lapsed'[i]
           /\ holding[i] /\ ~holding'[i] => lapsed'[i]
BY DEF RecordLapse, EngineTypeOK

\* The lease loop claims anew only after the flag went down.
LEMMA LeaseLoopWatched ==
    ASSUME EngineInv, NEW i \in Instances, LeaseLoop(i), Watched(i)
    PROVE  Watched(i)'
<1>1. EngineTypeOK /\ RecordLapse(i)
  BY DEF EngineInv, LeaseLoop
<1>2. UNCHANGED <<loop, wtoken, refused>>
  BY DEF LeaseLoop, RenewFails, DropHolding, DropToken, TryAcquire, StoreToken, StoreHolding,
         LeaseLoopExits
<1>3. won'[i] = won[i] \/ ~holding[i]
  BY DEF LeaseLoop, RenewFails, DropHolding, DropToken, TryAcquire, StoreToken, StoreHolding,
         LeaseLoopExits
<1>4. Busy(i)' = Busy(i)
  BY <1>2 DEF Busy
<1>5. CASE ~Busy(i)
  BY <1>2, <1>4, <1>5 DEF Watched, Busy
<1>6. CASE Busy(i)
  <2>1. /\ lapsed[i] => lapsed'[i]
        /\ holding[i] /\ ~holding'[i] => lapsed'[i]
    BY <1>1, <1>4, <1>6, LapseIsKept
  <2> QED
    BY <1>2, <1>3, <1>6, <2>1 DEF Watched
<1> QED
  BY <1>5, <1>6

\* The work loop starts a tick with the flag set, and loads its token later.
LEMMA WorkLoopWatched ==
    ASSUME EngineInv, NEW i \in Instances, WorkLoop(i), Recorded(i), Watched(i)
    PROVE  Watched(i)'
<1>1. EngineTypeOK /\ RecordLapse(i) /\ ProcTypeOK(Len(grants))
  BY DEF EngineInv, EngineTypeOK, ProcTypeOK, WorkLoop
<1>2. CASE CheckHolding(i)
  <2>1. holding'[i] /\ loop'[i] = "ready"
    BY <1>1, <1>2 DEF CheckHolding, ProcTypeOK, Goto
  <2> QED
    BY <2>1 DEF Watched
<1>3. CASE WorkLoopExits(i)
  <2>1. loop'[i] = "exit"
    BY <1>1, <1>3 DEF WorkLoopExits, ProcTypeOK, Goto
  <2> QED
    BY <2>1 DEF Watched, Busy
<1>4. CASE LoadToken(i)
  <2>1. /\ UNCHANGED <<holding, token, won, refused>>
        /\ loop[i] = "ready" /\ loop'[i] = "write" /\ wtoken'[i] = token[i]
    BY <1>1, <1>4 DEF LoadToken, ProcTypeOK, Goto
  <2>2. lapsed[i] => lapsed'[i]
    BY <1>1, <2>1, LapseIsKept DEF Busy
  <2>3. holding[i] \/ lapsed[i]
    BY <2>1 DEF Watched, Busy
  <2>4. holding[i] /\ token[i] = 0 => won[i] \in refused[i]
    BY DEF Recorded
  <2> QED
    BY <2>1, <2>2, <2>3, <2>4 DEF Watched
<1>5. ASSUME ~CheckHolding(i), ~WorkLoopExits(i), ~LoadToken(i)
      PROVE  Watched(i)'
  <2>1. /\ Busy(i) /\ UNCHANGED won /\ (refused[i] \subseteq refused'[i])
        /\ loop'[i] = "write" /\ wtoken'[i] = 0 => loop[i] = "write" /\ wtoken[i] = 0
    <3>1. ASSUME NextBatch(i) \/ AfterRefusal(i)
          PROVE  loop'[i] = "write" => NextBatch(i) /\ wtoken'[i] = wtoken[i]
      BY <1>1, <3>1 DEF NextBatch, AfterRefusal, EndTick, Goto, ProcTypeOK
    <3>2. ASSUME AfterRefusal(i)
          PROVE  loop'[i] # "write"
      BY <1>1, <3>2 DEF NextBatch, AfterRefusal, EndTick, Goto, ProcTypeOK
    <3>3. CASE WriteChunk(i) \/ WriteUnfenced(i) \/ BatchFails(i)
      BY <3>1, <3>3 DEF WriteChunk, WriteUnfenced, BatchFails, Busy
    <3>4. CASE ChunkRefused(i)
      BY <1>1, <3>4 DEF ChunkRefused, ProcTypeOK, Goto, Busy
    <3>5. CASE ClearHolding(i)
      BY <3>2, <3>5 DEF ClearHolding, Busy
    <3>6. CASE StandDown(i)
      <4>1. CASE SameToken(token[i], wtoken[i])
        BY <1>1, <3>6, <4>1 DEF StandDown, ProcTypeOK, Goto, Busy
      <4>2. CASE ~SameToken(token[i], wtoken[i])
        BY <3>2, <3>6, <4>2 DEF StandDown, Busy
      <4> QED
        BY <4>1, <4>2
    <3> QED
      BY <1>5, <3>3, <3>4, <3>5, <3>6 DEF WorkLoop
  <2>2. CASE ~Busy(i)'
    BY <2>2 DEF Watched, Busy
  <2>3. CASE Busy(i)'
    <3>1. /\ lapsed[i] => lapsed'[i]
          /\ holding[i] /\ ~holding'[i] => lapsed'[i]
      BY <1>1, <2>1, <2>3, LapseIsKept
    <3> QED
      BY <2>1, <3>1 DEF Watched
  <2> QED
    BY <2>2, <2>3
<1> QED
  BY <1>2, <1>3, <1>4, <1>5

\* Only an idle loop is started or stopped, and a dead one does nothing.
LEMMA LifeCycleWatched ==
    ASSUME EngineInv, NEW i \in Instances, LifeCycle(i), RefusedIsLeaving(i), Watched(i)
    PROVE  Watched(i)'
<1>1. EngineTypeOK /\ RecordLapse(i) /\ ProcTypeOK(Len(grants))
  BY DEF EngineInv, EngineTypeOK, ProcTypeOK, LifeCycle
<1>2. CASE Start(i) \/ StopReturns(i) \/ Crash(i)
  <2>1. loop'[i] \in {"idle", "exit"}
    BY <1>1, <1>2 DEF Start, StopReturns, Joined, Crash, ProcTypeOK
  <2> QED
    BY <2>1 DEF Watched, Busy
<1>3. CASE Stop(i) \/ FlushOnStop(i)
  <2>1. UNCHANGED <<holding, won, loop, wtoken, refused>>
    BY <1>3 DEF Stop, FlushOnStop, procVars
  <2>2. Busy(i)' = Busy(i)
    BY <2>1 DEF Busy
  <2>3. Busy(i) => (lapsed[i] => lapsed'[i])
    BY <1>1, <2>2, LapseIsKept
  <2> QED
    BY <2>1, <2>2, <2>3 DEF Watched, Busy
<1> QED
  BY <1>2, <1>3 DEF LifeCycle

\* A tick that works without a token lost the lease after it began, or belongs to
\* a claim that was refused, in every interleaving of the two loops, when Redis
\* loses nothing.
THEOREM UnfencedBatchesLapsed ==
    ASSUME MaxLosses = 0
    PROVE  EngineSafety => []UnfencedOnlyAfterLapse
<1> DEFINE Watch == \A i \in Instances : Watched(i)
           Leaving == \A i \in Instances : RefusedIsLeaving(i)
<1>1. EngineInit => Watch /\ Leaving
  BY DEF EngineInit, Watched, RefusedIsLeaving, Busy
<1>2. EngineInv /\ Leaving /\ [EngineNext]_engineVars => Leaving'
  BY RefusedStep
<1>3. EngineInv /\ Records /\ Leaving /\ Watch /\ [EngineNext]_engineVars => Watch'
  <2> SUFFICES ASSUME EngineInv, Records, Leaving, Watch, [EngineNext]_engineVars
               PROVE  Watch'
    OBVIOUS
  <2>1. CASE Redis \/ UNCHANGED engineVars
    BY <2>1 DEF Redis, engineVars, procVars, Watched, Busy
  <2>2. ASSUME NEW i \in Instances, LeaseLoop(i) \/ WorkLoop(i) \/ LifeCycle(i),
               NEW j \in Instances
        PROVE  Watched(j)'
    <3>1. CASE j = i
      BY <2>2, <3>1, LeaseLoopWatched, WorkLoopWatched, LifeCycleWatched DEF Records
    <3>2. CASE j # i
      <4>1. SameMemory(j) /\ RecordLapse(i)
        BY <2>2, <3>2, OthersKeepMemory DEF EngineInv, LeaseLoop, WorkLoop, LifeCycle
      <4>2. lapsed'[j] = lapsed[j]
        BY <3>2, <4>1 DEF RecordLapse, EngineInv, EngineTypeOK
      <4> QED
        BY <4>1, <4>2 DEF SameMemory, Watched, Busy
    <3> QED
      BY <3>1, <3>2
  <2> QED
    BY <2>1, <2>2 DEF EngineNext
<1>4. EngineInv /\ Durable /\ Records /\ [EngineNext]_engineVars => Durable' /\ Records'
  BY RecordsStep
<1>5. Watch => UnfencedOnlyAfterLapse
  BY DEF Watched, UnfencedOnlyAfterLapse
<1> HIDE DEF Watch, Leaving
<1> QED
  BY <1>1, <1>2, <1>3, <1>4, <1>5, RecordsInit, EngineInvInit, EngineInvStep, PTL DEF EngineSafety
=============================================================================
