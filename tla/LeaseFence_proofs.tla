-------------------------- MODULE LeaseFence_proofs --------------------------
(***************************************************************************)
(* Proofs about LeaseFence, for every set of instances and every bound:    *)
(*   - type correctness;                                                   *)
(*   - the lock and the fence belong together, whatever Redis loses, and   *)
(*     so a fenced chunk is applied only for the last owner;               *)
(*   - when Redis loses nothing, tokens grow and the role is a             *)
(*     SingleWriter.                                                       *)
(***************************************************************************)
EXTENDS LeaseFence, TLAPS

USE RoleAssumption DEF Token, Claims, Data

-----------------------------------------------------------------------------
(* Type correctness *)

\* The acquire script mints a well-formed token.
LEMMA MintedToken ==
    ASSUME fence \in Token, now \in Nat
    PROVE  Minted \in Token
BY DEF Minted, Later

\* The keys of a fresh role are well typed.
LEMMA TypeInit == Init => FenceTypeOK
BY DEF Init, FenceTypeOK

\* No script, loss or tick of the clock breaks the types.
LEMMA TypeStep == FenceTypeOK /\ [Next]_fenceVars => FenceTypeOK'
<1> SUFFICES ASSUME FenceTypeOK, [Next]_fenceVars
             PROVE  FenceTypeOK'
  OBVIOUS
<1> USE DEF FenceTypeOK
<1>1. ASSUME NEW i \in Instances, Acquire(i)
      PROVE  FenceTypeOK'
  <2>1. Minted \in Token
    BY MintedToken
  <2>2. [inst |-> i, tok |-> Minted] \in [inst : Instances, tok : Token]
    BY <2>1
  <2>3. /\ grants' \in Seq([inst : Instances, tok : Token])
        /\ Len(grants') = Len(grants) + 1
    BY <1>1, <2>2 DEF Acquire, AcquireScript
  <2> QED
    BY <1>1, <2>1, <2>3 DEF Acquire, AcquireScript
<1>2. ASSUME NEW i \in Instances, Release(i)
      PROVE  FenceTypeOK'
  BY <1>2 DEF Release, ReleaseScript
<1>3. ASSUME NEW c \in Claims, Exec(c)
      PROVE  FenceTypeOK'
  BY <1>3 DEF Exec, ExecScript, ExecAdmits
<1>4. CASE Expire
  BY <1>4 DEF Expire
<1>5. CASE Tick
  BY <1>5 DEF Tick, redis
<1>6. CASE Replicate
  BY <1>6 DEF Replicate, Current, redis
<1>7. CASE Failover
  BY <1>7 DEF Failover
<1>8. CASE UNCHANGED fenceVars
  BY <1>8 DEF fenceVars
<1> QED
  BY <1>1, <1>2, <1>3, <1>4, <1>5, <1>6, <1>7, <1>8 DEF Next, Environment

\* Every variable of the role keeps its type.
THEOREM TypeCorrect == Spec => []FenceTypeOK
<1>1. Init => FenceTypeOK
  BY TypeInit
<1>2. FenceTypeOK /\ [Next]_fenceVars => FenceTypeOK'
  BY TypeStep
<1> QED
  BY <1>1, <1>2, PTL DEF Spec

\* What is known of a claim that was granted.
LEMMA GrantTypes ==
    ASSUME FenceTypeOK
    PROVE  /\ Claims = 1..Len(grants)
           /\ Len(grants) \in Nat
           /\ \A k \in Claims : grants[k].inst \in Instances /\ grants[k].tok \in Token
<1> DEFINE Grant == [inst : Instances, tok : Token]
<1>1. grants \in Seq(Grant)
  BY DEF FenceTypeOK
<1>2. /\ Claims = 1..Len(grants)
      /\ Len(grants) \in Nat
      /\ \A k \in Claims : grants[k] \in Grant
  <2> HIDE DEF Grant
  <2> QED
    BY <1>1
<1> QED
  BY <1>2

-----------------------------------------------------------------------------
(* The two keys belong together *)

\* Nobody holds the lock of a fresh role, or of its empty replica.
LEMMA LockInit == Init => LockMatchesFence
BY DEF Init, LockMatchesFence

\* The lock is only ever taken with the token of its claim, and lost with it.
LEMMA LockStep ==
    FenceTypeOK /\ LockMatchesFence /\ [Next]_fenceVars => LockMatchesFence'
<1> SUFFICES ASSUME FenceTypeOK, LockMatchesFence, [Next]_fenceVars
             PROVE  LockMatchesFence'
  OBVIOUS
<1> USE DEF LockMatchesFence
<1>1. ASSUME NEW i \in Instances, Acquire(i)
      PROVE  LockMatchesFence'
  <2> DEFINE new == [inst |-> i, tok |-> Minted]
  <2>1. grants \in Seq([inst : Instances, tok : Token])
    BY DEF FenceTypeOK
  <2>2. new \in [inst : Instances, tok : Token]
    BY MintedToken DEF FenceTypeOK
  <2>3. grants' = Append(grants, new) /\ lock' = i /\ claim' = Len(grants) + 1
    BY <1>1 DEF Acquire, AcquireScript
  <2>4. claim' # 0 /\ lock' = grants'[claim'].inst
    BY <2>1, <2>2, <2>3
  <2>5. \A k \in 1..Len(grants) : grants'[k] = grants[k]
    BY <2>1, <2>2, <2>3
  <2>6. copy' = copy
    BY <1>1 DEF Acquire
  <2>7. copy.claim \in 0..Len(grants)
    BY DEF FenceTypeOK
  <2> QED
    BY <2>4, <2>5, <2>6, <2>7
<1>2. ASSUME NEW i \in Instances, Release(i)
      PROVE  LockMatchesFence'
  BY <1>2 DEF Release, ReleaseScript
<1>3. ASSUME NEW c \in Claims, Exec(c)
      PROVE  LockMatchesFence'
  BY <1>3 DEF Exec, ExecScript
<1>4. CASE Expire
  BY <1>4 DEF Expire
<1>5. CASE Tick
  BY <1>5 DEF Tick, redis
<1>6. CASE Replicate
  BY <1>6 DEF Replicate, Current, redis
<1>7. CASE Failover
  BY <1>7 DEF Failover
<1>8. CASE UNCHANGED fenceVars
  BY <1>8 DEF fenceVars
<1> QED
  BY <1>1, <1>2, <1>3, <1>4, <1>5, <1>6, <1>7, <1>8 DEF Next, Environment

\* The lock never belongs to an instance other than the one whose claim minted
\* the fence, not even after a failover.
THEOREM LockFollowsFence == Spec => []LockMatchesFence
<1>1. Init => LockMatchesFence
  BY LockInit
<1>2. FenceTypeOK /\ LockMatchesFence /\ [Next]_fenceVars => LockMatchesFence'
  BY LockStep
<1> QED
  BY <1>1, <1>2, TypeCorrect, PTL DEF Spec

\* A fenced chunk is applied only for the instance that made the last claim
\* Redis remembers, whatever Redis lost and however old the token is.
THEOREM OnlyLastOwnerExecutes == Spec => ExecByLastOwner
<1>1. LockMatchesFence /\ FenceTypeOK
        => [\A c \in Claims : Exec(c) => claim # 0 /\ grants[c].inst = grants[claim].inst]_fenceVars
  <2> SUFFICES ASSUME LockMatchesFence, FenceTypeOK, NEW c \in Claims, Exec(c)
               PROVE  claim # 0 /\ grants[c].inst = grants[claim].inst
    OBVIOUS
  <2>1. lock = grants[c].inst
    BY DEF Exec, ExecScript, ExecAdmits
  <2>2. grants[c].inst \in Instances
    BY GrantTypes
  <2> QED
    BY <2>1, <2>2 DEF LockMatchesFence
<1> QED
  BY <1>1, TypeCorrect, LockFollowsFence, PTL DEF ExecByLastOwner

-----------------------------------------------------------------------------
(* As long as Redis lost nothing *)

\* The data remembers every claim, the fence is the token of the last one, and
\* both parts of the token order the claims.
Remembered ==
    /\ claim = Len(grants)
    /\ claim # 0 => fence = grants[claim].tok
    /\ \A c, d \in Claims :
        c < d => /\ grants[c].tok.sec <= grants[d].tok.sec
                 /\ grants[c].tok.seq < grants[d].tok.seq

\* The inductive invariant behind the order of the tokens.
Durable == losses = 0 => Remembered

\* No claim was made yet.
LEMMA DurableInit == Init => Durable
BY DEF Init, Durable, Remembered

\* The fence remembers the last claim until something is lost.
LEMMA DurableStep ==
    ASSUME FenceTypeOK, Durable, [Next]_fenceVars
    PROVE  Durable'
<1> SUFFICES ASSUME losses' = 0
             PROVE  Remembered'
  BY DEF Durable
<1>a. losses = 0
  BY DEF Next, fenceVars, redis, Environment, Acquire, Release, Exec, Expire, Tick, Replicate,
         Failover, FenceTypeOK
<1>b. Remembered
  BY <1>a DEF Durable
<1> USE <1>b DEF Remembered
<1>1. ASSUME NEW i \in Instances, Acquire(i)
      PROVE  Remembered'
  <2> DEFINE new == [inst |-> i, tok |-> Minted]
  <2>1. /\ grants \in Seq([inst : Instances, tok : Token])
        /\ Minted \in Token
        /\ new \in [inst : Instances, tok : Token]
    BY MintedToken DEF FenceTypeOK
  <2>2. grants' = Append(grants, new) /\ fence' = Minted /\ claim' = Len(grants) + 1
    BY <1>1 DEF Acquire, AcquireScript
  <2>3. /\ Len(grants') = Len(grants) + 1
        /\ DOMAIN grants' = 1..(Len(grants) + 1)
        /\ DOMAIN grants = 1..Len(grants)
        /\ grants'[Len(grants) + 1] = new
        /\ \A k \in 1..Len(grants) : grants'[k] = grants[k]
    BY <2>1, <2>2
  <2>4. ASSUME NEW k \in 1..Len(grants)
        PROVE  grants[k].tok.sec <= fence.sec /\ grants[k].tok.seq <= fence.seq
    <3>1. claim \in 1..Len(grants) /\ claim # 0 /\ fence = grants[claim].tok
      BY <2>4, GrantTypes
    <3>2. CASE k = claim
      <4>1. fence.sec \in Nat /\ fence.seq \in Nat
        BY DEF FenceTypeOK
      <4> QED
        BY <3>1, <3>2, <4>1
    <3>3. CASE k < claim
      <4>1. grants[k].tok \in Token /\ grants[claim].tok \in Token
        BY <3>1, <2>4, GrantTypes
      <4> QED
        BY <3>1, <3>3, <2>3, <4>1
    <3> QED
      BY <3>1, <3>2, <3>3, <2>4
  <2>5. fence.sec <= Minted.sec /\ fence.seq < Minted.seq
    BY DEF FenceTypeOK, Minted, Later
  <2>6. ASSUME NEW c \in Claims', NEW d \in Claims', c < d
        PROVE  /\ grants'[c].tok.sec <= grants'[d].tok.sec
               /\ grants'[c].tok.seq < grants'[d].tok.seq
    <3>1. CASE d \in 1..Len(grants)
      <4>1. c \in 1..Len(grants)
        BY <2>3, <2>6, <3>1
      <4> QED
        BY <2>3, <2>6, <3>1, <4>1
    <3>2. CASE d = Len(grants) + 1
      <4>1. c \in 1..Len(grants)
        BY <2>3, <2>6, <3>2
      <4>2. grants[c].tok \in Token /\ fence \in Token
        BY <4>1, GrantTypes DEF FenceTypeOK
      <4>3. grants'[c].tok = grants[c].tok /\ grants'[d].tok = Minted
        BY <2>3, <3>2, <4>1
      <4> QED
        BY <2>1, <2>4, <2>5, <4>1, <4>2, <4>3
    <3> QED
      BY <2>3, <2>6, <3>1, <3>2
  <2> QED
    BY <2>2, <2>3, <2>6
<1>2. ASSUME NEW i \in Instances, Release(i)
      PROVE  Remembered'
  BY <1>2 DEF Release, ReleaseScript
<1>3. ASSUME NEW c \in Claims, Exec(c)
      PROVE  Remembered'
  BY <1>3 DEF Exec, ExecScript
<1>4. CASE Expire
  BY <1>4 DEF Expire
<1>5. CASE Tick
  BY <1>5 DEF Tick, redis
<1>6. CASE Replicate
  BY <1>6 DEF Replicate, redis
<1>7. CASE Failover
  BY <1>7, <1>a DEF Failover
<1>8. CASE UNCHANGED fenceVars
  BY <1>8 DEF fenceVars
<1> QED
  BY <1>1, <1>2, <1>3, <1>4, <1>5, <1>6, <1>7, <1>8 DEF Next, Environment

\* The int64 encoding keeps the order of tokens that grow in both parts.
LEMMA EncodeGrows ==
    ASSUME NEW s \in Token, NEW t \in Token, s.sec <= t.sec, s.seq < t.seq
    PROVE  Encode(s) < Encode(t)
<1>1. PICK n \in Nat : t.sec = s.sec + n
  <2>1. t.sec - s.sec \in Nat /\ t.sec = s.sec + (t.sec - s.sec)
    OBVIOUS
  <2> QED
    BY <2>1
<1>2. n * TokenSeqRange \in Nat
  OBVIOUS
<1>3. t.sec * TokenSeqRange = s.sec * TokenSeqRange + n * TokenSeqRange
  BY <1>1
<1> QED
  BY <1>2, <1>3 DEF Encode

\* As long as Redis lost nothing, a later claim has a larger token.
THEOREM LaterClaimsHaveLargerTokens == Spec => []TokensGrow
<1>1. Init => Durable
  BY DurableInit
<1>2. FenceTypeOK /\ Durable /\ [Next]_fenceVars => Durable'
  BY DurableStep
<1>3. FenceTypeOK /\ Durable => TokensGrow
  <2> SUFFICES ASSUME FenceTypeOK, Remembered, NEW c \in Claims, NEW d \in Claims, c < d
               PROVE  Encode(grants[c].tok) < Encode(grants[d].tok)
    BY DEF TokensGrow, Durable
  <2>1. grants[c].tok \in Token /\ grants[d].tok \in Token
    BY GrantTypes
  <2> QED
    BY <2>1, EncodeGrows DEF Remembered
<1> QED
  BY <1>1, <1>2, <1>3, TypeCorrect, PTL DEF Spec

\* A claim is a Claim, an applied chunk a Write, anything else a stutter.
LEMMA RoleStep ==
    ASSUME MaxLosses = 0, FenceTypeOK, Durable, [Next]_fenceVars
    PROVE  [Role!Next]_<<Len(grants), applied>>
<1> USE DEF Role!Next
<1>a. Remembered
  BY DEF Durable, FenceTypeOK
<1>1. ASSUME NEW i \in Instances, Acquire(i)
      PROVE  Role!Claim
  <2> DEFINE Grant == [inst : Instances, tok : Token]
             new == [inst |-> i, tok |-> Minted]
  <2>1. grants \in Seq(Grant) /\ new \in Grant
    BY MintedToken DEF FenceTypeOK
  <2>2. grants' = Append(grants, new) /\ applied' = applied
    BY <1>1 DEF Acquire, AcquireScript
  <2>3. Len(grants') = Len(grants) + 1
    <3> HIDE DEF Grant, new
    <3> QED
      BY <2>1, <2>2
  <2> QED
    BY <2>2, <2>3 DEF Role!Claim
<1>2. ASSUME NEW i \in Instances, Release(i)
      PROVE  UNCHANGED <<Len(grants), applied>>
  BY <1>2 DEF Release, ReleaseScript
<1>3. ASSUME NEW c \in Claims, Exec(c)
      PROVE  Role!Write
  <2>1. c \in 1..Len(grants) /\ claim = Len(grants) /\ claim \in Claims /\ claim # 0
    BY <1>a, GrantTypes DEF Remembered
  <2>2. grants[c].tok = grants[claim].tok /\ grants[c].tok.seq \in Nat
    BY <1>a, <1>3, <2>1, GrantTypes DEF Exec, ExecScript, ExecAdmits, Remembered
  <2>3. c = claim
    BY <1>a, <2>1, <2>2 DEF Remembered
  <2> QED
    BY <1>3, <2>1, <2>3 DEF Exec, ExecScript, Role!Write
<1>4. CASE Environment
  BY <1>4 DEF Environment, Expire, Tick, Replicate, Failover, redis, FenceTypeOK
<1>5. CASE UNCHANGED fenceVars
  BY <1>5 DEF fenceVars
<1> QED
  BY <1>1, <1>2, <1>3, <1>4, <1>5 DEF Next

\* When Redis loses nothing, the role is a SingleWriter: every fenced chunk is
\* applied under the last claim.
THEOREM ImplementsSingleWriter ==
    ASSUME MaxLosses = 0
    PROVE  Spec => RoleSpec
<1>1. Init => Durable
  BY DurableInit
<1>2. FenceTypeOK /\ Durable /\ [Next]_fenceVars => Durable'
  BY DurableStep
<1>3. Init => Role!Init
  BY DEF Init, Role!Init
<1>4. FenceTypeOK /\ Durable /\ [Next]_fenceVars => [Role!Next]_<<Len(grants), applied>>
  BY RoleStep
<1> QED
  BY <1>1, <1>2, <1>3, <1>4, TypeCorrect, PTL DEF Spec, RoleSpec, Role!Spec
=============================================================================
