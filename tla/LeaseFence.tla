----------------------------- MODULE LeaseFence -----------------------------
(***************************************************************************)
(* The lease and the fencing token that guard one singleton role           *)
(* (internal/leasefence): the two Redis keys of the role, the Lua scripts  *)
(* that read and write them, and the most general client, which may claim  *)
(* the role whenever the script lets it and may present any token it was   *)
(* ever granted, however late.                                             *)
(*                                                                         *)
(* Redis runs a script atomically, so a script is one step.  The TTL of    *)
(* the lock key is abstracted to a key that may expire at any moment: a    *)
(* process can be paused for any time between two of its calls.            *)
(*                                                                         *)
(* Redis may also lose its last writes.  "copy" is what the replica (or    *)
(* the disk) holds; Failover brings it back.  The initial copy is empty,   *)
(* so losing everything is the Failover that precedes every Replicate.     *)
(***************************************************************************)
EXTENDS Integers, Sequences

CONSTANTS
    Instances,      \* instance IDs: one per process, never reused
    NoOne,          \* the value of an absent lock key
    TokenSeqRange,  \* base of the int64 encoding of a token (1e9 in the code)
    LegacySeqs,     \* sequences a bare-integer fence key of an old release may hold
    MaxSec,         \* bound: seconds of the Redis clock
    MaxClaims,      \* bound: successful runs of the acquire script
    MaxLosses       \* bound: failovers that lose writes

ASSUME RoleAssumption ==
    /\ NoOne \notin Instances
    /\ TokenSeqRange \in Nat \ {0}
    /\ LegacySeqs \subseteq Nat
    /\ MaxSec \in Nat
    /\ MaxClaims \in Nat
    /\ MaxLosses \in Nat

VARIABLES
    lock,     \* the lock key: the holder, or NoOne
    fence,    \* the fence key: the last minted token
    claim,    \* history: which claim minted "fence" (0: none in this data)
    applied,  \* history: the claim under which the last fenced batch was applied
    now,      \* the Redis clock, in seconds
    copy,     \* the replicated part of the data
    losses,   \* how many failovers lost writes
    grants    \* history: every claim made, lost ones included, in order

redis == <<lock, fence, claim, applied>>
fenceVars == <<lock, fence, claim, applied, now, copy, losses, grants>>

Token == [sec : Nat, seq : Nat]
Claims == DOMAIN grants
Data == [lock : Instances \cup {NoOne}, fence : Token,
         claim : Nat, applied : Nat]

\* The int64 a token is carried as on the Go side.
Encode(tok) == tok.sec * TokenSeqRange + tok.seq

\* ParseToken accepts a sequence below the encoding base only.
Parses(tok) == tok.seq < TokenSeqRange

-----------------------------------------------------------------------------
(* The scripts *)

Later(s, t) == IF s < t THEN t ELSE s

\* Mutant: the clock is taken as it is.
MintedByClock == [sec |-> now, seq |-> fence.seq + 1]

\* The token the acquire script mints: the clock, never below the previous
\* second, and the next sequence.
Minted == [sec |-> Later(now, fence.sec), seq |-> fence.seq + 1]

\* Mutants of acquireScript: a lock that is taken before, and not together with,
\* the token; and a claim that is answered before it is recorded.
AcquireWithoutToken(i) ==
    /\ lock = NoOne
    /\ lock' = i
    /\ grants' = Append(grants, [inst |-> i, tok |-> Minted])
    /\ UNCHANGED <<fence, claim, applied>>

AcquireUnrecorded(i) ==
    /\ lock = NoOne
    /\ lock' = i
    /\ fence' = Minted
    /\ claim' = Len(grants) + 1
    /\ UNCHANGED <<applied, grants>>

\* acquireScript: take the lock if nobody has it, mint the next token.
AcquireScript(i) ==
    /\ lock = NoOne
    /\ lock' = i
    /\ fence' = Minted
    /\ grants' = Append(grants, [inst |-> i, tok |-> Minted])
    /\ claim' = Len(grants) + 1
    /\ UNCHANGED applied

\* renewScript: its reply.  (The TTL it extends is not modelled.)
RenewScript(i) == lock = i

\* releaseScript: drop the lock only if it is ours.
ReleaseScript(i) ==
    /\ lock' = IF lock = i THEN NoOne ELSE lock
    /\ UNCHANGED <<fence, claim, applied>>

\* Mutants of the check of execScript: the lock alone, the token alone.
AdmitsHolder(c) == lock = grants[c].inst
AdmitsToken(c) == fence = grants[c].tok

\* execScript: whether one chunk presented under claim c is let through.
ExecAdmits(c) ==
    /\ fence = grants[c].tok
    /\ lock = grants[c].inst

\* execScript: a chunk that is let through.
ExecScript(c) ==
    /\ ExecAdmits(c)
    /\ applied' = c
    /\ UNCHANGED <<lock, fence, claim>>

-----------------------------------------------------------------------------
(* The service and its clients *)

Init ==
    /\ lock = NoOne
    /\ fence \in {[sec |-> 0, seq |-> q] : q \in LegacySeqs \cup {0}}
    /\ claim = 0
    /\ applied = 0
    /\ now = 0
    /\ copy = [lock |-> NoOne, fence |-> [sec |-> 0, seq |-> 0],
               claim |-> 0, applied |-> 0]
    /\ losses = 0
    /\ grants = <<>>

Acquire(i) ==
    /\ Len(grants) < MaxClaims
    /\ AcquireScript(i)
    /\ UNCHANGED <<now, copy, losses>>

Release(i) ==
    /\ lock = i
    /\ ReleaseScript(i)
    /\ UNCHANGED <<now, copy, losses, grants>>

\* A chunk of a batch: Go refuses to parse a token out of range, so no
\* client can present one.
Exec(c) ==
    /\ Parses(grants[c].tok)
    /\ ExecScript(c)
    /\ UNCHANGED <<now, copy, losses, grants>>

Expire ==
    /\ lock # NoOne
    /\ lock' = NoOne
    /\ UNCHANGED <<fence, claim, applied, now, copy, losses, grants>>

\* The clock of Redis moves on, or is set back (by NTP, or a failover).
Tick ==
    /\ now' \in 0..MaxSec \ {now}
    /\ UNCHANGED <<redis, copy, losses, grants>>

Current == [lock |-> lock, fence |-> fence, claim |-> claim, applied |-> applied]

Replicate ==
    /\ losses < MaxLosses
    /\ copy # Current
    /\ copy' = Current
    /\ UNCHANGED <<redis, now, losses, grants>>

Failover ==
    /\ losses < MaxLosses
    /\ losses' = losses + 1
    /\ lock' = copy.lock
    /\ fence' = copy.fence
    /\ claim' = copy.claim
    /\ applied' = copy.applied
    /\ UNCHANGED <<now, copy, grants>>

\* What happens to Redis whatever the clients do.
Environment == Expire \/ Tick \/ Replicate \/ Failover

Next ==
    \/ \E i \in Instances : Acquire(i) \/ Release(i)
    \/ \E c \in Claims : Exec(c)
    \/ Environment

Spec == Init /\ [][Next]_fenceVars

-----------------------------------------------------------------------------
(* Properties *)

\* The type invariant.
FenceTypeOK ==
    /\ lock \in Instances \cup {NoOne}
    /\ fence \in Token
    /\ claim \in 0..Len(grants)
    /\ applied \in 0..Len(grants)
    /\ now \in Nat
    /\ copy \in Data
    /\ copy.claim \in 0..Len(grants)
    /\ copy.applied \in 0..Len(grants)
    /\ losses \in 0..MaxLosses
    /\ grants \in Seq([inst : Instances, tok : Token])

\* The lock, when somebody has it, belongs to the instance whose claim minted
\* the fence: the two keys are written by one script and lost together.
LockMatchesFence ==
    /\ lock # NoOne => claim # 0 /\ lock = grants[claim].inst
    /\ copy.lock # NoOne => copy.claim # 0 /\ copy.lock = grants[copy.claim].inst

\* "A later claim always has a larger int64 than an earlier claim" (the token
\* format comment), whatever the clock does, as long as Redis lost nothing.  (A
\* loss can bring a token back: with it go the claims that it numbered, and a
\* claim made in the same second, or after the clock was set back, mints it
\* again.  ExecByLastOwner is what holds then.)
TokensGrow ==
    losses = 0 => \A c, d \in Claims :
        c < d => Encode(grants[c].tok) < Encode(grants[d].tok)

\* A fenced chunk is applied only for the instance that made the last claim
\* the data remembers, whatever was lost: an instance that was replaced, or
\* whose claim was lost, never writes, even when a token was minted twice.
ExecByLastOwner ==
    [][\A c \in Claims : Exec(c) => claim # 0 /\ grants[c].inst = grants[claim].inst]_fenceVars

\* As long as Redis loses nothing, the role is a SingleWriter: claims are
\* numbered and a chunk is applied only under the last of them, so not even an
\* older claim of the same instance writes.
Role == INSTANCE SingleWriter WITH epoch <- Len(grants), writer <- applied
RoleSpec == Role!Spec
=============================================================================
