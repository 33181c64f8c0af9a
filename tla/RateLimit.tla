------------------------------- MODULE RateLimit -------------------------------
(***************************************************************************)
(* ratelimit.Memory, which login, resend and the per-address middleware    *)
(* use: a map of buckets that are made on demand and dropped when idle.    *)
(* Allow holds the mutex throughout, so a call is one step; the sweep runs *)
(* inside it, over the buckets of all keys.                                *)
(*                                                                         *)
(* A bucket is a rate.Limiter of golang.org/x/time: its credit, here in    *)
(* ticks, grows by one a tick up to Burst * Refill, and a request takes    *)
(* Refill of it or, where there is less, is refused and takes nothing.     *)
(* Horizon bounds the clock for TLC.                                       *)
(***************************************************************************)
EXTENDS Integers

CONSTANTS Key,
          Burst,          \* requests a full bucket covers
          Refill,         \* ticks that buy one request back
          IdleTTL,        \* a bucket idle for longer may be dropped
          SweepInterval,  \* ticks between sweeps, at least
          Horizon

ASSUME LimitsAreNumbers == /\ Burst \in Nat /\ Refill \in Nat \ {0}
                           /\ IdleTTL \in Nat /\ SweepInterval \in Nat
                           /\ Horizon \in Nat

VARIABLES
    now,
    buckets,    \* keys with a bucket
    level,      \* credit of the bucket, Full without one
    seen,       \* when Allow last asked for the key
    lastSweep,
    verdict,    \* the last answer given
    \* history, read by the properties only
    mark,       \* a moment somebody began to count
    taken       \* credit taken by each key since then

vars == <<now, buckets, level, seen, lastSweep, verdict, mark, taken>>

Full == Burst * Refill

Silent == [key |-> "nobody", allowed |-> FALSE]

Init == /\ now = 0 /\ lastSweep = 0
        /\ buckets = {}
        /\ level = [k \in Key |-> Full]
        /\ seen = [k \in Key |-> 0]
        /\ verdict = Silent
        /\ mark = 0
        /\ taken = [k \in Key |-> 0]

\* The clock; every limiter regains credit.
Tick == /\ now < Horizon
        /\ now' = now + 1
        /\ level' = [k \in Key |-> IF level[k] < Full THEN level[k] + 1 ELSE level[k]]
        /\ UNCHANGED <<buckets, seen, lastSweep, verdict, mark, taken>>

\* sweepLocked does nothing until sweepInterval has passed.
SweepDue == now - lastSweep >= SweepInterval

\* Mutants: every bucket; the buckets idle at the last sweep, not at this one.
AnyBucket == buckets
IdleAtLastSweep == {k \in buckets : lastSweep - seen[k] > IdleTTL}

\* The buckets sweepLocked deletes.
IdleBuckets == {k \in buckets : now - seen[k] > IdleTTL}

Swept == IF SweepDue THEN IdleBuckets ELSE {}

\* What is left of the credit of a key after the sweep and NewLimiter.
LevelAfterSweep(k) == IF k \in Swept THEN Full ELSE level[k]

\* Mutant: a request is allowed on what is left of a token.
CoversPart(credit) == credit > 0

\* AllowN(now, 1) has a whole token.
Covers(credit) == credit >= Refill

Allow(k) ==
    LET credit  == LevelAfterSweep(k)
        allowed == Covers(credit)
    IN /\ lastSweep' = IF SweepDue THEN now ELSE lastSweep
       /\ buckets' = (buckets \ Swept) \cup {k}
       /\ seen' = [seen EXCEPT ![k] = now]
       /\ level' = [j \in Key |-> IF j # k THEN LevelAfterSweep(j)
                                  ELSE IF allowed THEN credit - Refill
                                  ELSE credit]
       /\ verdict' = [key |-> k, allowed |-> allowed]
       /\ taken' = [taken EXCEPT ![k] = IF allowed THEN @ + Refill ELSE @]
       /\ UNCHANGED <<now, mark>>

\* Somebody begins to count here.
Mark == /\ mark' = now
        /\ taken' = [k \in Key |-> 0]
        /\ UNCHANGED <<now, buckets, level, seen, lastSweep, verdict>>

Next == Tick \/ (\E k \in Key : Allow(k)) \/ Mark

Spec == Init /\ [][Next]_vars

-------------------------------------------------------------------------------
(* Properties.                                                             *)

(* Type invariant: credit stays within the bucket, a key without a bucket   *)
(* is worth a full one, and the past is in the past.                        *)
TypeOK ==
    /\ now \in Nat /\ lastSweep \in 0..now /\ mark \in 0..now
    /\ buckets \subseteq Key
    /\ level \in [Key -> 0..Full]
    /\ seen \in [Key -> 0..now]
    /\ taken \in [Key -> Nat]
    /\ \A k \in Key \ buckets : level[k] = Full

(* NewMemory "allows perSecond sustained with room for a burst", counted    *)
(* from any moment on: in any stretch of time a key is granted at most its  *)
(* burst plus what the time has bought back, sweeps or no sweeps.           *)
WindowBound == \A k \in Key : taken[k] <= Full + (now - mark)

(* A sweep leaves no bucket that had been idle for more than IdleTTL, so    *)
(* the map holds only the keys of the last IdleTTL before it.               *)
IdleKeysReclaimed == \A k \in buckets : lastSweep - seen[k] <= IdleTTL

(* Dropping idle buckets cannot be noticed: Allow answers as a limiter that *)
(* keeps a bucket for every key for ever, and one key's calls, sweep and    *)
(* all, never change what another key is worth.                             *)
Bucket == INSTANCE TokenBucket WITH Cost <- Refill

ImplementsTokenBucket == Bucket!Spec
===============================================================================
