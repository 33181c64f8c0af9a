---------------------------- MODULE RateLimitProofs ----------------------------
(***************************************************************************)
(* The promises of RateLimit for any keys, limits and length of time.  Two *)
(* of them need a bucket to be full again before it may be dropped, which  *)
(* the settings of app.go give (five minutes against an hour at most) and  *)
(* nothing in the code enforces, so it is an hypothesis of the theorems.   *)
(* What the limit is worth without it is proved at the end.                *)
(***************************************************************************)
EXTENDS RateLimit, TLAPS

\* Time enough to refill a bucket passes before it can be dropped.
DroppedOnlyWhenFull == IdleTTL >= Full

\* A bucket has regained a tick of credit for every tick since it was asked.
CreditSinceSeen == \A k \in Key : level[k] = Full \/ level[k] >= now - seen[k]

\* What was taken since the mark and what is left were in the bucket then or
\* came with time.
Conservation == \A k \in Key : taken[k] + level[k] <= Full + (now - mark)

IInv == TypeOK /\ CreditSinceSeen /\ IdleKeysReclaimed

-------------------------------------------------------------------------------
LEMMA FullIsNat == Full \in Nat
  BY LimitsAreNumbers DEF Full

LEMMA InitInv == Init => IInv /\ Conservation
  BY FullIsNat, LimitsAreNumbers
  DEF Init, IInv, TypeOK, CreditSinceSeen, IdleKeysReclaimed, Conservation

\* Every step keeps the books of the buckets.
LEMMA BucketStep == IInv /\ [Next]_vars => IInv'
<1> SUFFICES ASSUME IInv, [Next]_vars PROVE IInv'
  OBVIOUS
<1> USE FullIsNat, LimitsAreNumbers DEF IInv, TypeOK, CreditSinceSeen, IdleKeysReclaimed
<1>1. CASE Tick
  BY <1>1 DEF Tick
<1>2. ASSUME NEW k \in Key, Allow(k) PROVE IInv'
  <2>1. \A j \in Key : LevelAfterSweep(j) \in 0..Full
    BY DEF LevelAfterSweep
  <2>2. /\ now' = now /\ mark' = mark
        /\ lastSweep' = IF SweepDue THEN now ELSE lastSweep
        /\ buckets' = (buckets \ Swept) \cup {k}
        /\ seen' = [seen EXCEPT ![k] = now]
        /\ \A j \in Key \ {k} : level'[j] = LevelAfterSweep(j)
        /\ level' \in [Key -> 0..Full]
        /\ taken' \in [Key -> Nat]
    BY <1>2, <2>1 DEF Allow, Covers
  <2>3. \A j \in Key \ buckets' : level'[j] = Full
    BY <2>2 DEF LevelAfterSweep
  <2>4. TypeOK'
    BY <2>2, <2>3
  <2>5. CreditSinceSeen'
    BY <2>2 DEF LevelAfterSweep
  <2>6. IdleKeysReclaimed'
    BY <2>2 DEF Swept, SweepDue, IdleBuckets
  <2>. QED BY <2>4, <2>5, <2>6
<1>3. CASE Mark
  BY <1>3 DEF Mark
<1>4. CASE UNCHANGED vars
  BY <1>4 DEF vars
<1>. QED BY <1>1, <1>2, <1>3, <1>4 DEF Next

THEOREM Invariant == Spec => []IInv
<1>1. Init => IInv
  BY InitInv
<1>. QED BY <1>1, BucketStep, PTL DEF Spec

\* TypeOK: no bucket overflows or is overdrawn.
THEOREM Typed == Spec => []TypeOK
  BY Invariant, PTL DEF IInv

\* IdleKeysReclaimed: the map does not outgrow the recently seen keys.
THEOREM Reclaimed == Spec => []IdleKeysReclaimed
  BY Invariant, PTL DEF IInv

-------------------------------------------------------------------------------
\* A bucket that may be dropped is as good as new.
LEMMA SweepLosesNothing ==
  ASSUME DroppedOnlyWhenFull, IInv, NEW k \in Key
  PROVE  LevelAfterSweep(k) = level[k]
<1>1. CASE k \in Swept
  <2>1. now - seen[k] > IdleTTL
    BY <1>1 DEF Swept, IdleBuckets
  <2>. QED BY <1>1, <2>1, FullIsNat, LimitsAreNumbers
           DEF LevelAfterSweep, DroppedOnlyWhenFull, IInv, TypeOK, CreditSinceSeen
<1>2. CASE k \notin Swept
  BY <1>2 DEF LevelAfterSweep
<1>. QED BY <1>1, <1>2

LEMMA ConservationStep ==
  DroppedOnlyWhenFull /\ IInv /\ Conservation /\ [Next]_vars => Conservation'
<1> SUFFICES ASSUME DroppedOnlyWhenFull, IInv, Conservation, [Next]_vars
             PROVE  Conservation'
  OBVIOUS
<1> USE FullIsNat, LimitsAreNumbers DEF IInv, TypeOK, Conservation
<1>1. CASE Tick
  BY <1>1 DEF Tick
<1>2. ASSUME NEW k \in Key, Allow(k) PROVE Conservation'
  <2>1. \A j \in Key : LevelAfterSweep(j) = level[j]
    BY SweepLosesNothing
  <2>2. UNCHANGED <<now, mark>>
    BY <1>2 DEF Allow
  <2>3. ASSUME NEW j \in Key PROVE taken'[j] + level'[j] = taken[j] + level[j]
    <3>1. CASE j # k
      BY <1>2, <2>1, <3>1 DEF Allow
    <3>2. CASE j = k /\ Covers(level[k])
      BY <1>2, <2>1, <3>2 DEF Allow
    <3>3. CASE j = k /\ ~Covers(level[k])
      BY <1>2, <2>1, <3>3 DEF Allow
    <3>. QED BY <3>1, <3>2, <3>3
  <2>. QED BY <2>2, <2>3
<1>3. CASE Mark
  BY <1>3 DEF Mark
<1>4. CASE UNCHANGED vars
  BY <1>4 DEF vars
<1>. QED BY <1>1, <1>2, <1>3, <1>4 DEF Next

\* WindowBound: in any window, the burst and what time bought back.
THEOREM Bounded == DroppedOnlyWhenFull => (Spec => []WindowBound)
<1> SUFFICES ASSUME DroppedOnlyWhenFull PROVE Spec => []WindowBound
  OBVIOUS
<1>1. Init => Conservation
  BY InitInv
<1>2. IInv /\ Conservation /\ [Next]_vars => Conservation'
  BY ConservationStep
<1>3. IInv /\ Conservation => WindowBound
  <2> SUFFICES ASSUME IInv, Conservation, NEW k \in Key
               PROVE  taken[k] <= Full + (now - mark)
    BY DEF WindowBound
  <2>1. level[k] \in 0..Full /\ taken[k] \in Nat /\ now \in Nat /\ mark \in 0..now
    BY DEF IInv, TypeOK
  <2>2. taken[k] + level[k] <= Full + (now - mark)
    BY DEF Conservation
  <2>. QED BY <2>1, <2>2, FullIsNat
<1>. QED BY <1>1, <1>2, <1>3, Invariant, PTL DEF Spec

LEMMA RefinementStep ==
  DroppedOnlyWhenFull /\ IInv /\ [Next]_vars => [Bucket!Next]_(Bucket!vars)
<1> SUFFICES ASSUME DroppedOnlyWhenFull, IInv, [Next]_vars
             PROVE  [Bucket!Next]_(Bucket!vars)
  OBVIOUS
<1>1. CASE Tick
  BY <1>1 DEF Tick, Bucket!Tick, Bucket!Next
<1>2. ASSUME NEW k \in Key, Allow(k) PROVE Bucket!Next
  <2>1. \A j \in Key : LevelAfterSweep(j) = level[j]
    BY SweepLosesNothing
  <2>2. verdict' = [key |-> k, allowed |-> level[k] >= Refill]
    BY <1>2, <2>1 DEF Allow, Covers
  <2>3. level' = [level EXCEPT ![k] = IF level[k] >= Refill THEN level[k] - Refill ELSE level[k]]
    BY <1>2, <2>1 DEF Allow, Covers, IInv, TypeOK
  <2>4. Bucket!Allow(k)
    BY <2>2, <2>3 DEF Bucket!Allow
  <2>. QED BY <2>4 DEF Bucket!Next
<1>3. CASE Mark \/ UNCHANGED vars
  BY <1>3 DEF Mark, vars, Bucket!vars
<1>. QED BY <1>1, <1>2, <1>3 DEF Next

\* ImplementsTokenBucket: dropping idle buckets cannot be noticed.
THEOREM Implements == DroppedOnlyWhenFull => (Spec => ImplementsTokenBucket)
<1> SUFFICES ASSUME DroppedOnlyWhenFull PROVE Spec => ImplementsTokenBucket
  OBVIOUS
<1>1. Init => Bucket!Init
  BY DEF Init, Bucket!Init, Silent, Bucket!Silent
<1>2. IInv /\ [Next]_vars => [Bucket!Next]_(Bucket!vars)
  BY RefinementStep
<1>. QED BY <1>1, <1>2, Invariant, PTL DEF Spec, Bucket!Spec, ImplementsTokenBucket

-------------------------------------------------------------------------------
(* With any settings.                                                      *)

(* Whoever lets one refill pass between two calls is granted the second,    *)
(* whatever other keys do, refusals in between or not, and whenever idle    *)
(* buckets are swept: the limit is not tighter than it says (Allow).        *)
THEOREM SpacedCallsAreGranted ==
    Burst > 0 =>
        (Spec => [][\A k \in Key : Allow(k) /\ (k \in buckets => now - seen[k] >= Refill)
                                   => verdict'.allowed]_vars)
<1> SUFFICES ASSUME Burst > 0
             PROVE  Spec => [][\A k \in Key :
                                   Allow(k) /\ (k \in buckets => now - seen[k] >= Refill)
                                   => verdict'.allowed]_vars
  OBVIOUS
<1>1. Full >= Refill
  BY LimitsAreNumbers DEF Full
<1>2. ASSUME IInv, NEW k \in Key, Allow(k), k \in buckets => now - seen[k] >= Refill
      PROVE  verdict'.allowed
  <2>1. level[k] >= Refill
    BY <1>1, <1>2, FullIsNat, LimitsAreNumbers DEF IInv, TypeOK, CreditSinceSeen
  <2>2. LevelAfterSweep(k) >= Refill
    BY <1>1, <2>1 DEF LevelAfterSweep
  <2>3. verdict'.allowed = Covers(LevelAfterSweep(k))
    BY <1>2 DEF Allow
  <2>. QED BY <2>2, <2>3 DEF Covers
<1>3. IInv /\ [Next]_vars =>
        [\A k \in Key : Allow(k) /\ (k \in buckets => now - seen[k] >= Refill)
                        => verdict'.allowed]_vars
  BY <1>2
<1>. QED BY <1>3, Invariant, PTL DEF Spec

\* A bucket that is dropped before it is full gives its key a burst too much.
\* What the key took up to when it was seen last pays for it.
Period == IdleTTL + 1

TakenWhenSeen ==
    \A k \in Key : \/ taken[k] = 0
                   \/ /\ seen[k] >= mark
                      /\ Period * taken[k] <= Period * Full + Full * (seen[k] - mark)

TakenAndLeft ==
    \A k \in Key : Period * (taken[k] + level[k]) <= Period * Full + Full * (now - mark)

LEMMA EarlyStep ==
  ~DroppedOnlyWhenFull /\ IInv /\ TakenWhenSeen /\ TakenAndLeft /\ [Next]_vars
    => TakenWhenSeen' /\ TakenAndLeft'
<1> SUFFICES ASSUME ~DroppedOnlyWhenFull, IInv, TakenWhenSeen, TakenAndLeft, [Next]_vars
             PROVE  TakenWhenSeen' /\ TakenAndLeft'
  OBVIOUS
<1> USE FullIsNat, LimitsAreNumbers
<1>1. Period \in Nat /\ Full \in Nat /\ Period <= Full
  BY DEF Period, DroppedOnlyWhenFull
<1>2. /\ now \in Nat /\ mark \in 0..now
      /\ \A k \in Key : level[k] \in 0..Full /\ seen[k] \in 0..now /\ taken[k] \in Nat
      /\ level \in [Key -> 0..Full] /\ seen \in [Key -> 0..now] /\ taken \in [Key -> Nat]
  BY DEF IInv, TypeOK
<1>3. CASE Tick
  <2>1. /\ now' = now + 1 /\ UNCHANGED <<seen, mark, taken>>
        /\ \A k \in Key : level'[k] \in {level[k], level[k] + 1}
    BY <1>3 DEF Tick
  <2>2. ASSUME NEW k \in Key
        PROVE  Period * (taken'[k] + level'[k]) <= Period * Full + Full * (now' - mark')
    <3>1. Period * (taken[k] + level[k]) <= Period * Full + Full * (now - mark)
      BY DEF TakenAndLeft
    <3>2. Full * (now + 1 - mark) = Full * (now - mark) + Full
      BY <1>1, <1>2
    <3>3. Period * (taken[k] + level[k] + 1) = Period * (taken[k] + level[k]) + Period
      BY <1>1, <1>2
    <3>. QED BY <1>1, <1>2, <2>1, <3>1, <3>2, <3>3
  <2>. QED BY <1>1, <2>1, <2>2 DEF TakenWhenSeen, TakenAndLeft, Period
<1>4. ASSUME NEW k \in Key, Allow(k) PROVE TakenWhenSeen' /\ TakenAndLeft'
  <2>1. /\ UNCHANGED <<now, mark>> /\ seen' = [seen EXCEPT ![k] = now]
        /\ \A j \in Key : taken'[j] + level'[j] = taken[j] + LevelAfterSweep(j)
        /\ \A j \in Key \ {k} : taken'[j] = taken[j]
        /\ \A j \in Key : taken'[j] \in Nat /\ level'[j] \in Nat
    BY <1>2, <1>4 DEF Allow, LevelAfterSweep, Covers
  <2>2. ASSUME NEW j \in Key
        PROVE  Period * (taken[j] + LevelAfterSweep(j)) <= Period * Full + Full * (now - mark)
    <3>1. CASE j \notin Swept
      BY <3>1 DEF TakenAndLeft, LevelAfterSweep
    <3>2. CASE j \in Swept
      <4>1. LevelAfterSweep(j) = Full /\ now - seen[j] >= Period
        BY <1>2, <3>2 DEF LevelAfterSweep, Swept, IdleBuckets, Period
      <4>2. Period * (taken[j] + Full) = Period * taken[j] + Period * Full
        BY <1>1, <1>2
      <4>3. CASE taken[j] = 0
        <5>1. Full * (now - mark) >= 0
          BY <1>1, <1>2
        <5>2. taken[j] + LevelAfterSweep(j) = Full
          BY <1>1, <4>1, <4>3
        <5>3. Period * Full \in Nat /\ Full * (now - mark) \in Int
          BY <1>1, <1>2
        <5>. QED BY <5>1, <5>2, <5>3
      <4>4. CASE /\ seen[j] >= mark
                 /\ Period * taken[j] <= Period * Full + Full * (seen[j] - mark)
        <5>1. Full * (now - mark) = Full * (seen[j] - mark) + Full * (now - seen[j])
          BY <1>1, <1>2
        <5>2. Full * (now - seen[j]) >= Full * Period
          BY <1>1, <1>2, <4>1
        <5>3. Full * Period = Period * Full
          BY <1>1
        <5>. QED BY <1>1, <1>2, <4>1, <4>2, <4>4, <5>1, <5>2, <5>3
      <4>. QED BY <4>3, <4>4 DEF TakenWhenSeen
    <3>. QED BY <3>1, <3>2
  <2>3. TakenAndLeft'
    BY <2>1, <2>2 DEF TakenAndLeft, Period
  <2>4. TakenWhenSeen'
    <3>1. ASSUME NEW j \in Key, j # k
          PROVE  \/ taken'[j] = 0
                 \/ /\ seen'[j] >= mark'
                    /\ Period * taken'[j] <= Period * Full + Full * (seen'[j] - mark')
      BY <1>2, <2>1, <3>1 DEF TakenWhenSeen
    <3>2. seen'[k] = now /\ now >= mark
      BY <1>2, <2>1
    <3>3. Period * taken'[k] <= Period * Full + Full * (now - mark)
      <4>1. Period * (taken'[k] + level'[k]) <= Period * Full + Full * (now - mark)
        BY <2>1, <2>2
      <4>2. Period * (taken'[k] + level'[k]) = Period * taken'[k] + Period * level'[k]
        BY <1>1, <2>1
      <4>3. Period * level'[k] >= 0
        BY <1>1, <2>1
      <4>. QED BY <1>1, <1>2, <2>1, <4>1, <4>2, <4>3
    <3>. QED BY <2>1, <3>1, <3>2, <3>3 DEF TakenWhenSeen, Period
  <2>. QED BY <2>3, <2>4
<1>5. CASE Mark
  <2>1. mark' = now /\ UNCHANGED <<now, level, seen>> /\ \A k \in Key : taken'[k] = 0
    BY <1>5 DEF Mark
  <2>2. ASSUME NEW k \in Key PROVE Period * (0 + level[k]) <= Period * Full + Full * (now - now)
    BY <1>1, <1>2
  <2>. QED BY <2>1, <2>2 DEF TakenWhenSeen, TakenAndLeft, Period
<1>6. CASE UNCHANGED vars
  BY <1>6 DEF vars, TakenWhenSeen, TakenAndLeft, Period
<1>. QED BY <1>3, <1>4, <1>5, <1>6 DEF Next

(* What is promised where a bucket may be dropped before it is full, as a   *)
(* slow rate makes it: in any stretch of time a key is granted a burst, and *)
(* another for every idle time that has passed, and no more.                *)
BurstPerIdleTime == \A k \in Key : Period * taken[k] <= Full * (Period + (now - mark))

\* BurstPerIdleTime, for every setting that DroppedOnlyWhenFull excludes: what
\* sweepLocked's forgetting costs at most.
THEOREM BoundedAnyhow == ~DroppedOnlyWhenFull => (Spec => []BurstPerIdleTime)
<1> SUFFICES ASSUME ~DroppedOnlyWhenFull PROVE Spec => []BurstPerIdleTime
  OBVIOUS
<1> USE FullIsNat, LimitsAreNumbers
<1>1. Init => TakenWhenSeen /\ TakenAndLeft
  <2> SUFFICES ASSUME Init PROVE TakenWhenSeen /\ TakenAndLeft
    OBVIOUS
  <2>1. Period * (0 + Full) <= Period * Full + Full * (0 - 0)
    BY DEF Period
  <2>. QED BY <2>1 DEF Init, TakenWhenSeen, TakenAndLeft
<1>2. IInv /\ TakenWhenSeen /\ TakenAndLeft /\ [Next]_vars => TakenWhenSeen' /\ TakenAndLeft'
  BY EarlyStep
<1>3. IInv /\ TakenAndLeft => BurstPerIdleTime
  <2> SUFFICES ASSUME IInv, TakenAndLeft, NEW k \in Key
               PROVE  Period * taken[k] <= Full * (Period + (now - mark))
    BY DEF BurstPerIdleTime
  <2>1. /\ level[k] \in Nat /\ taken[k] \in Nat /\ now \in Nat /\ mark \in 0..now
        /\ Period \in Nat
    BY DEF IInv, TypeOK, Period
  <2>2. Period * (taken[k] + level[k]) <= Period * Full + Full * (now - mark)
    BY DEF TakenAndLeft
  <2>3. Period * (taken[k] + level[k]) = Period * taken[k] + Period * level[k]
    BY <2>1
  <2>4. Period * level[k] >= 0
    BY <2>1
  <2>5. Full * (Period + (now - mark)) = Period * Full + Full * (now - mark)
    BY <2>1
  <2>. QED BY <2>1, <2>2, <2>3, <2>4, <2>5
<1>. QED BY <1>1, <1>2, <1>3, Invariant, PTL DEF Spec
===============================================================================
