---------------------- MODULE ReentrantFileLockProofs ----------------------
(***************************************************************************)
(* For any number of threads and lock objects, any nesting and any number  *)
(* of interrupted acquires: the invariant LockInv, mutual exclusion, and   *)
(* the refinement of Mutex.                                                *)
(***************************************************************************)
EXTENDS ReentrantFileLock, TLAPS

(* The initial state satisfies the invariant: nobody is inside. *)
LEMMA InitLockInv == Init => LockInv
  BY LockAssumption DEF Init, LockInv, TypeOK, OwnsRLock, InsideHoldsFile,
     CountersCoverDepth, Inside, Entering, Leaving

(* No step of any thread or process, interrupted or not, breaks it. *)
LEMMA NextLockInv == LockInv /\ [InterruptNext]_vars => LockInv'
<1> SUFFICES ASSUME LockInv, [InterruptNext]_vars PROVE LockInv'
  OBVIOUS
<1> USE LockAssumption DEF LockInv, TypeOK, OwnsRLock, InsideHoldsFile,
        CountersCoverDepth, Inside, Entering, Leaving
<1>1. ASSUME NEW t \in Threads, Call(t) PROVE LockInv'
  BY <1>1 DEF Call
<1>2. ASSUME NEW t \in Threads, AcquireRLock(t) PROVE LockInv'
  BY <1>2 DEF AcquireRLock
<1>3. ASSUME NEW t \in Threads, AcquireFlock(t) PROVE LockInv'
  BY <1>3 DEF AcquireFlock
<1>4. ASSUME NEW t \in Threads, ReleaseFlock(t) PROVE LockInv'
  BY <1>4 DEF ReleaseFlock
<1>5. ASSUME NEW t \in Threads, ReleaseRLock(t) PROVE LockInv'
  BY <1>5 DEF ReleaseRLock
<1>6. ASSUME NEW t \in Threads, FlockRaises(t) PROVE LockInv'
  BY <1>6 DEF FlockRaises
<1>7. ASSUME NEW o \in Locks, DiscardUnused(o) PROVE LockInv'
  BY <1>7 DEF DiscardUnused, Discard, DropFile, Users
<1>8. ASSUME NEW o \in Locks, Crash(o) PROVE LockInv'
  BY <1>8 DEF Crash, DropFile, Users
<1>9. CASE UNCHANGED vars
  BY <1>9 DEF vars
<1>10. QED
  BY <1>1, <1>2, <1>3, <1>4, <1>5, <1>6, <1>7, <1>8, <1>9
  DEF InterruptNext, Next, Acquire, Release

(* Every state the lock can reach satisfies the invariant, interrupts      *)
(* included.                                                               *)
LEMMA LockInvariant == InterruptSpec => []LockInv
  BY InitLockInv, NextLockInv, PTL DEF InterruptSpec

(* Two threads inside hold the file of the same object, whose RLock has    *)
(* one owner.                                                              *)
LEMMA InvExcludes == LockInv => MutualExclusion
  BY DEF LockInv, OwnsRLock, InsideHoldsFile, MutualExclusion

(* lock.py:12: threads and processes exclude each other, whatever their    *)
(* number, even when waits for the file are interrupted.                   *)
THEOREM LockExcludes == InterruptSpec => []MutualExclusion
  BY LockInvariant, InvExcludes, PTL

(* The invariant that a run checks holds for every number of threads.     *)
THEOREM LockInvHolds == InterruptSpec => []LockInv
  BY LockInvariant

(* An inner block never unlocks the file under an outer one. *)
THEOREM LockHeldInside == InterruptSpec => []InsideHoldsFile
<1>1. LockInv => InsideHoldsFile
  BY DEF LockInv
<1>2. QED
  BY <1>1, LockInvariant, PTL

-----------------------------------------------------------------------------
(* The refinement mapping names the thread inside, when there is one. *)
LEMMA HolderIsInside ==
  ASSUME LockInv, NEW t \in Threads, Inside(t)
  PROVE  holderBar = t
<1>1. \A u \in Threads : Inside(u) => u = t
  BY InvExcludes DEF MutualExclusion
<1>2. QED
  BY <1>1 DEF holderBar

(* With nobody inside, the mutex is free. *)
LEMMA HolderIsNone ==
  ASSUME \A t \in Threads : ~Inside(t)
  PROVE  holderBar = None
  BY DEF holderBar

(* A step that moves nobody in or out of a block is a stutter. *)
LEMMA SameInsideSameHolder ==
  ASSUME \A t \in Threads : Inside(t)' <=> Inside(t)
  PROVE  holderBar' = holderBar
  BY DEF holderBar, Inside

(* Entering and leaving the outermost block are the steps of the mutex. *)
LEMMA AcquireFlockRefines ==
  ASSUME LockInv, LockInv', NEW t \in Threads, AcquireFlock(t)
  PROVE  [Abstract!Next]_holderBar
<1> USE LockAssumption DEF LockInv, TypeOK
<1>1. /\ \A u \in Threads : u # t => (Inside(u)' <=> Inside(u))
      /\ Inside(t)'
  BY DEF AcquireFlock, Inside
<1>2. CASE Inside(t)
  BY <1>1, <1>2, SameInsideSameHolder
<1>3. CASE ~Inside(t)
  <2>1. \A u \in Threads : ~Inside(u)
    <3>1. /\ flocked \in {None, LockOf[t]}
          /\ owner[LockOf[t]] = t
      BY DEF AcquireFlock, OwnsRLock, Entering
    <3>2. ASSUME NEW u \in Threads, Inside(u) PROVE u = t
      <4>1. flocked = LockOf[u] /\ owner[LockOf[u]] = u
        BY <3>2 DEF InsideHoldsFile, OwnsRLock
      <4>2. LockOf[u] # None
        OBVIOUS
      <4>3. QED
        BY <3>1, <4>1, <4>2
    <3>3. QED
      BY <1>3, <3>2
  <2>2. holderBar = None
    BY <2>1, HolderIsNone
  <2>3. holderBar' = t
    <3>1. \A u \in Threads : Inside(u)' => u = t
      BY <1>1, <2>1
    <3>2. QED
      BY <3>1, <1>1 DEF holderBar
  <2>4. QED
    BY <2>2, <2>3 DEF Abstract!Next, Abstract!Enter
<1>4. QED
  BY <1>2, <1>3

(* ... leaving the outermost block is Leave, an inner one a stutter ...    *)
LEMMA ReleaseFlockRefines ==
  ASSUME LockInv, NEW t \in Threads, ReleaseFlock(t)
  PROVE  [Abstract!Next]_holderBar
<1> USE LockAssumption DEF LockInv, TypeOK
<1>1. /\ Inside(t)
      /\ depth[t] \in Nat
      /\ depth'[t] = depth[t] - 1
      /\ \A u \in Threads : u # t => (Inside(u)' <=> Inside(u))
  BY DEF ReleaseFlock, Inside
<1>2. CASE depth[t] > 1
  <2>1. Inside(t)'
    BY <1>1, <1>2 DEF Inside
  <2>2. QED
    BY <1>1, <2>1, SameInsideSameHolder
<1>3. CASE depth[t] = 1
  <2>1. \A u \in Threads : ~Inside(u)'
    BY <1>1, <1>3, InvExcludes DEF MutualExclusion, Inside
  <2>2. holderBar' = None
    BY <2>1 DEF holderBar
  <2>3. holderBar = t
    BY <1>1, HolderIsInside
  <2>4. QED
    BY <2>2, <2>3 DEF Abstract!Next, Abstract!Leave
<1>4. QED
  BY <1>1, <1>2, <1>3 DEF Inside

(* ... and the death of the process of the thread inside is Leave, too.    *)
LEMMA CrashRefines ==
  ASSUME LockInv, NEW o \in Locks, Crash(o)
  PROVE  [Abstract!Next]_holderBar
<1> USE LockAssumption DEF LockInv, TypeOK
<1>1. \A u \in Threads : Inside(u)' <=> Inside(u) /\ u \notin Users(o)
  BY DEF Crash, Inside
<1>2. CASE \E t \in Users(o) : Inside(t)
  <2>1. PICK t \in Users(o) : Inside(t)
    BY <1>2
  <2>2. t \in Threads
    BY DEF Users
  <2>3. holderBar = t
    BY <2>1, <2>2, HolderIsInside
  <2>4. \A u \in Threads : ~Inside(u)'
    BY <1>1, <2>1, <2>2, InvExcludes DEF MutualExclusion
  <2>5. holderBar' = None
    BY <2>4 DEF holderBar
  <2>6. QED
    BY <2>2, <2>3, <2>5 DEF Abstract!Next, Abstract!Leave
<1>3. CASE ~ \E t \in Users(o) : Inside(t)
  <2>1. \A u \in Threads : Inside(u)' <=> Inside(u)
    BY <1>1, <1>3 DEF Users
  <2>2. QED
    BY <2>1, SameInsideSameHolder
<1>4. QED
  BY <1>2, <1>3

(* Every other step leaves depth, and so the holder, alone. *)
LEMMA StepRefines ==
  LockInv /\ LockInv' /\ [InterruptNext]_vars => [Abstract!Next]_holderBar
<1> SUFFICES ASSUME LockInv, LockInv', [InterruptNext]_vars
             PROVE  [Abstract!Next]_holderBar
  OBVIOUS
<1>1. ASSUME depth' = depth PROVE holderBar' = holderBar
  BY <1>1, SameInsideSameHolder DEF Inside
<1>2. ASSUME NEW t \in Threads, Call(t) PROVE [Abstract!Next]_holderBar
  BY <1>1, <1>2 DEF Call
<1>3. ASSUME NEW t \in Threads, AcquireRLock(t) PROVE [Abstract!Next]_holderBar
  BY <1>1, <1>3 DEF AcquireRLock
<1>4. ASSUME NEW t \in Threads, ReleaseRLock(t) PROVE [Abstract!Next]_holderBar
  BY <1>1, <1>4 DEF ReleaseRLock
<1>5. ASSUME NEW o \in Locks, DiscardUnused(o) PROVE [Abstract!Next]_holderBar
  BY <1>1, <1>5 DEF DiscardUnused, Discard
<1>6. ASSUME NEW t \in Threads, FlockRaises(t) PROVE [Abstract!Next]_holderBar
  BY <1>1, <1>6 DEF FlockRaises
<1>7. CASE UNCHANGED vars
  BY <1>1, <1>7 DEF vars
<1>8. QED
  BY <1>2, <1>3, <1>4, <1>5, <1>6, <1>7, AcquireFlockRefines,
     ReleaseFlockRefines, CrashRefines DEF InterruptNext, Next, Acquire, Release

(* The lock implements the abstract mutex: what the controllers assume of  *)
(* `with self.__flock` is what lock.py does, for any number of threads,    *)
(* processes and nested blocks, interrupted waits included.                *)
THEOREM LockImplementsMutex == InterruptSpec => ImplementsMutex
<1>1. Init => Abstract!Init
  BY HolderIsNone DEF Init, Inside, Abstract!Init
<1>2. QED
  BY <1>1, StepRefines, LockInvariant, PTL
  DEF InterruptSpec, ImplementsMutex, Abstract!Spec

-----------------------------------------------------------------------------
(* The file of an object that has the flock is open; the rest is what      *)
(* LockInv says of the counters.                                           *)
FlockedIsOpen == flocked # None => open[flocked]

OrphanInv == LockInv /\ FlockedIsOpen /\ NoOrphanedFlock

(* Who owns the RLock of the object is the only one of its users that can  *)
(* be inside or on the way in: the others add nothing to num_holds.        *)
LEMMA OthersAreOut ==
  ASSUME LockInv, NEW t \in Threads, owner[LockOf[t]] = t,
         NEW u \in Users(LockOf[t]), u # t
  PROVE  u \in Threads /\ ~Inside(u) /\ ~Entering(u) /\ depth[u] = 0
  BY LockAssumption DEF LockInv, TypeOK, OwnsRLock, Users, Inside

(* Leaving an outermost block unlocks the file, unless num_holds counts    *)
(* more than this block.                                                   *)
LEMMA ReleaseOrphansNothing ==
  ASSUME OrphanInv, LockInv', NEW t \in Threads, ReleaseFlock(t)
  PROVE  NoOrphanedFlock'
<1> USE LockAssumption DEF OrphanInv, LockInv, TypeOK
<1> DEFINE o == LockOf[t]
<1>1. /\ pc[t] = "run" /\ Inside(t) /\ holds' = [holds EXCEPT ![o] = @ - 1]
      /\ depth' = [depth EXCEPT ![t] = @ - 1] /\ pc' = [pc EXCEPT ![t] = "unlock"]
      /\ flocked' = (IF holds[o] = 1 /\ flocked = o THEN None ELSE flocked)
      /\ UNCHANGED open
  BY DEF ReleaseFlock
<1>2. flocked = o /\ owner[o] = t BY <1>1 DEF InsideHoldsFile, OwnsRLock
<1>3. SUFFICES ASSUME flocked' # None, ~Inside(t)' PROVE Leaked(o)'
  BY <1>1, <1>2 DEF NoOrphanedFlock, Users
<1>4. flocked' = o /\ holds[o] # 1 /\ depth[t] = 1 BY <1>1, <1>2, <1>3 DEF Inside
<1>5. holds[o] \in Nat /\ depth[t] <= holds[o] BY <1>1 DEF CountersCoverDepth
<1>6. holds'[o] > 0 BY <1>1, <1>4, <1>5
<1>7. ASSUME NEW u \in Users(o)
      PROVE  depth'[u] = 0 /\ ~Entering(u)'
  <2>1. CASE u = t BY <1>1, <1>4, <2>1 DEF Entering
  <2>2. CASE u # t BY <1>1, <1>2, <2>2, OthersAreOut DEF Entering
  <2>3. QED BY <2>1, <2>2
<1>8. open'[o] BY <1>1, <1>2, <1>4 DEF FlockedIsOpen
<1>9. \A u \in Users(o) : holds'[o] > depth'[u] + (IF Entering(u)' THEN 1 ELSE 0)
  BY <1>6, <1>7
<1>10. QED BY <1>8, <1>9 DEF Leaked, Users

(* An interrupted wait leaves num_holds above what anybody will release.   *)
LEMMA InterruptLeaks ==
  ASSUME OrphanInv, NEW t \in Threads, FlockRaises(t)
  PROVE  NoOrphanedFlock'
<1> USE LockAssumption DEF OrphanInv, LockInv, TypeOK
<1> DEFINE o == LockOf[t]
<1>1. /\ Entering(t) /\ pc' = [pc EXCEPT ![t] = "run"]
      /\ UNCHANGED <<depth, owner, count, holds, open, flocked>>
  BY DEF FlockRaises, Entering
<1>2. owner[o] = t /\ depth[t] + 1 <= holds[o] BY <1>1 DEF OwnsRLock, CountersCoverDepth
<1>3. CASE flocked = o
  <2>1. ASSUME NEW u \in Users(o)
        PROVE  ~Entering(u)' /\ depth'[u] \in Nat /\ depth'[u] < holds'[o]
    <3>1. CASE u = t BY <1>1, <1>2, <3>1 DEF Entering
    <3>2. CASE u # t
      <4>1. u \in Threads /\ ~Entering(u) /\ depth[u] = 0 BY <1>2, <3>2, OthersAreOut
      <4>2. QED BY <1>1, <1>2, <3>2, <4>1 DEF Entering
    <3>3. QED BY <3>1, <3>2
  <2>2. open'[o] BY <1>1, <1>3, LockAssumption DEF FlockedIsOpen
  <2>3. \A u \in Users(o) : holds'[o] > depth'[u] + (IF Entering(u)' THEN 1 ELSE 0)
    BY <1>1, <2>1
  <2>4. Leaked(o)' BY <2>2, <2>3 DEF Leaked, Users
  <2>5. QED BY <1>1, <1>3, <2>4 DEF NoOrphanedFlock
<1>4. CASE flocked # o
  BY <1>1, <1>4 DEF NoOrphanedFlock, Users, Inside, Entering, Leaked
<1>5. QED BY <1>3, <1>4

LEMMA NextOrphanInv == OrphanInv /\ [InterruptNext]_vars => OrphanInv'
<1> SUFFICES ASSUME OrphanInv, [InterruptNext]_vars PROVE OrphanInv' OBVIOUS
<1> USE LockAssumption DEF OrphanInv
<1>1. LockInv' BY NextLockInv
<1>2. FlockedIsOpen'
  BY DEF LockInv, TypeOK, FlockedIsOpen, InterruptNext, Next, vars, Call, Acquire, Release,
     AcquireRLock, AcquireFlock, ReleaseFlock, ReleaseRLock, FlockRaises, DiscardUnused,
     Discard, Crash, DropFile
<1>3. NoOrphanedFlock'
  <2> USE DEF LockInv, TypeOK, NoOrphanedFlock, Users, Inside, Entering, Leaked
  <2>1. ASSUME NEW t \in Threads, Call(t) PROVE NoOrphanedFlock' BY <2>1 DEF Call
  <2>2. ASSUME NEW t \in Threads, AcquireRLock(t) PROVE NoOrphanedFlock' BY <2>2 DEF AcquireRLock
  <2>3. ASSUME NEW t \in Threads, AcquireFlock(t) PROVE NoOrphanedFlock' BY <2>3 DEF AcquireFlock
  <2>4. ASSUME NEW t \in Threads, ReleaseFlock(t) PROVE NoOrphanedFlock'
    BY <1>1, <2>4, ReleaseOrphansNothing
  <2>5. ASSUME NEW t \in Threads, ReleaseRLock(t) PROVE NoOrphanedFlock' BY <2>5 DEF ReleaseRLock
  <2>6. ASSUME NEW t \in Threads, FlockRaises(t) PROVE NoOrphanedFlock' BY <2>6, InterruptLeaks
  <2>7. ASSUME NEW o \in Locks, DiscardUnused(o) PROVE NoOrphanedFlock'
    BY <2>7 DEF DiscardUnused, Discard, DropFile
  <2>8. ASSUME NEW o \in Locks, Crash(o) PROVE NoOrphanedFlock' BY <2>8 DEF Crash, DropFile
  <2>9. CASE UNCHANGED vars BY <2>9 DEF vars
  <2>10. QED
    BY <2>1, <2>2, <2>3, <2>4, <2>5, <2>6, <2>7, <2>8, <2>9
    DEF InterruptNext, Next, Acquire, Release
<1>4. QED BY <1>1, <1>2, <1>3

(* Whatever threads and processes do, and whoever dies: the file is locked *)
(* only for a thread that is inside or on its way in, or because a wait    *)
(* for it was interrupted (lock.py acquire and release).                   *)
THEOREM NoFlockOrphaned == InterruptSpec => []NoOrphanedFlock
<1>1. Init => OrphanInv
  BY InitLockInv DEF Init, OrphanInv, FlockedIsOpen, NoOrphanedFlock
<1>2. OrphanInv => NoOrphanedFlock BY DEF OrphanInv
<1>3. QED BY <1>1, <1>2, NextOrphanInv, PTL DEF InterruptSpec
=============================================================================
