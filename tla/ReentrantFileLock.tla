------------------------- MODULE ReentrantFileLock -------------------------
(***************************************************************************)
(* e7awgsw/lock.py.  A lock object pairs a threading.RLock, which excludes *)
(* the other threads that share the object, with an flock(2) on an open    *)
(* file of its own, which excludes the other objects on the same path, in  *)
(* this process or in another one.  num_holds counts the nested acquire()  *)
(* calls, so that only the outermost release() unlocks the file.           *)
(*                                                                         *)
(* AwgCtrl and CaptureCtrl use the object only through `with`, nested at   *)
(* most two deep (_start_awgs calls __select_ctrl_target), and discard it  *)
(* in close().                                                             *)
(***************************************************************************)
EXTENDS Naturals

CONSTANTS
  Threads,    (* threads that use the lock                                  *)
  Locks,      (* lock objects on one path                                   *)
  LockOf,     (* the object each thread uses: its controller's              *)
  MaxDepth,   (* bound: deepest nesting of `with` blocks in the callers     *)
  MaxHolds,   (* bound: value of num_holds at which interrupts stop         *)
  None        (* no thread, no object                                       *)

ASSUME LockAssumption ==
  /\ LockOf \in [Threads -> Locks]
  /\ MaxDepth \in Nat \ {0}
  /\ MaxHolds \in Nat
  /\ None \notin Threads
  /\ None \notin Locks

VARIABLES
  pc,         (* where each thread is in acquire() or release()             *)
  depth,      (* how many `with` blocks of the lock a thread is inside      *)
  owner,      (* thread that owns the object's RLock                        *)
  count,      (* recursion level of the RLock                               *)
  holds,      (* num_holds of the object                                    *)
  open,       (* is the object's lock file open?                            *)
  flocked     (* object whose open file has the exclusive flock             *)

vars == <<pc, depth, owner, count, holds, open, flocked>>

Inside(t) == depth[t] > 0

Users(o) == {t \in Threads : LockOf[t] = o}

Init ==
  /\ pc = [t \in Threads |-> "run"]
  /\ depth = [t \in Threads |-> 0]
  /\ owner = [o \in Locks |-> None]
  /\ count = [o \in Locks |-> 0]
  /\ holds = [o \in Locks |-> 0]
  /\ open = [o \in Locks |-> TRUE]
  /\ flocked = None

-----------------------------------------------------------------------------
(* acquire() *)

(* The thread reaches a `with self.__flock`.  A controller that was closed *)
(* has __flock = None, and the statement raises before any lock is taken.  *)
Call(t) ==
  /\ pc[t] = "run"
  /\ depth[t] < MaxDepth
  /\ open[LockOf[t]]
  /\ pc' = [pc EXCEPT ![t] = "rlock"]
  /\ UNCHANGED <<depth, owner, count, holds, open, flocked>>

(* Mutant: no RLock, the flock alone. *)
AcquireRLockNoWait(t) ==
  LET o == LockOf[t] IN
  /\ pc[t] = "rlock"
  /\ owner' = [owner EXCEPT ![o] = t]
  /\ count' = [count EXCEPT ![o] = @ + 1]
  /\ holds' = [holds EXCEPT ![o] = @ + 1]
  /\ pc' = [pc EXCEPT ![t] = "flock"]
  /\ UNCHANGED <<depth, open, flocked>>

(* rlock.acquire(), then num_holds += 1 under it. *)
AcquireRLock(t) ==
  LET o == LockOf[t] IN
  /\ pc[t] = "rlock"
  /\ owner[o] \in {None, t}
  /\ owner' = [owner EXCEPT ![o] = t]
  /\ count' = [count EXCEPT ![o] = @ + 1]
  /\ holds' = [holds EXCEPT ![o] = @ + 1]
  /\ pc' = [pc EXCEPT ![t] = "flock"]
  /\ UNCHANGED <<depth, open, flocked>>

(* Mutant: a shared flock instead of an exclusive one. *)
AcquireFlockShared(t) ==
  LET o == LockOf[t] IN
  /\ pc[t] = "flock"
  /\ open[o]
  /\ flocked' = o
  /\ depth' = [depth EXCEPT ![t] = @ + 1]
  /\ pc' = [pc EXCEPT ![t] = "run"]
  /\ UNCHANGED <<owner, count, holds, open>>

(* flock(LOCK_EX) blocks while another open file has the lock; on the file *)
(* that already has it, it succeeds at once.                               *)
AcquireFlock(t) ==
  LET o == LockOf[t] IN
  /\ pc[t] = "flock"
  /\ open[o]
  /\ flocked \in {None, o}
  /\ flocked' = o
  /\ depth' = [depth EXCEPT ![t] = @ + 1]
  /\ pc' = [pc EXCEPT ![t] = "run"]
  /\ UNCHANGED <<owner, count, holds, open>>

(* The wait in flock() is interrupted (a signal handler raises, such as    *)
(* KeyboardInterrupt), or fileno() raises because the file was closed: the *)
(* block is not entered, so release() is never called, and the RLock and   *)
(* num_holds stay as they are.                                             *)
FlockRaises(t) ==
  /\ pc[t] = "flock"
  /\ pc' = [pc EXCEPT ![t] = "run"]
  /\ UNCHANGED <<depth, owner, count, holds, open, flocked>>

-----------------------------------------------------------------------------
(* release() *)

(* Mutant: every release() unlocks the file. *)
ReleaseFlockAlways(t) ==
  LET o == LockOf[t] IN
  /\ pc[t] = "run"
  /\ Inside(t)
  /\ open[o] \/ holds[o] > 1
  /\ holds' = [holds EXCEPT ![o] = @ - 1]
  /\ flocked' = IF flocked = o THEN None ELSE flocked
  /\ depth' = [depth EXCEPT ![t] = @ - 1]
  /\ pc' = [pc EXCEPT ![t] = "unlock"]
  /\ UNCHANGED <<owner, count, open>>

(* Mutant: num_holds is tested before it is counted down. *)
ReleaseFlockTestFirst(t) ==
  LET o == LockOf[t] IN
  /\ pc[t] = "run"
  /\ Inside(t)
  /\ open[o] \/ holds[o] > 1
  /\ holds' = [holds EXCEPT ![o] = @ - 1]
  /\ flocked' = IF holds[o] = 0 /\ flocked = o THEN None ELSE flocked
  /\ depth' = [depth EXCEPT ![t] = @ - 1]
  /\ pc' = [pc EXCEPT ![t] = "unlock"]
  /\ UNCHANGED <<owner, count, open>>

(* num_holds -= 1, and flock(LOCK_UN) when that was the outermost block. *)
ReleaseFlock(t) ==
  LET o == LockOf[t] IN
  /\ pc[t] = "run"
  /\ Inside(t)
  /\ open[o] \/ holds[o] > 1
  /\ holds' = [holds EXCEPT ![o] = @ - 1]
  /\ flocked' = IF holds[o] = 1 /\ flocked = o THEN None ELSE flocked
  /\ depth' = [depth EXCEPT ![t] = @ - 1]
  /\ pc' = [pc EXCEPT ![t] = "unlock"]
  /\ UNCHANGED <<owner, count, open>>

(* fileno() of the closed file raises: the RLock is not released. *)
ReleaseRaises(t) ==
  LET o == LockOf[t] IN
  /\ pc[t] = "run"
  /\ Inside(t)
  /\ ~open[o] /\ holds[o] = 1
  /\ holds' = [holds EXCEPT ![o] = @ - 1]
  /\ depth' = [depth EXCEPT ![t] = @ - 1]
  /\ UNCHANGED <<pc, owner, count, open, flocked>>

(* Mutant: only the outermost release() releases the RLock, once. *)
ReleaseRLockOutermostOnly(t) ==
  LET o == LockOf[t] IN
  /\ pc[t] = "unlock"
  /\ count' = [count EXCEPT ![o] = IF depth[t] = 0 THEN @ - 1 ELSE @]
  /\ owner' = [owner EXCEPT ![o] = IF count[o] = 1 THEN None ELSE @]
  /\ pc' = [pc EXCEPT ![t] = "run"]
  /\ UNCHANGED <<depth, holds, open, flocked>>

(* rlock.release() *)
ReleaseRLock(t) ==
  LET o == LockOf[t] IN
  /\ pc[t] = "unlock"
  /\ count' = [count EXCEPT ![o] = @ - 1]
  /\ owner' = [owner EXCEPT ![o] = IF count[o] = 1 THEN None ELSE @]
  /\ pc' = [pc EXCEPT ![t] = "run"]
  /\ UNCHANGED <<depth, holds, open, flocked>>

-----------------------------------------------------------------------------
(* discard() and the death of a process *)

(* Closing the last descriptor of an open file drops its flock. *)
DropFile(o) ==
  /\ open' = [open EXCEPT ![o] = FALSE]
  /\ flocked' = IF flocked = o THEN None ELSE flocked

(* close() of the controller discards the lock, whoever is using it. *)
Discard(o) ==
  /\ open[o]
  /\ DropFile(o)
  /\ UNCHANGED <<pc, depth, owner, count, holds>>

(* The same when no thread is in a method of the controller: the last      *)
(* statement of a `with AwgCtrl(...)` block.                               *)
DiscardUnused(o) ==
  /\ \A t \in Users(o) : pc[t] = "run" /\ ~Inside(t)
  /\ Discard(o)

(* The process that owns the object dies, at any step: its threads do no   *)
(* more, and the kernel closes its files.                                  *)
Crash(o) ==
  /\ open[o]
  /\ DropFile(o)
  /\ pc' = [t \in Threads |-> IF t \in Users(o) THEN "dead" ELSE pc[t]]
  /\ depth' = [t \in Threads |-> IF t \in Users(o) THEN 0 ELSE depth[t]]
  /\ UNCHANGED <<owner, count, holds>>

-----------------------------------------------------------------------------
Acquire(t) == AcquireRLock(t) \/ AcquireFlock(t)

Release(t) == ReleaseFlock(t) \/ ReleaseRLock(t)

(* Threads that acquire, release and close their controllers in order. *)
Next ==
  \/ \E t \in Threads : Call(t) \/ Acquire(t) \/ Release(t)
  \/ \E o \in Locks : DiscardUnused(o) \/ Crash(o)

Spec == Init /\ [][Next]_vars

(* A thread that is in release() runs on, an outermost block ends (it is   *)
(* straight-line code whose waits have timeouts, so it does not nest inner *)
(* blocks for ever), and a lock that keeps being released is not denied    *)
(* for ever: the kernel wakes the waiters of an flock, and the interpreter *)
(* those of an RLock.                                                      *)
Fairness ==
  \A t \in Threads :
    /\ WF_vars(Release(t))
    /\ SF_vars(depth[t] = 1 /\ ReleaseFlock(t))
    /\ SF_vars(AcquireRLock(t))
    /\ SF_vars(AcquireFlock(t))

(* ... and threads whose wait for the file may be interrupted. *)
InterruptNext ==
  \/ Next
  \/ \E t \in Threads : holds[LockOf[t]] < MaxHolds /\ FlockRaises(t)

InterruptSpec == Init /\ [][InterruptNext]_vars

FairSpec == InterruptSpec /\ Fairness

(* ... and controllers closed by one thread while another one uses them,   *)
(* as the LabRAD server's discard_awgctrl can do.                          *)
SharedDiscardNext ==
  \/ Next
  \/ \E t \in Threads :
       ReleaseRaises(t) \/ (~open[LockOf[t]] /\ FlockRaises(t))
  \/ \E o \in Locks : Discard(o)

SharedDiscardSpec == Init /\ [][SharedDiscardNext]_vars

-----------------------------------------------------------------------------
Entering(t) == pc[t] = "flock"
Leaving(t) == pc[t] = "unlock"

(* num_holds counts an acquire() that was interrupted, and that nobody     *)
(* will release.                                                           *)
Leaked(o) ==
  /\ open[o]
  /\ \A t \in Users(o) : holds[o] > depth[t] + (IF Entering(t) THEN 1 ELSE 0)

(* Every variable has the type its declaration says. *)
TypeOK ==
  /\ pc \in [Threads -> {"run", "rlock", "flock", "unlock", "dead"}]
  /\ depth \in [Threads -> Nat]
  /\ owner \in [Locks -> Threads \cup {None}]
  /\ count \in [Locks -> Nat]
  /\ holds \in [Locks -> Nat]
  /\ open \in [Locks -> BOOLEAN]
  /\ flocked \in Locks \cup {None}

(* lock.py:12, "exclusive between threads and between processes": no two   *)
(* threads are inside a block of the lock at once, whether they share the  *)
(* object or have objects of their own.                                    *)
MutualExclusion ==
  \A t, u \in Threads : Inside(t) /\ Inside(u) => t = u

(* The file stays locked only while a thread of that object is inside, or  *)
(* is between the two halves of acquire(): release() forgets nothing, and  *)
(* a process that dies leaves no lock behind for the others to wait on.    *)
(* Only an interrupted acquire() can orphan it.                            *)
NoOrphanedFlock ==
  flocked # None =>
    \/ \E t \in Users(flocked) : Inside(t) \/ Entering(t)
    \/ Leaked(flocked)

(* A thread that is inside holds the file: the nested release() of an inner*)
(* block does not unlock it under the outer one.                           *)
InsideHoldsFile == \A t \in Threads : Inside(t) => flocked = LockOf[t]

(* Why they hold.  A thread past rlock.acquire() owns the RLock of its     *)
(* object; one that is inside holds the file as well; and both counters    *)
(* count at least its nested blocks, so that they cannot reach zero before *)
(* the outermost one is left.                                              *)
OwnsRLock ==
  \A t \in Threads :
    Inside(t) \/ Entering(t) \/ Leaving(t) => owner[LockOf[t]] = t

CountersCoverDepth ==
  \A t \in Threads :
    /\ Inside(t) => depth[t] <= holds[LockOf[t]]
    /\ Entering(t) => depth[t] + 1 <= holds[LockOf[t]]
    /\ Inside(t) => depth[t] <= count[LockOf[t]]
    /\ Entering(t) \/ Leaving(t) => depth[t] + 1 <= count[LockOf[t]]

LockInv == TypeOK /\ OwnsRLock /\ InsideHoldsFile /\ CountersCoverDepth

(* What the callers rely on: the lock behaves as an abstract mutex whose   *)
(* holder is the thread inside; nested blocks do not show.                 *)
holderBar ==
  IF \E t \in Threads : Inside(t) THEN CHOOSE t \in Threads : Inside(t)
                                  ELSE None

Abstract == INSTANCE Mutex WITH holder <- holderBar

ImplementsMutex == Abstract!Spec

(* A thread that asks for the lock gets it, or its process dies, unless an *)
(* acquire() was interrupted: that one keeps everybody out.                *)
EveryCallerEnters ==
  \A t \in Threads :
    (pc[t] \in {"rlock", "flock"}) ~>
      \/ Inside(t) /\ pc[t] = "run"
      \/ pc[t] = "dead"
      \/ \E o \in Locks : Leaked(o)
=============================================================================
