------------------------------- MODULE Mutex -------------------------------
(***************************************************************************)
(* What ReentrantFileLock promises to AwgCtrl and CaptureCtrl: of all the  *)
(* threads of all the processes that control one e7awg device, at most one *)
(* is inside a `with self.__flock` block.  The only state is who that is.  *)
(***************************************************************************)
CONSTANTS
  Threads,   (* every thread of every process that uses the lock file *)
  None       (* nobody is inside                                      *)

VARIABLE holder

Init == holder = None

(* The outermost `with` of thread t is entered, and left. *)
Enter(t) == holder = None /\ holder' = t

Leave(t) == holder = t /\ holder' = None

Next == \E t \in Threads : Enter(t) \/ Leave(t)

Spec == Init /\ [][Next]_holder
=============================================================================
