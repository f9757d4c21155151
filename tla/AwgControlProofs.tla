-------------------------- MODULE AwgControlProofs --------------------------
(***************************************************************************)
(* For any number of clients and AWGs, any argument lists, and register    *)
(* accesses that fail anywhere.  First, that the methods of awgctrl.py     *)
(* keep their read-modify-writes of the master registers apart (Inv);      *)
(* then, from what the registers hold at each step of a method, what       *)
(* start_awgs, terminate_awgs and wait_for_awgs_to_stop promise            *)
(* (StartInv).                                                             *)
(***************************************************************************)
EXTENDS AwgControl, TLAPS

Kind(o, i) == Method(o)[i].kind

(* The step at which a method releases the lock it took in its first step, *)
(* or 0 if it takes none.                                                  *)
LeaveAt(o) ==
  CASE o = "start"      -> 11
    [] o = "terminate"  -> 0
    [] o = "reset"      -> 6
    [] o = "clear"      -> 7
    [] o = "initialize" -> 3
    [] o = "wait"       -> 0

KindsOf(o) ==
  /\ Len(Method(o)) \in Nat /\ Len(Method(o)) > 0
  /\ LeaveAt(o) \in Nat /\ LeaveAt(o) <= Len(Method(o))
  /\ LeaveAt(o) # 1

KindOf(o, i) ==
  /\ Kind(o, i) = "lock" <=> i = 1 /\ LeaveAt(o) # 0
  /\ Kind(o, i) = "unlock" <=> i = LeaveAt(o)
  /\ Kind(o, i) \in {"target", "master"} => i \in 2..LeaveAt(o)
  /\ Kind(o, i) \in {"own", "zero", "one", "again"} => i > LeaveAt(o)
  /\ Kind(o, i) \in {"lock", "unlock", "target", "master", "all", "own", "zero", "one", "again"}
  /\ Kind(o, i) \in {"master", "own"} => Method(o)[i].bit \in CtrlBits

(* The steps of StartAwgs. *)
LEMMA StartAwgsShape == KindsOf("start") /\ \A i \in 1..Len(Method("start")) : KindOf("start", i)
<1>1. Method("start") = StartAwgs BY DEF Method
<1>2. LeaveAt("start") = 11 BY DEF LeaveAt
<1>3. Len(Method("start")) = 11 BY <1>1 DEF StartAwgs
<1>4. /\ StartAwgs[1].kind = "lock"
      /\ StartAwgs[2].kind = "target"
      /\ StartAwgs[3].kind = "master" /\ StartAwgs[3].bit = "PREPARE"
      /\ StartAwgs[4].kind = "master" /\ StartAwgs[4].bit = "PREPARE"
      /\ StartAwgs[5].kind = "all"
      /\ StartAwgs[6].kind = "master" /\ StartAwgs[6].bit = "PREPARE"
      /\ StartAwgs[7].kind = "master" /\ StartAwgs[7].bit = "START"
      /\ StartAwgs[8].kind = "master" /\ StartAwgs[8].bit = "START"
      /\ StartAwgs[9].kind = "master" /\ StartAwgs[9].bit = "START"
      /\ StartAwgs[10].kind = "target"
      /\ StartAwgs[11].kind = "unlock"
  BY DEF StartAwgs, Lock, Unlock, Select, Deselect, Master, AwaitAll, Step
<1>5. ASSUME NEW i \in 1..11 PROVE i = 1 \/ i = 2 \/ i = 3 \/ i = 4 \/ i = 5 \/ i = 6 \/ i = 7 \/ i = 8 \/ i = 9 \/ i = 10 \/ i = 11
  OBVIOUS
<1>6. ASSUME NEW i \in 1..11 PROVE KindOf("start", i)
  BY <1>1, <1>2, <1>4, <1>5 DEF KindOf, Kind, CtrlBits
<1>7. KindsOf("start")
  <2>1. Len(Method("start")) \in Nat /\ Len(Method("start")) > 0 BY <1>3
  <2>2. LeaveAt("start") \in Nat /\ LeaveAt("start") # 1 BY <1>2
  <2>3. 11 <= 11 OBVIOUS
  <2>4. LeaveAt("start") <= Len(Method("start")) BY <1>2, <1>3, <2>3, Zenon
  <2>5. QED BY <2>1, <2>2, <2>4 DEF KindsOf
<1>8. QED BY <1>3, <1>6, <1>7

(* The steps of TerminateAwgs. *)
LEMMA TerminateAwgsShape == KindsOf("terminate") /\ \A i \in 1..Len(Method("terminate")) : KindOf("terminate", i)
<1>1. Method("terminate") = TerminateAwgs BY DEF Method
<1>2. LeaveAt("terminate") = 0 BY DEF LeaveAt
<1>3. Len(Method("terminate")) = 4 BY <1>1 DEF TerminateAwgs
<1>4. /\ TerminateAwgs[1].kind = "own" /\ TerminateAwgs[1].bit = "TERMINATE"
      /\ TerminateAwgs[2].kind = "one"
      /\ TerminateAwgs[3].kind = "own" /\ TerminateAwgs[3].bit = "TERMINATE"
      /\ TerminateAwgs[4].kind = "again"
  BY DEF TerminateAwgs, Own, AwaitOne, Again, Step
<1>5. ASSUME NEW i \in 1..4 PROVE i = 1 \/ i = 2 \/ i = 3 \/ i = 4
  OBVIOUS
<1>6. ASSUME NEW i \in 1..4 PROVE KindOf("terminate", i)
  BY <1>1, <1>2, <1>4, <1>5 DEF KindOf, Kind, CtrlBits
<1>7. KindsOf("terminate")
  <2>1. Len(Method("terminate")) \in Nat /\ Len(Method("terminate")) > 0 BY <1>3
  <2>2. LeaveAt("terminate") \in Nat /\ LeaveAt("terminate") # 1 BY <1>2
  <2>3. 0 <= 4 OBVIOUS
  <2>4. LeaveAt("terminate") <= Len(Method("terminate")) BY <1>2, <1>3, <2>3, Zenon
  <2>5. QED BY <2>1, <2>2, <2>4 DEF KindsOf
<1>8. QED BY <1>3, <1>6, <1>7

(* The steps of ResetAwgs. *)
LEMMA ResetAwgsShape == KindsOf("reset") /\ \A i \in 1..Len(Method("reset")) : KindOf("reset", i)
<1>1. Method("reset") = ResetAwgs BY DEF Method
<1>2. LeaveAt("reset") = 6 BY DEF LeaveAt
<1>3. Len(Method("reset")) = 6 BY <1>1 DEF ResetAwgs
<1>4. /\ ResetAwgs[1].kind = "lock"
      /\ ResetAwgs[2].kind = "target"
      /\ ResetAwgs[3].kind = "master" /\ ResetAwgs[3].bit = "RESET"
      /\ ResetAwgs[4].kind = "master" /\ ResetAwgs[4].bit = "RESET"
      /\ ResetAwgs[5].kind = "target"
      /\ ResetAwgs[6].kind = "unlock"
  BY DEF ResetAwgs, Lock, Unlock, Select, Deselect, Master, Step
<1>5. ASSUME NEW i \in 1..6 PROVE i = 1 \/ i = 2 \/ i = 3 \/ i = 4 \/ i = 5 \/ i = 6
  OBVIOUS
<1>6. ASSUME NEW i \in 1..6 PROVE KindOf("reset", i)
  BY <1>1, <1>2, <1>4, <1>5 DEF KindOf, Kind, CtrlBits
<1>7. KindsOf("reset")
  <2>1. Len(Method("reset")) \in Nat /\ Len(Method("reset")) > 0 BY <1>3
  <2>2. LeaveAt("reset") \in Nat /\ LeaveAt("reset") # 1 BY <1>2
  <2>3. 6 <= 6 OBVIOUS
  <2>4. LeaveAt("reset") <= Len(Method("reset")) BY <1>2, <1>3, <2>3, Zenon
  <2>5. QED BY <2>1, <2>2, <2>4 DEF KindsOf
<1>8. QED BY <1>3, <1>6, <1>7

(* The steps of ClearAwgStopFlags. *)
LEMMA ClearAwgStopFlagsShape == KindsOf("clear") /\ \A i \in 1..Len(Method("clear")) : KindOf("clear", i)
<1>1. Method("clear") = ClearAwgStopFlags BY DEF Method
<1>2. LeaveAt("clear") = 7 BY DEF LeaveAt
<1>3. Len(Method("clear")) = 7 BY <1>1 DEF ClearAwgStopFlags
<1>4. /\ ClearAwgStopFlags[1].kind = "lock"
      /\ ClearAwgStopFlags[2].kind = "target"
      /\ ClearAwgStopFlags[3].kind = "master" /\ ClearAwgStopFlags[3].bit = "DONE_CLR"
      /\ ClearAwgStopFlags[4].kind = "master" /\ ClearAwgStopFlags[4].bit = "DONE_CLR"
      /\ ClearAwgStopFlags[5].kind = "master" /\ ClearAwgStopFlags[5].bit = "DONE_CLR"
      /\ ClearAwgStopFlags[6].kind = "target"
      /\ ClearAwgStopFlags[7].kind = "unlock"
  BY DEF ClearAwgStopFlags, Lock, Unlock, Select, Deselect, Master, Step
<1>5. ASSUME NEW i \in 1..7 PROVE i = 1 \/ i = 2 \/ i = 3 \/ i = 4 \/ i = 5 \/ i = 6 \/ i = 7
  OBVIOUS
<1>6. ASSUME NEW i \in 1..7 PROVE KindOf("clear", i)
  BY <1>1, <1>2, <1>4, <1>5 DEF KindOf, Kind, CtrlBits
<1>7. KindsOf("clear")
  <2>1. Len(Method("clear")) \in Nat /\ Len(Method("clear")) > 0 BY <1>3
  <2>2. LeaveAt("clear") \in Nat /\ LeaveAt("clear") # 1 BY <1>2
  <2>3. 7 <= 7 OBVIOUS
  <2>4. LeaveAt("clear") <= Len(Method("clear")) BY <1>2, <1>3, <2>3, Zenon
  <2>5. QED BY <2>1, <2>2, <2>4 DEF KindsOf
<1>8. QED BY <1>3, <1>6, <1>7

(* The steps of Initialize. *)
LEMMA InitializeShape == KindsOf("initialize") /\ \A i \in 1..Len(Method("initialize")) : KindOf("initialize", i)
<1>1. Method("initialize") = Initialize BY DEF Method
<1>2. LeaveAt("initialize") = 3 BY DEF LeaveAt
<1>3. Len(Method("initialize")) = 4 BY <1>1 DEF Initialize
<1>4. /\ Initialize[1].kind = "lock"
      /\ Initialize[2].kind = "target"
      /\ Initialize[3].kind = "unlock"
      /\ Initialize[4].kind = "zero"
  BY DEF Initialize, Lock, Unlock, Deselect, ZeroCtrl, Step
<1>5. ASSUME NEW i \in 1..4 PROVE i = 1 \/ i = 2 \/ i = 3 \/ i = 4
  OBVIOUS
<1>6. ASSUME NEW i \in 1..4 PROVE KindOf("initialize", i)
  BY <1>1, <1>2, <1>4, <1>5 DEF KindOf, Kind, CtrlBits
<1>7. KindsOf("initialize")
  <2>1. Len(Method("initialize")) \in Nat /\ Len(Method("initialize")) > 0 BY <1>3
  <2>2. LeaveAt("initialize") \in Nat /\ LeaveAt("initialize") # 1 BY <1>2
  <2>3. 3 <= 4 OBVIOUS
  <2>4. LeaveAt("initialize") <= Len(Method("initialize")) BY <1>2, <1>3, <2>3, Zenon
  <2>5. QED BY <2>1, <2>2, <2>4 DEF KindsOf
<1>8. QED BY <1>3, <1>6, <1>7

(* The steps of WaitForAwgsToStop. *)
LEMMA WaitForAwgsToStopShape == KindsOf("wait") /\ \A i \in 1..Len(Method("wait")) : KindOf("wait", i)
<1>1. Method("wait") = WaitForAwgsToStop BY DEF Method
<1>2. LeaveAt("wait") = 0 BY DEF LeaveAt
<1>3. Len(Method("wait")) = 1 BY <1>1 DEF WaitForAwgsToStop
<1>4. /\ WaitForAwgsToStop[1].kind = "all"
  BY DEF WaitForAwgsToStop, AwaitAll, Step
<1>5. ASSUME NEW i \in 1..1 PROVE i = 1
  OBVIOUS
<1>6. ASSUME NEW i \in 1..1 PROVE KindOf("wait", i)
  BY <1>1, <1>2, <1>4, <1>5 DEF KindOf, Kind, CtrlBits
<1>7. KindsOf("wait")
  <2>1. Len(Method("wait")) \in Nat /\ Len(Method("wait")) > 0 BY <1>3
  <2>2. LeaveAt("wait") \in Nat /\ LeaveAt("wait") # 1 BY <1>2
  <2>3. 0 <= 1 OBVIOUS
  <2>4. LeaveAt("wait") <= Len(Method("wait")) BY <1>2, <1>3, <2>3, Zenon
  <2>5. QED BY <2>1, <2>2, <2>4 DEF KindsOf
<1>8. QED BY <1>3, <1>6, <1>7

(* The methods take the lock in their first step or not at all, and every  *)
(* step on a master register comes before the lock is released.            *)
LEMMA MethodShape ==
  ASSUME NEW o \in OpNames
  PROVE  KindsOf(o) /\ \A i \in 1..Len(Method(o)) : KindOf(o, i)
BY StartAwgsShape, TerminateAwgsShape, ResetAwgsShape, ClearAwgStopFlagsShape,
   InitializeShape, WaitForAwgsToStopShape DEF OpNames

-----------------------------------------------------------------------------
(* What the steps keep of the clients' own state: beside the types, that a *)
(* client between calls is ready for the next one, and that the value a    *)
(* write_bits has read is one of the register it is about to write.        *)
IdleAtStart ==
  \A c \in Clients : ~Active(c) => pc[c] = 1 /\ idx[c] = 1 /\ phase[c] = "read"

ReadValTyped ==
  \A c \in Clients : Active(c) /\ phase[c] = "write" =>
    /\ Kind(op[c], pc[c]) = "target" => readVal[c] \subseteq AWGs
    /\ Kind(op[c], pc[c]) \in {"master", "own"} => readVal[c] \subseteq CtrlBits

ClientInv == ClientTypeOK /\ IdleAtStart /\ ReadValTyped

(* Leaving a method. *)
LEMMA ReturnKeepsClientInv ==
  ASSUME ClientInv, NEW c \in Clients, Return(c)
  PROVE  ClientInv' /\ ~Active(c)'
<1> USE DEF ClientInv
<1>1. ClientTypeOK' BY DEF ClientTypeOK, Return, Active
<1>2. IdleAtStart' /\ ~Active(c)' BY DEF ClientTypeOK, IdleAtStart, Return, Active
<1>3. ReadValTyped' BY DEF ClientTypeOK, ReadValTyped, Return, Active
<1>4. QED BY <1>1, <1>2, <1>3

(* Going on at another step of it. *)
LEMMA GotoKeepsClientInv ==
  ASSUME ClientInv, NEW c \in Clients, Active(c),
         NEW step \in 1..Len(Method(op[c])), NEW i \in 1..Len(args[c]),
         Goto(c, step, i)
  PROVE  /\ ClientInv'
         /\ pc'[c] = step /\ idx'[c] = i /\ phase'[c] = "read"
<1> USE DEF ClientInv
<1>1. op[c] \in OpNames BY DEF ClientTypeOK, Active
<1>2. step \in Nat /\ i \in Nat BY <1>1, MethodShape DEF KindsOf, ClientTypeOK
<1>3. ClientTypeOK' BY <1>2 DEF ClientTypeOK, Goto, Active
<1>4. IdleAtStart' BY <1>2 DEF ClientTypeOK, IdleAtStart, Goto, Active
<1>5. ReadValTyped' BY <1>2 DEF ClientTypeOK, ReadValTyped, Goto, Active
<1>6. QED BY <1>3, <1>4, <1>5 DEF ClientTypeOK, Goto

(* A move of one client leaves the other ones where they are. *)
LEMMA OthersStay ==
  ASSUME ClientTypeOK, NEW c \in Clients, NEW d \in Clients, d # c,
         Return(c) \/ \E step, i \in Nat : Goto(c, step, i)
  PROVE  /\ op'[d] = op[d] /\ args'[d] = args[d] /\ pc'[d] = pc[d]
         /\ idx'[d] = idx[d] /\ phase'[d] = phase[d] /\ readVal'[d] = readVal[d]
BY DEF ClientTypeOK, Return, Goto

-----------------------------------------------------------------------------
(* The steps inside the `with self.__flock` block of a client's method. *)
InBlock(c) == Active(c) /\ pc[c] \in 2..LeaveAt(op[c])

(* What each step does to the block: "lock" enters it, "unlock" leaves it, *)
(* the others stay on their side.                                          *)
BlockAfter(c) ==
  /\ Kind(op[c], pc[c]) = "lock" => InBlock(c)'
  /\ Kind(op[c], pc[c]) = "unlock" => ~InBlock(c)'
  /\ Kind(op[c], pc[c]) \notin {"lock", "unlock"} => (InBlock(c)' <=> InBlock(c))

(* The shape of the method a client is in, at the step it is at. *)
LEMMA AtShape ==
  ASSUME ClientTypeOK, NEW c \in Clients, Active(c)
  PROVE  /\ op[c] \in OpNames
         /\ KindsOf(op[c]) /\ KindOf(op[c], pc[c])
         /\ pc[c] \in 1..Len(Method(op[c])) /\ idx[c] \in 1..Len(args[c])
         /\ pc[c] \in Nat /\ Len(Method(op[c])) \in Nat /\ LeaveAt(op[c]) \in Nat
         /\ Len(args[c]) \in Nat /\ idx[c] \in Nat /\ Target(c) \in AWGs
<1>1. op[c] \in OpNames /\ pc[c] \in 1..Len(Method(op[c])) /\ idx[c] \in 1..Len(args[c])
      /\ pc[c] \in Nat /\ idx[c] \in Nat /\ args[c] \in Seq(AWGs)
  BY DEF ClientTypeOK, Active
<1>2. KindsOf(op[c]) /\ KindOf(op[c], pc[c]) BY <1>1, MethodShape
<1>3. Len(args[c]) \in Nat /\ Target(c) \in AWGs BY <1>1 DEF Target
<1>4. QED BY <1>1, <1>2, <1>3 DEF KindsOf

(* Advance and NextAwg keep the clients' state, and respect the block. *)
LEMMA AdvanceKeepsClientInv ==
  ASSUME ClientInv, NEW c \in Clients, Active(c),
         NEW i \in 1..Len(args[c]), Advance(c, i)
  PROVE  /\ ClientInv' /\ BlockAfter(c) /\ (Active(c)' => phase'[c] = "read")
         /\ Return(c) \/ \E step, j \in Nat : Goto(c, step, j)
<1>1. ClientTypeOK BY DEF ClientInv
<1>2. CASE pc[c] = Len(Method(op[c]))
  <2>1. Return(c) BY <1>2 DEF Advance
  <2>2. ClientInv' /\ ~Active(c)' BY <2>1, ReturnKeepsClientInv
  <2>3. BlockAfter(c)
    BY <1>1, <1>2, <2>2, AtShape DEF BlockAfter, InBlock, KindsOf, KindOf
  <2>4. QED BY <2>1, <2>2, <2>3
<1>3. CASE pc[c] # Len(Method(op[c]))
  <2> DEFINE step == pc[c] + 1
  <2>1. Goto(c, step, i) BY <1>3 DEF Advance
  <2>2. step \in 1..Len(Method(op[c])) /\ step \in Nat /\ i \in Nat
    BY <1>1, <1>3, AtShape
  <2>3. ClientInv' /\ pc'[c] = step /\ phase'[c] = "read"
    BY <2>1, <2>2, GotoKeepsClientInv
  <2>4. op'[c] = op[c] BY <2>1 DEF Goto
  <2>5. Active(c)' BY <2>4 DEF Active
  <2>6. BlockAfter(c)
    BY <1>1, <2>2, <2>3, <2>4, <2>5, AtShape DEF BlockAfter, InBlock, KindsOf, KindOf
  <2>7. QED BY <2>1, <2>2, <2>3, <2>6
<1>4. QED BY <1>2, <1>3

(* The same of a step that is a loop over the AWGs. *)
LEMMA NextAwgKeepsClientInv ==
  ASSUME ClientInv, NEW c \in Clients, Active(c),
         Kind(op[c], pc[c]) \notin {"lock", "unlock"}, NextAwg(c)
  PROVE  /\ ClientInv' /\ BlockAfter(c) /\ (Active(c)' => phase'[c] = "read")
         /\ Return(c) \/ \E step, j \in Nat : Goto(c, step, j)
<1>1. ClientTypeOK BY DEF ClientInv
<1>2. CASE idx[c] < Len(args[c])
  <2> DEFINE i == idx[c] + 1
  <2>1. Goto(c, pc[c], i) BY <1>2 DEF NextAwg
  <2>2. i \in 1..Len(args[c]) /\ i \in Nat BY <1>1, <1>2, AtShape
  <2>3. ClientInv' /\ pc'[c] = pc[c] /\ phase'[c] = "read"
    BY <1>1, <2>1, <2>2, AtShape, GotoKeepsClientInv
  <2>4. op'[c] = op[c] BY <2>1 DEF Goto
  <2>5. BlockAfter(c) BY <2>3, <2>4 DEF BlockAfter, InBlock, Active
  <2>6. QED BY <1>1, <2>1, <2>2, <2>3, <2>5, AtShape
<1>3. CASE ~(idx[c] < Len(args[c]))
  <2>1. Advance(c, 1) BY <1>3 DEF NextAwg
  <2>2. 1 \in 1..Len(args[c]) BY <1>1, AtShape
  <2>3. QED BY <2>1, <2>2, AdvanceKeepsClientInv
<1>4. QED BY <1>2, <1>3

-----------------------------------------------------------------------------
(* The inductive invariant: whoever is in a block, and nobody else, has    *)
(* lock; so what a client in write_bits has read of a master register is   *)
(* what the register still holds.                                           *)
BlockHasLock == \A c \in Clients : InBlock(c) <=> lockHolder = c

Inv == TypeOK /\ IdleAtStart /\ ReadValTyped /\ BlockHasLock /\ NoLostUpdate

Moves(c) == Return(c) \/ \E step, j \in Nat : Goto(c, step, j)

(* A step that moves one client on keeps both, if it treats the lock as the *)
(* block it is in says, and writes the master registers only inside it.     *)
LEMMA MoveKeepsLockInv ==
  ASSUME ClientTypeOK, BlockHasLock, NoLostUpdate,
         NEW c \in Clients, Moves(c),
         Active(c)' => phase'[c] = "read",
         InBlock(c)' <=> lockHolder' = c,
         \A d \in Clients : d # c => (lockHolder' = d <=> lockHolder = d),
         InBlock(c) \/ UNCHANGED <<targetSel, masterCtrl>>
  PROVE  BlockHasLock' /\ NoLostUpdate'
<1>1. ASSUME NEW d \in Clients, d # c
      PROVE  /\ op'[d] = op[d] /\ pc'[d] = pc[d] /\ phase'[d] = phase[d]
             /\ readVal'[d] = readVal[d]
             /\ InBlock(d)' <=> InBlock(d)
  BY <1>1, OthersStay DEF Moves, InBlock, Active
<1>2. BlockHasLock' BY <1>1 DEF BlockHasLock
<1>3. ASSUME NEW d \in Clients, Active(d)', phase'[d] = "write"
      PROVE  /\ At(d)'.kind = "target" => readVal'[d] = targetSel'
             /\ At(d)'.kind = "master" => readVal'[d] = masterCtrl'
  <2>1. d # c BY <1>3
  <2>2. Active(d) /\ At(d)' = At(d) /\ phase[d] = "write" /\ readVal'[d] = readVal[d]
    BY <1>1, <1>3, <2>1 DEF Active, At
  <2>3. At(d).kind \in {"target", "master"} => InBlock(d)
    BY <2>2, AtShape DEF At, KindOf, Kind, InBlock
  <2>4. At(d).kind \in {"target", "master"} => UNCHANGED <<targetSel, masterCtrl>>
    BY <2>1, <2>3 DEF BlockHasLock
  <2>5. QED BY <2>2, <2>4 DEF NoLostUpdate
<1>4. NoLostUpdate' BY <1>3 DEF NoLostUpdate
<1>5. QED BY <1>2, <1>4

(* The emulated AWG stays a state machine whatever is written to CTRL. *)
LEMMA CtrlKeepsAwgStates ==
  ASSUME NEW old, NEW new, NEW s \in AwgStates
  PROVE  OnMasterCtrl(old, new, s) \in AwgStates /\ OnOwnCtrl(old, new, s) \in AwgStates
<1> USE DEF AwgStates
<1>1. \A t \in AwgStates : /\ Reset(old, new, t) \in AwgStates
                           /\ Prepare(old, new, t) \in AwgStates
                           /\ Start(old, new, t) \in AwgStates
                           /\ Terminate(old, new, t) \in AwgStates
                           /\ DoneClr(old, new, t) \in AwgStates
  BY DEF Reset, Prepare, Start, Terminate, DoneClr
<1>2. OnMasterCtrl(old, new, s) \in AwgStates BY ONLY <1>1, s \in AwgStates DEF OnMasterCtrl
<1>3. OnOwnCtrl(old, new, s) \in AwgStates BY ONLY <1>1, s \in AwgStates DEF OnOwnCtrl
<1>4. QED BY <1>2, <1>3

(* Register writes of register values keep the device's types. *)
LEMMA WritesKeepDeviceType ==
  ASSUME DeviceTypeOK,
         \/ \E v \in SUBSET AWGs : WriteTargetSel(v)
         \/ \E v \in SUBSET CtrlBits : WriteMasterCtrl(v)
         \/ \E a \in AWGs, v \in SUBSET CtrlBits : WriteCtrl(a, v)
         \/ \E a \in AWGs : EndWave(a)
  PROVE  DeviceTypeOK'
<1>1. CASE \E v \in SUBSET AWGs : WriteTargetSel(v)
  BY <1>1 DEF DeviceTypeOK, WriteTargetSel
<1>2. CASE \E v \in SUBSET CtrlBits : WriteMasterCtrl(v)
  BY <1>2, CtrlKeepsAwgStates DEF DeviceTypeOK, WriteMasterCtrl
<1>3. CASE \E a \in AWGs, v \in SUBSET CtrlBits : WriteCtrl(a, v)
  BY <1>3, CtrlKeepsAwgStates DEF DeviceTypeOK, WriteCtrl
<1>4. CASE \E a \in AWGs : EndWave(a)
  BY <1>4 DEF DeviceTypeOK, EndWave, AwgStates
<1>5. QED BY <1>1, <1>2, <1>3, <1>4

(* The history variables keep their types. *)
LEMMA HistoryKeepsType ==
  ASSUME HistoryTypeOK, NEW c \in Clients, aborted' \in BOOLEAN,
         Observe(c) \/ Forget(c) \/ UNCHANGED historyVars,
         ClientTypeOK
  PROVE  HistoryTypeOK'
<1>1. CASE Observe(c)
  <2>1. \A d \in Clients : op[d] = "start" => Listed(d) \subseteq AWGs
    BY DEF ClientTypeOK, Listed, Active
  <2>2. QED BY <1>1, <2>1 DEF HistoryTypeOK, Observe
<1>2. CASE Forget(c) BY <1>2 DEF HistoryTypeOK, Forget
<1>3. CASE UNCHANGED historyVars BY <1>3 DEF HistoryTypeOK, historyVars
<1>4. QED BY <1>1, <1>2, <1>3

-----------------------------------------------------------------------------
(* Each step keeps the invariant. *)

(* The initial state has it. *)
LEMMA InitInv == Init => Inv
<1> SUFFICES ASSUME Init PROVE Inv OBVIOUS
<1>1. DeviceTypeOK BY DEF Init, DeviceInit, DeviceTypeOK, AwgStates
<1>2. ClientTypeOK BY DEF Init, ClientTypeOK, Active
<1>3. HistoryTypeOK BY DEF Init, HistoryTypeOK
<1>4. \A c \in Clients : ~Active(c) BY DEF Init, Active
<1>5. TypeOK BY <1>1, <1>2, <1>3 DEF TypeOK, Init
<1>6. BlockHasLock
  BY <1>4, AwgControlAssumption DEF Init, BlockHasLock, InBlock, AwgControlAssumption
<1>7. IdleAtStart BY DEF Init, IdleAtStart
<1>8. ReadValTyped /\ NoLostUpdate BY <1>4 DEF ReadValTyped, NoLostUpdate
<1>9. QED BY <1>5, <1>6, <1>7, <1>8 DEF Inv

(* A client that moves on, as the methods and the lock have it. *)
LEMMA MoveKeepsInv ==
  ASSUME Inv, NEW c \in Clients, Moves(c), ClientInv', DeviceTypeOK', HistoryTypeOK',
         lockHolder' \in {lockHolder, c, NoClient},
         Active(c)' => phase'[c] = "read",
         InBlock(c)' <=> lockHolder' = c,
         \A d \in Clients : d # c => (lockHolder' = d <=> lockHolder = d),
         InBlock(c) \/ UNCHANGED <<targetSel, masterCtrl>>
  PROVE  Inv'
<1>1. BlockHasLock' /\ NoLostUpdate' BY MoveKeepsLockInv DEF Inv, TypeOK
<1>2. lockHolder' \in Clients \cup {NoClient} BY DEF Inv, TypeOK
<1>3. QED BY <1>1, <1>2 DEF Inv, TypeOK, ClientInv

(* A call only chooses a method and its AWGs. *)
LEMMA CallKeepsInv == ASSUME Inv, NEW c \in Clients, Call(c) PROVE Inv'
<1> USE DEF Inv, TypeOK
<1>1. PICK o \in Ops[c], l \in ArgLists :
        /\ op' = [op EXCEPT ![c] = o]
        /\ args' = [args EXCEPT ![c] = l]
        /\ ongoing' = [ongoing EXCEPT ![c] =
             IF o \in {"wait", "terminate"}
             THEN {a \in AWGs : state[a] = "GEN_WAVE"} ELSE {}]
  BY DEF Call
<1>2. o \in OpNames /\ l \in Seq(AWGs) /\ l # <<>>
  BY AwgControlAssumption DEF AwgControlAssumption
<1>3. pc[c] = 1 /\ idx[c] = 1 /\ phase[c] = "read" BY DEF Call, IdleAtStart
<1>4. 1 \in 1..Len(l) BY <1>2
<1>5. 1 \in 1..Len(Method(o)) BY <1>2, MethodShape DEF KindsOf
<1>6. UNCHANGED <<deviceVars, lockHolder, pc, idx, phase, readVal, aborted,
                  fired, cancelled>> BY DEF Call
<1>7. op'[c] = o /\ args'[c] = l /\ \A d \in Clients : d # c => op'[d] = op[d] /\ args'[d] = args[d]
  BY <1>1 DEF ClientTypeOK
<1>8. o # "none" BY <1>2 DEF OpNames
<1>9. ClientTypeOK'
  <2>1. \A d \in Clients : Active(d)' =>
          pc'[d] \in 1..Len(Method(op'[d])) /\ idx'[d] \in 1..Len(args'[d])
    BY <1>3, <1>4, <1>5, <1>6, <1>7 DEF ClientTypeOK, Active
  <2>2. QED BY <1>1, <1>2, <1>6, <2>1 DEF ClientTypeOK, Active
<1>10. DeviceTypeOK' BY <1>6 DEF DeviceTypeOK, deviceVars
<1>11. HistoryTypeOK' BY <1>1, <1>6 DEF HistoryTypeOK
<1>12. IdleAtStart' BY <1>6, <1>7, <1>8 DEF IdleAtStart, Active
<1>13. ReadValTyped' BY <1>3, <1>6, <1>7 DEF ReadValTyped, Active
<1>14. ~InBlock(c) /\ ~InBlock(c)' BY <1>3, <1>6 DEF InBlock, Call
<1>15. BlockHasLock' BY <1>6, <1>7, <1>14 DEF BlockHasLock, InBlock, Active
<1>16. NoLostUpdate' BY <1>3, <1>6, <1>7 DEF NoLostUpdate, Active, At, deviceVars
<1>17. QED BY <1>6, <1>9, <1>10, <1>11, <1>12, <1>13, <1>15, <1>16

(* Taking the lock enters the block ... *)
LEMMA EnterLockKeepsInv == ASSUME Inv, NEW c \in Clients, EnterLock(c) PROVE Inv'
<1> USE DEF Inv, TypeOK
<1>1. Active(c) /\ Kind(op[c], pc[c]) = "lock" /\ Advance(c, 1)
  BY DEF EnterLock, Kind, At
<1>2. 1 \in 1..Len(args[c]) BY <1>1, AtShape
<1>3. /\ ClientInv' /\ InBlock(c)' /\ Moves(c)
      /\ Active(c)' => phase'[c] = "read"
  BY <1>1, <1>2, AdvanceKeepsClientInv DEF ClientInv, Moves, BlockAfter
<1>4. lockHolder = NoClient /\ lockHolder' = c /\ NoClient \notin Clients
  BY AwgControlAssumption DEF EnterLock, AwgControlAssumption
<1>5. UNCHANGED <<deviceVars, aborted>> /\ (Forget(c) \/ UNCHANGED historyVars)
  BY DEF EnterLock, Unobserved
<1>6. DeviceTypeOK' BY <1>5 DEF DeviceTypeOK, deviceVars
<1>7. HistoryTypeOK' BY <1>5, HistoryKeepsType DEF HistoryTypeOK
<1>8. UNCHANGED <<targetSel, masterCtrl>> BY <1>5 DEF deviceVars
<1>9. QED BY ONLY Inv, c \in Clients, <1>3, <1>4, <1>6, <1>7, <1>8, MoveKeepsInv

(* ... and releasing it leaves the block. *)
LEMMA LeaveLockKeepsInv == ASSUME Inv, NEW c \in Clients, LeaveLock(c) PROVE Inv'
<1> USE DEF Inv, TypeOK
<1>1. Active(c) /\ Kind(op[c], pc[c]) = "unlock" /\ Advance(c, 1)
  BY DEF LeaveLock, Kind, At
<1>2. 1 \in 1..Len(args[c]) BY <1>1, AtShape
<1>3. /\ ClientInv' /\ ~InBlock(c)' /\ Moves(c)
      /\ Active(c)' => phase'[c] = "read"
  BY <1>1, <1>2, AdvanceKeepsClientInv DEF ClientInv, Moves, BlockAfter
<1>4. InBlock(c) BY <1>1, AtShape DEF InBlock, KindsOf, KindOf
<1>5. lockHolder = c /\ lockHolder' = NoClient /\ NoClient \notin Clients
  BY <1>4, AwgControlAssumption DEF LeaveLock, AwgControlAssumption, BlockHasLock
<1>6. UNCHANGED <<deviceVars, aborted>> /\ (Forget(c) \/ UNCHANGED historyVars)
  BY DEF LeaveLock, Unobserved
<1>7. DeviceTypeOK' BY <1>6 DEF DeviceTypeOK, deviceVars
<1>8. HistoryTypeOK' BY <1>6, HistoryKeepsType DEF HistoryTypeOK
<1>9. QED BY ONLY Inv, c \in Clients, <1>3, <1>4, <1>5, <1>7, <1>8, MoveKeepsInv

(* write_bits reads what the register holds. *)
LEMMA ReadRegisterKeepsInv ==
  ASSUME Inv, NEW c \in Clients, ReadRegister(c) PROVE Inv'
<1> USE DEF Inv, TypeOK
<1> DEFINE v == CASE At(c).kind = "target" -> targetSel
                 [] At(c).kind = "master" -> masterCtrl
                 [] At(c).kind = "own"    -> ctrl[Target(c)]
<1>1. Active(c) /\ At(c).kind \in {"target", "master", "own"} BY DEF ReadRegister
<1>2. /\ At(c).kind = "target" => v = targetSel /\ v \subseteq AWGs
      /\ At(c).kind = "master" => v = masterCtrl /\ v \subseteq CtrlBits
      /\ At(c).kind = "own"    => v \subseteq CtrlBits
  BY <1>1, AtShape DEF DeviceTypeOK
<1> HIDE DEF v
<1>3. /\ phase' = [phase EXCEPT ![c] = "write"] /\ readVal' = [readVal EXCEPT ![c] = v]
      /\ UNCHANGED <<deviceVars, lockHolder, op, args, pc, idx, aborted, historyVars>>
  BY DEF ReadRegister, v
<1>4. v \subseteq AWGs \cup CtrlBits BY <1>1, <1>2
<1>5. ClientTypeOK' BY <1>3, <1>4 DEF ClientTypeOK, Active
<1>6. DeviceTypeOK' /\ HistoryTypeOK'
  BY <1>3 DEF DeviceTypeOK, HistoryTypeOK, deviceVars, historyVars
<1>7. IdleAtStart' BY <1>1, <1>3 DEF IdleAtStart, Active, ClientTypeOK
<1>8. ReadValTyped' BY <1>2, <1>3 DEF ReadValTyped, Active, ClientTypeOK, At, Kind
<1>9. BlockHasLock' BY <1>3 DEF BlockHasLock, InBlock, Active
<1>10. NoLostUpdate' BY <1>2, <1>3 DEF NoLostUpdate, Active, ClientTypeOK, At, deviceVars
<1>11. QED BY <1>3, <1>5, <1>6, <1>7, <1>8, <1>9, <1>10

(* Its writes of the selection are in the block. *)
LEMMA WriteSelectBitKeepsInv ==
  ASSUME Inv, NEW c \in Clients, WriteSelectBit(c) PROVE Inv'
<1> USE DEF Inv, TypeOK
<1>1. Active(c) /\ Kind(op[c], pc[c]) = "target" /\ phase[c] = "write" /\ NextAwg(c)
  BY DEF WriteSelectBit, Kind, At
<1>2. /\ ClientInv' /\ (InBlock(c)' <=> InBlock(c)) /\ Moves(c)
      /\ Active(c)' => phase'[c] = "read"
  BY <1>1, NextAwgKeepsClientInv DEF ClientInv, Moves, BlockAfter
<1>3. InBlock(c) BY <1>1, AtShape DEF InBlock, KindsOf, KindOf
<1>4. lockHolder' = lockHolder /\ aborted' = aborted /\ (Forget(c) \/ UNCHANGED historyVars)
  BY DEF WriteSelectBit, Unobserved
<1>5. Replaced(c, Target(c)) \in SUBSET AWGs
  BY <1>1, AtShape DEF Replaced, ReadValTyped
<1>6. DeviceTypeOK' BY <1>5, WritesKeepDeviceType DEF WriteSelectBit
<1>7. HistoryTypeOK' BY <1>4, HistoryKeepsType DEF HistoryTypeOK
<1>8. InBlock(c) <=> lockHolder = c BY DEF BlockHasLock
<1>9. QED BY ONLY Inv, c \in Clients, <1>2, <1>3, <1>4, <1>6, <1>7, <1>8, MoveKeepsInv

(* So are its writes of the master CTRL. *)
LEMMA WriteMasterBitKeepsInv ==
  ASSUME Inv, NEW c \in Clients, WriteMasterBit(c) PROVE Inv'
<1> USE DEF Inv, TypeOK
<1>1. Active(c) /\ Kind(op[c], pc[c]) = "master" /\ phase[c] = "write" /\ Advance(c, 1)
  BY DEF WriteMasterBit, Kind, At
<1>2. 1 \in 1..Len(args[c]) BY <1>1, AtShape
<1>3. /\ ClientInv' /\ (InBlock(c)' <=> InBlock(c)) /\ Moves(c)
      /\ Active(c)' => phase'[c] = "read"
  BY <1>1, <1>2, AdvanceKeepsClientInv DEF ClientInv, Moves, BlockAfter
<1>4. InBlock(c) BY <1>1, AtShape DEF InBlock, KindsOf, KindOf
<1>5. lockHolder' = lockHolder /\ aborted' = aborted /\ Observe(c) BY DEF WriteMasterBit
<1>6. Replaced(c, At(c).bit) \in SUBSET CtrlBits
  BY <1>1, AtShape DEF Replaced, ReadValTyped, KindOf, At
<1>7. DeviceTypeOK' BY <1>6, WritesKeepDeviceType DEF WriteMasterBit
<1>8. HistoryTypeOK' BY <1>5, HistoryKeepsType DEF HistoryTypeOK
<1>9. InBlock(c) <=> lockHolder = c BY DEF BlockHasLock
<1>10. QED BY ONLY Inv, c \in Clients, <1>3, <1>4, <1>5, <1>7, <1>8, <1>9, MoveKeepsInv

(* The writes of an AWG's own CTRL leave the master registers alone. *)
LEMMA WriteOwnBitKeepsInv ==
  ASSUME Inv, NEW c \in Clients, WriteOwnBit(c) PROVE Inv'
<1> USE DEF Inv, TypeOK
<1>1. Active(c) /\ Kind(op[c], pc[c]) = "own" /\ phase[c] = "write" /\ Advance(c, idx[c])
  BY DEF WriteOwnBit, Kind, At
<1>2. idx[c] \in 1..Len(args[c]) /\ Target(c) \in AWGs BY <1>1, AtShape
<1>3. /\ ClientInv' /\ (InBlock(c)' <=> InBlock(c)) /\ Moves(c)
      /\ Active(c)' => phase'[c] = "read"
  BY <1>1, <1>2, AdvanceKeepsClientInv DEF ClientInv, Moves, BlockAfter
<1>4. lockHolder' = lockHolder /\ aborted' = aborted /\ Observe(c) BY DEF WriteOwnBit
<1>5. Replaced(c, At(c).bit) \in SUBSET CtrlBits
  BY <1>1, AtShape DEF Replaced, ReadValTyped, KindOf, At, Kind
<1>6. DeviceTypeOK' BY <1>2, <1>5, WritesKeepDeviceType DEF WriteOwnBit
<1>7. HistoryTypeOK' BY <1>4, HistoryKeepsType DEF HistoryTypeOK
<1>8. UNCHANGED <<targetSel, masterCtrl>> BY DEF WriteOwnBit, WriteCtrl
<1>9. InBlock(c) <=> lockHolder = c BY DEF BlockHasLock
<1>10. QED BY ONLY Inv, c \in Clients, <1>3, <1>4, <1>6, <1>7, <1>8, <1>9, MoveKeepsInv

(* So does initialize's write of zero to it. *)
LEMMA WriteZeroKeepsInv ==
  ASSUME Inv, NEW c \in Clients, WriteZero(c) PROVE Inv'
<1> USE DEF Inv, TypeOK
<1>1. Active(c) /\ Kind(op[c], pc[c]) = "zero" /\ NextAwg(c)
  BY DEF WriteZero, Kind, At
<1>2. /\ ClientInv' /\ (InBlock(c)' <=> InBlock(c)) /\ Moves(c)
      /\ Active(c)' => phase'[c] = "read"
  BY <1>1, NextAwgKeepsClientInv DEF ClientInv, Moves, BlockAfter
<1>3. Target(c) \in AWGs BY <1>1, AtShape
<1>4. lockHolder' = lockHolder /\ aborted' = aborted /\ Observe(c) BY DEF WriteZero
<1>5. DeviceTypeOK'
  <2>1. {} \in SUBSET CtrlBits OBVIOUS
  <2>2. QED BY <1>3, <2>1, WritesKeepDeviceType DEF WriteZero
<1>6. HistoryTypeOK' BY <1>4, HistoryKeepsType DEF HistoryTypeOK
<1>7. UNCHANGED <<targetSel, masterCtrl>> BY DEF WriteZero, WriteCtrl
<1>8. InBlock(c) <=> lockHolder = c BY DEF BlockHasLock
<1>9. QED BY ONLY Inv, c \in Clients, <1>2, <1>4, <1>5, <1>6, <1>7, <1>8, MoveKeepsInv

(* Polling only moves the client. *)
LEMMA PollKeepsInv ==
  ASSUME Inv, NEW c \in Clients, PollSucceeds(c) \/ PollFails(c) PROVE Inv'
<1> USE DEF Inv, TypeOK
<1>1. Active(c) /\ Kind(op[c], pc[c]) \in {"all", "one"} BY DEF PollSucceeds, PollFails, Kind, At
<1>2. lockHolder' = lockHolder /\ UNCHANGED deviceVars /\ aborted' = aborted
      /\ (Forget(c) \/ UNCHANGED historyVars)
  BY DEF PollSucceeds, PollFails, Unobserved
<1>3. 1 \in 1..Len(args[c]) /\ idx[c] \in 1..Len(args[c]) BY <1>1, AtShape
<1>4. /\ ClientInv' /\ (InBlock(c)' <=> InBlock(c)) /\ Moves(c)
      /\ Active(c)' => phase'[c] = "read"
  <2>1. CASE NextAwg(c)
    BY <1>1, <2>1, NextAwgKeepsClientInv DEF ClientInv, Moves, BlockAfter
  <2>2. CASE Advance(c, idx[c])
    BY <1>1, <1>3, <2>2, AdvanceKeepsClientInv DEF ClientInv, Moves, BlockAfter
  <2>3. CASE \E i \in {1, idx[c]} : Goto(c, pc[c], i)
    <3>1. PICK i \in {1, idx[c]} : Goto(c, pc[c], i) BY <2>3
    <3>2. i \in 1..Len(args[c]) /\ pc[c] \in 1..Len(Method(op[c])) /\ i \in Nat /\ pc[c] \in Nat
      BY <1>1, <1>3, AtShape
    <3>3. ClientInv' /\ pc'[c] = pc[c] /\ phase'[c] = "read"
      BY <1>1, <3>1, <3>2, GotoKeepsClientInv DEF ClientInv
    <3>4. op'[c] = op[c] BY <3>1 DEF Goto
    <3>5. QED BY <3>1, <3>2, <3>3, <3>4 DEF Moves, InBlock, Active
  <2>4. QED BY <2>1, <2>2, <2>3 DEF PollSucceeds, PollFails
<1>5. DeviceTypeOK' /\ UNCHANGED <<targetSel, masterCtrl>> BY <1>2 DEF DeviceTypeOK, deviceVars
<1>6. HistoryTypeOK' BY <1>2, HistoryKeepsType DEF HistoryTypeOK
<1>7. InBlock(c) <=> lockHolder = c BY DEF BlockHasLock
<1>8. QED BY ONLY Inv, c \in Clients, <1>2, <1>4, <1>5, <1>6, <1>7, MoveKeepsInv

(* So does the end of the body of a loop. *)
LEMMA LoopAgainKeepsInv ==
  ASSUME Inv, NEW c \in Clients, LoopAgain(c) PROVE Inv'
<1> USE DEF Inv, TypeOK
<1>1. Active(c) /\ Kind(op[c], pc[c]) = "again" BY DEF LoopAgain, Kind, At
<1>2. lockHolder' = lockHolder /\ UNCHANGED deviceVars /\ aborted' = aborted
      /\ (Forget(c) \/ UNCHANGED historyVars)
  BY DEF LoopAgain, Unobserved
<1>3. ~InBlock(c) BY <1>1, AtShape DEF InBlock, KindOf
<1>4. /\ ClientInv' /\ ~InBlock(c)' /\ Moves(c)
      /\ Active(c)' => phase'[c] = "read"
  <2>1. CASE Return(c)
    BY <2>1, ReturnKeepsClientInv DEF ClientInv, Moves, InBlock
  <2>2. CASE idx[c] < Len(args[c]) /\ Goto(c, 1, idx[c] + 1)
    <3> DEFINE i == idx[c] + 1
    <3>1. 1 \in 1..Len(Method(op[c])) BY <1>1, AtShape
    <3>2. i \in 1..Len(args[c]) /\ i \in Nat BY <1>1, <2>2, AtShape
    <3>3. ClientInv' /\ pc'[c] = 1 /\ phase'[c] = "read"
      BY <1>1, <2>2, <3>1, <3>2, GotoKeepsClientInv DEF ClientInv
    <3>4. Moves(c) BY <2>2, <3>2 DEF Moves
    <3>5. QED BY <3>3, <3>4 DEF InBlock
  <2>3. QED BY <2>1, <2>2 DEF LoopAgain
<1>5. DeviceTypeOK' /\ UNCHANGED <<targetSel, masterCtrl>> BY <1>2 DEF DeviceTypeOK, deviceVars
<1>6. HistoryTypeOK' BY <1>2, HistoryKeepsType DEF HistoryTypeOK
<1>7. InBlock(c) <=> lockHolder = c BY DEF BlockHasLock
<1>8. QED BY ONLY Inv, c \in Clients, <1>2, <1>3, <1>4, <1>5, <1>6, <1>7, MoveKeepsInv

(* An exception releases the lock with the block it leaves. *)
LEMMA RaiseKeepsInv ==
  ASSUME Inv, NEW c \in Clients, Raise(c) PROVE Inv'
<1> USE DEF Inv, TypeOK
<1>1. /\ ClientInv' /\ ~InBlock(c)' /\ Moves(c)
      /\ Active(c)' => phase'[c] = "read"
  BY ReturnKeepsClientInv DEF Raise, ClientInv, Moves, InBlock
<1>2. /\ lockHolder' = (IF lockHolder = c THEN NoClient ELSE lockHolder)
      /\ UNCHANGED deviceVars /\ Forget(c) /\ NoClient \notin Clients
  BY AwgControlAssumption DEF Raise, AwgControlAssumption
<1>3. aborted' \in BOOLEAN BY DEF Raise, HistoryTypeOK
<1>4. DeviceTypeOK' /\ UNCHANGED <<targetSel, masterCtrl>> BY <1>2 DEF DeviceTypeOK, deviceVars
<1>5. HistoryTypeOK' BY <1>2, <1>3, HistoryKeepsType
<1>6. QED BY ONLY Inv, c \in Clients, <1>1, <1>2, <1>4, <1>5, MoveKeepsInv

(* The end of a wave touches no register. *)
LEMMA WaveEndsKeepsInv == ASSUME Inv, NEW a \in AWGs, WaveEnds(a) PROVE Inv'
<1> USE DEF Inv, TypeOK
<1>1. UNCHANGED <<lockHolder, clientVars, aborted, fired, cancelled, targetSel, masterCtrl>>
  BY DEF WaveEnds, EndWave
<1>2. DeviceTypeOK' BY WritesKeepDeviceType DEF WaveEnds
<1>3. HistoryTypeOK' BY DEF WaveEnds, HistoryTypeOK
<1>4. ClientTypeOK' /\ IdleAtStart' /\ ReadValTyped'
  BY <1>1 DEF clientVars, ClientTypeOK, IdleAtStart, ReadValTyped, Active
<1>5. BlockHasLock' BY <1>1 DEF clientVars, BlockHasLock, InBlock, Active
<1>6. NoLostUpdate' BY <1>1 DEF clientVars, NoLostUpdate, Active, At
<1>7. QED BY <1>1, <1>2, <1>3, <1>4, <1>5, <1>6

(* All of them together. *)
LEMMA NextInv == Inv /\ [FaultyNext]_vars => Inv'
<1> SUFFICES ASSUME Inv, [FaultyNext]_vars PROVE Inv' OBVIOUS
<1>1. ASSUME NEW c \in Clients, ClientStep(c) PROVE Inv'
  <2>1. CASE Call(c) BY <2>1, CallKeepsInv
  <2>2. CASE EnterLock(c) BY <2>2, EnterLockKeepsInv
  <2>3. CASE LeaveLock(c) BY <2>3, LeaveLockKeepsInv
  <2>4. CASE ReadRegister(c) BY <2>4, ReadRegisterKeepsInv
  <2>5. CASE WriteSelectBit(c) BY <2>5, WriteSelectBitKeepsInv
  <2>6. CASE WriteMasterBit(c) BY <2>6, WriteMasterBitKeepsInv
  <2>7. CASE WriteOwnBit(c) BY <2>7, WriteOwnBitKeepsInv
  <2>8. CASE WriteZero(c) BY <2>8, WriteZeroKeepsInv
  <2>9. CASE PollSucceeds(c) \/ PollFails(c) BY <2>9, PollKeepsInv
  <2>10. CASE LoopAgain(c) BY <2>10, LoopAgainKeepsInv
  <2>11. CASE PollTimesOut(c) BY <2>11, RaiseKeepsInv DEF PollTimesOut
  <2>12. QED
    BY <1>1, <2>1, <2>2, <2>3, <2>4, <2>5, <2>6, <2>7, <2>8, <2>9, <2>10, <2>11
    DEF ClientStep, Proceed
<1>2. ASSUME NEW c \in Clients, AccessFails(c) PROVE Inv'
  BY <1>2, RaiseKeepsInv DEF AccessFails
<1>3. ASSUME NEW a \in AWGs, WaveEnds(a) PROVE Inv' BY <1>3, WaveEndsKeepsInv
<1>4. CASE UNCHANGED vars
  <2>1. UNCHANGED <<deviceVars, lockHolder, clientVars, aborted, historyVars>>
    BY <1>4 DEF vars
  <2>2. DeviceTypeOK' /\ ClientTypeOK' /\ HistoryTypeOK'
    BY <2>1 DEF Inv, TypeOK, DeviceTypeOK, ClientTypeOK, HistoryTypeOK, Active,
       deviceVars, clientVars, historyVars
  <2>3. IdleAtStart' /\ ReadValTyped'
    BY <2>1 DEF Inv, clientVars, IdleAtStart, ReadValTyped, Active
  <2>4. BlockHasLock' BY <2>1 DEF Inv, clientVars, BlockHasLock, InBlock, Active
  <2>5. NoLostUpdate' BY <2>1 DEF Inv, clientVars, deviceVars, NoLostUpdate, Active, At
  <2>6. QED BY <2>1, <2>2, <2>3, <2>4, <2>5 DEF Inv, TypeOK
<1>5. QED BY <1>1, <1>2, <1>3, <1>4 DEF FaultyNext, Next

-----------------------------------------------------------------------------
(* The types, of any number of clients calling any of the operations, with *)
(* register accesses that fail and clients that die.                       *)
THEOREM AwgControlTypes == FaultySpec => []TypeOK
<1>1. Inv => TypeOK BY DEF Inv
<1>2. QED BY InitInv, NextInv, <1>1, PTL DEF FaultySpec

(* No read-modify-write of CTRL_TARGET_SEL or the master CTRL loses the    *)
(* update of another client, however the calls of start_awgs, reset_awgs,  *)
(* clear_awg_stop_flags and initialize interleave, and wherever they are   *)
(* cut short: the lock around each of them is enough.                      *)
THEOREM MasterRegistersNotLost == FaultySpec => []NoLostUpdate
<1>1. Inv => NoLostUpdate BY DEF Inv
<1>2. QED BY InitInv, NextInv, <1>1, PTL DEF FaultySpec

-----------------------------------------------------------------------------
(* The bits that the master CTRL holds before step i of a method, if no    *)
(* call was cut short.                                                     *)
MasterUp(o, i, b) ==
  \/ b = "PREPARE" /\ o = "start" /\ i \in {5, 6}
  \/ b = "START" /\ o = "start" /\ i = 9
  \/ b = "RESET" /\ o = "reset" /\ i = 4
  \/ b = "DONE_CLR" /\ o = "clear" /\ i = 5

MasterAt(o, i) == {b \in CtrlBits : MasterUp(o, i, b)}

Bit(o, i) == Method(o)[i].bit

Val(o, i) == Method(o)[i].val

(* What the steps of a block do to the master registers: the first ones    *)
(* select, the last ones deselect, and the ones between leave the bits of  *)
(* the master CTRL as MasterUp says.                                       *)
RegistersOf(o, i) ==
  /\ Kind(o, i) = "lock" =>
       /\ LeaveAt(o) > 2 /\ (LeaveAt(o) = 3 => o = "initialize")
       /\ \A b \in CtrlBits : ~MasterUp(o, 2, b)
  /\ Kind(o, i) = "unlock" => \A b \in CtrlBits : ~MasterUp(o, i, b)
  /\ Kind(o, i) = "target" =>
       /\ i \in {2, LeaveAt(o) - 1} /\ LeaveAt(o) > 2
       /\ i = 2 /\ o # "initialize" => LeaveAt(o) > 4
       /\ Val(o, i) = 1 <=> i = 2 /\ o # "initialize"
       /\ \A b \in CtrlBits : MasterUp(o, i + 1, b) <=> MasterUp(o, i, b)
  /\ Kind(o, i) = "master" =>
       /\ i > 2 /\ i < LeaveAt(o) - 1 /\ o # "initialize"
       /\ Bit(o, i) \in {"PREPARE", "START"} => o = "start"
       /\ \A b \in CtrlBits : MasterUp(o, i + 1, b) <=>
            IF b = Bit(o, i) THEN Val(o, i) = 1 ELSE MasterUp(o, i, b)
  /\ Kind(o, i) = "own" => o = "terminate" /\ Bit(o, i) = "TERMINATE"
  /\ Kind(o, i) \in {"one", "again"} => o = "terminate"
  /\ Kind(o, i) = "zero" => o = "initialize"
  /\ Kind(o, i) = "all" => o \in {"start", "wait"}

(* The registers in start_awgs ... *)
LEMMA StartAwgsRegisters == \A i \in 1..11 : RegistersOf("start", i)
<1>1. Method("start") = StartAwgs BY DEF Method
<1>2. LeaveAt("start") = 11 BY DEF LeaveAt
<1>3. /\ StartAwgs[1].kind = "lock"
      /\ StartAwgs[2].kind = "target" /\ StartAwgs[2].val = 1
      /\ StartAwgs[3].kind = "master" /\ StartAwgs[3].bit = "PREPARE" /\ StartAwgs[3].val = 0
      /\ StartAwgs[4].kind = "master" /\ StartAwgs[4].bit = "PREPARE" /\ StartAwgs[4].val = 1
      /\ StartAwgs[5].kind = "all"
      /\ StartAwgs[6].kind = "master" /\ StartAwgs[6].bit = "PREPARE" /\ StartAwgs[6].val = 0
      /\ StartAwgs[7].kind = "master" /\ StartAwgs[7].bit = "START" /\ StartAwgs[7].val = 0
      /\ StartAwgs[8].kind = "master" /\ StartAwgs[8].bit = "START" /\ StartAwgs[8].val = 1
      /\ StartAwgs[9].kind = "master" /\ StartAwgs[9].bit = "START" /\ StartAwgs[9].val = 0
      /\ StartAwgs[10].kind = "target" /\ StartAwgs[10].val = 0
      /\ StartAwgs[11].kind = "unlock"
  BY DEF StartAwgs, Lock, Unlock, Select, Deselect, Master, AwaitAll, Step
<1>4. ASSUME NEW i \in 1..11 PROVE RegistersOf("start", i)
  <2>1. i = 1 \/ i = 2 \/ i = 3 \/ i = 4 \/ i = 5 \/ i = 6 \/ i = 7 \/ i = 8 \/ i = 9 \/ i = 10 \/ i = 11
    OBVIOUS
  <2>2. QED BY <1>1, <1>2, <1>3, <2>1 DEF RegistersOf, Kind, Bit, Val, MasterUp, CtrlBits
<1>5. QED BY <1>4

(* ... in terminate_awgs, which writes no master register ... *)
LEMMA TerminateAwgsRegisters == \A i \in 1..4 : RegistersOf("terminate", i)
<1>1. Method("terminate") = TerminateAwgs BY DEF Method
<1>2. LeaveAt("terminate") = 0 BY DEF LeaveAt
<1>3. /\ TerminateAwgs[1].kind = "own" /\ TerminateAwgs[1].bit = "TERMINATE" /\ TerminateAwgs[1].val = 1
      /\ TerminateAwgs[2].kind = "one"
      /\ TerminateAwgs[3].kind = "own" /\ TerminateAwgs[3].bit = "TERMINATE" /\ TerminateAwgs[3].val = 0
      /\ TerminateAwgs[4].kind = "again"
  BY DEF TerminateAwgs, Own, AwaitOne, Again, Step
<1>4. ASSUME NEW i \in 1..4 PROVE RegistersOf("terminate", i)
  <2>1. i = 1 \/ i = 2 \/ i = 3 \/ i = 4 OBVIOUS
  <2>2. QED BY <1>1, <1>2, <1>3, <2>1 DEF RegistersOf, Kind, Bit, Val, MasterUp, CtrlBits
<1>5. QED BY <1>4

(* ... in reset_awgs ... *)
LEMMA ResetAwgsRegisters == \A i \in 1..6 : RegistersOf("reset", i)
<1>1. Method("reset") = ResetAwgs BY DEF Method
<1>2. LeaveAt("reset") = 6 BY DEF LeaveAt
<1>3. /\ ResetAwgs[1].kind = "lock"
      /\ ResetAwgs[2].kind = "target" /\ ResetAwgs[2].val = 1
      /\ ResetAwgs[3].kind = "master" /\ ResetAwgs[3].bit = "RESET" /\ ResetAwgs[3].val = 1
      /\ ResetAwgs[4].kind = "master" /\ ResetAwgs[4].bit = "RESET" /\ ResetAwgs[4].val = 0
      /\ ResetAwgs[5].kind = "target" /\ ResetAwgs[5].val = 0
      /\ ResetAwgs[6].kind = "unlock"
  BY DEF ResetAwgs, Lock, Unlock, Select, Deselect, Master, Step
<1>4. ASSUME NEW i \in 1..6 PROVE RegistersOf("reset", i)
  <2>1. i = 1 \/ i = 2 \/ i = 3 \/ i = 4 \/ i = 5 \/ i = 6 OBVIOUS
  <2>2. QED BY <1>1, <1>2, <1>3, <2>1 DEF RegistersOf, Kind, Bit, Val, MasterUp, CtrlBits
<1>5. QED BY <1>4

(* ... in clear_awg_stop_flags ... *)
LEMMA ClearAwgStopFlagsRegisters == \A i \in 1..7 : RegistersOf("clear", i)
<1>1. Method("clear") = ClearAwgStopFlags BY DEF Method
<1>2. LeaveAt("clear") = 7 BY DEF LeaveAt
<1>3. /\ ClearAwgStopFlags[1].kind = "lock"
      /\ ClearAwgStopFlags[2].kind = "target" /\ ClearAwgStopFlags[2].val = 1
      /\ ClearAwgStopFlags[3].kind = "master" /\ ClearAwgStopFlags[3].bit = "DONE_CLR" /\ ClearAwgStopFlags[3].val = 0
      /\ ClearAwgStopFlags[4].kind = "master" /\ ClearAwgStopFlags[4].bit = "DONE_CLR" /\ ClearAwgStopFlags[4].val = 1
      /\ ClearAwgStopFlags[5].kind = "master" /\ ClearAwgStopFlags[5].bit = "DONE_CLR" /\ ClearAwgStopFlags[5].val = 0
      /\ ClearAwgStopFlags[6].kind = "target" /\ ClearAwgStopFlags[6].val = 0
      /\ ClearAwgStopFlags[7].kind = "unlock"
  BY DEF ClearAwgStopFlags, Lock, Unlock, Select, Deselect, Master, Step
<1>4. ASSUME NEW i \in 1..7 PROVE RegistersOf("clear", i)
  <2>1. i = 1 \/ i = 2 \/ i = 3 \/ i = 4 \/ i = 5 \/ i = 6 \/ i = 7 OBVIOUS
  <2>2. QED BY <1>1, <1>2, <1>3, <2>1 DEF RegistersOf, Kind, Bit, Val, MasterUp, CtrlBits
<1>5. QED BY <1>4

(* ... in initialize ... *)
LEMMA InitializeRegisters == \A i \in 1..4 : RegistersOf("initialize", i)
<1>1. Method("initialize") = Initialize BY DEF Method
<1>2. LeaveAt("initialize") = 3 BY DEF LeaveAt
<1>3. /\ Initialize[1].kind = "lock"
      /\ Initialize[2].kind = "target" /\ Initialize[2].val = 0
      /\ Initialize[3].kind = "unlock"
      /\ Initialize[4].kind = "zero"
  BY DEF Initialize, Lock, Unlock, Deselect, ZeroCtrl, Step
<1>4. ASSUME NEW i \in 1..4 PROVE RegistersOf("initialize", i)
  <2>1. i = 1 \/ i = 2 \/ i = 3 \/ i = 4 OBVIOUS
  <2>2. QED BY <1>1, <1>2, <1>3, <2>1 DEF RegistersOf, Kind, Bit, Val, MasterUp, CtrlBits
<1>5. QED BY <1>4

(* ... in wait_for_awgs_to_stop, which writes none ... *)
LEMMA WaitForAwgsToStopRegisters == \A i \in 1..1 : RegistersOf("wait", i)
<1>1. Method("wait") = WaitForAwgsToStop BY DEF Method
<1>2. LeaveAt("wait") = 0 BY DEF LeaveAt
<1>3. /\ WaitForAwgsToStop[1].kind = "all"
  BY DEF WaitForAwgsToStop, AwaitAll, Step
<1>4. ASSUME NEW i \in 1..1 PROVE RegistersOf("wait", i)
  <2>1. i = 1 OBVIOUS
  <2>2. QED BY <1>1, <1>2, <1>3, <2>1 DEF RegistersOf, Kind, Bit, Val, MasterUp, CtrlBits
<1>5. QED BY <1>4

(* ... and so in every method. *)
LEMMA MethodRegisters ==
  ASSUME NEW o \in OpNames, NEW i \in 1..Len(Method(o)) PROVE RegistersOf(o, i)
<1>1. /\ Len(Method("start")) = 11 /\ Len(Method("terminate")) = 4
      /\ Len(Method("reset")) = 6 /\ Len(Method("clear")) = 7
      /\ Len(Method("initialize")) = 4 /\ Len(Method("wait")) = 1
  BY DEF Method, StartAwgs, TerminateAwgs, ResetAwgs, ClearAwgStopFlags, Initialize,
     WaitForAwgsToStop
<1>2. QED
  BY <1>1, StartAwgsRegisters, TerminateAwgsRegisters, ResetAwgsRegisters,
     ClearAwgStopFlagsRegisters, InitializeRegisters, WaitForAwgsToStopRegisters
  DEF OpNames

(* The steps of start_awgs ... *)
LEMMA StepsOfStart ==
  /\ Len(Method("start")) = 11 /\ LeaveAt("start") = 11
  /\ \A i \in 1..11 :
       /\ Kind("start", i) = "lock" <=> i = 1
       /\ Kind("start", i) = "target" <=> i \in {2, 10}
       /\ Kind("start", i) = "master" <=> i \in {3, 4, 6, 7, 8, 9}
       /\ Kind("start", i) = "all" <=> i = 5
       /\ Kind("start", i) = "unlock" <=> i = 11
  /\ Bit("start", 3) = "PREPARE" /\ Val("start", 3) = 0
  /\ Bit("start", 4) = "PREPARE" /\ Val("start", 4) = 1
  /\ Bit("start", 5) = "READY" /\ Val("start", 5) = 1
  /\ Bit("start", 6) = "PREPARE" /\ Val("start", 6) = 0
  /\ Bit("start", 7) = "START" /\ Val("start", 7) = 0
  /\ Bit("start", 8) = "START" /\ Val("start", 8) = 1
  /\ Bit("start", 9) = "START" /\ Val("start", 9) = 0
  /\ Val("start", 2) = 1
<1>1. Method("start") = StartAwgs BY DEF Method
<1>2. LeaveAt("start") = 11 BY DEF LeaveAt
<1>3. Len(Method("start")) = 11 BY <1>1 DEF StartAwgs
<1>4. /\ StartAwgs[1].kind = "lock"
      /\ StartAwgs[2].kind = "target" /\ StartAwgs[2].val = 1
      /\ StartAwgs[3].kind = "master" /\ StartAwgs[3].bit = "PREPARE" /\ StartAwgs[3].val = 0
      /\ StartAwgs[4].kind = "master" /\ StartAwgs[4].bit = "PREPARE" /\ StartAwgs[4].val = 1
      /\ StartAwgs[5].kind = "all" /\ StartAwgs[5].bit = "READY" /\ StartAwgs[5].val = 1
      /\ StartAwgs[6].kind = "master" /\ StartAwgs[6].bit = "PREPARE" /\ StartAwgs[6].val = 0
      /\ StartAwgs[7].kind = "master" /\ StartAwgs[7].bit = "START" /\ StartAwgs[7].val = 0
      /\ StartAwgs[8].kind = "master" /\ StartAwgs[8].bit = "START" /\ StartAwgs[8].val = 1
      /\ StartAwgs[9].kind = "master" /\ StartAwgs[9].bit = "START" /\ StartAwgs[9].val = 0
      /\ StartAwgs[10].kind = "target"
      /\ StartAwgs[11].kind = "unlock"
  BY DEF StartAwgs, Lock, Unlock, Select, Deselect, Master, AwaitAll, Step
<1>5. ASSUME NEW i \in 1..11
      PROVE  /\ Kind("start", i) = "lock" <=> i = 1
             /\ Kind("start", i) = "target" <=> i \in {2, 10}
             /\ Kind("start", i) = "master" <=> i \in {3, 4, 6, 7, 8, 9}
             /\ Kind("start", i) = "all" <=> i = 5
             /\ Kind("start", i) = "unlock" <=> i = 11
  <2>1. i = 1 \/ i = 2 \/ i = 3 \/ i = 4 \/ i = 5 \/ i = 6 \/ i = 7 \/ i = 8 \/ i = 9 \/ i = 10 \/ i = 11
    OBVIOUS
  <2>2. QED BY <1>1, <1>4, <2>1 DEF Kind
<1>6. QED BY <1>1, <1>2, <1>3, <1>4, <1>5 DEF Bit, Val

(* ... of terminate_awgs ... *)
LEMMA StepsOfTerminate ==
  /\ Len(Method("terminate")) = 4 /\ LeaveAt("terminate") = 0
  /\ \A i \in 1..4 :
       /\ Kind("terminate", i) = "own" <=> i \in {1, 3}
       /\ Kind("terminate", i) = "one" <=> i = 2
       /\ Kind("terminate", i) = "again" <=> i = 4
  /\ Bit("terminate", 2) = "BUSY" /\ Val("terminate", 2) = 0
<1>1. Method("terminate") = TerminateAwgs BY DEF Method
<1>2. LeaveAt("terminate") = 0 BY DEF LeaveAt
<1>3. Len(Method("terminate")) = 4 BY <1>1 DEF TerminateAwgs
<1>4. /\ TerminateAwgs[1].kind = "own" /\ TerminateAwgs[3].kind = "own"
      /\ TerminateAwgs[2].kind = "one" /\ TerminateAwgs[4].kind = "again"
      /\ TerminateAwgs[2].bit = "BUSY" /\ TerminateAwgs[2].val = 0
  BY DEF TerminateAwgs, Own, AwaitOne, Again, Step
<1>5. QED BY <1>1, <1>2, <1>3, <1>4 DEF Kind, Bit, Val

(* ... and of wait_for_awgs_to_stop. *)
LEMMA StepsOfWait ==
  /\ Len(Method("wait")) = 1 /\ LeaveAt("wait") = 0
  /\ Kind("wait", 1) = "all" /\ Bit("wait", 1) = "DONE" /\ Val("wait", 1) = 1
<1>1. Method("wait") = WaitForAwgsToStop BY DEF Method
<1>2. LeaveAt("wait") = 0 BY DEF LeaveAt
<1>3. Len(Method("wait")) = 1 BY <1>1 DEF WaitForAwgsToStop
<1>4. WaitForAwgsToStop[1] = [kind |-> "all", bit |-> "DONE", val |-> 1]
  BY DEF WaitForAwgsToStop, AwaitAll, Step
<1>5. QED BY <1>1, <1>2, <1>3, <1>4 DEF Kind, Bit, Val

-----------------------------------------------------------------------------
(* What a change of its control registers does to an AWG.                  *)
LEMMA MasterEffects ==
  ASSUME NEW old, NEW new, NEW s \in AwgStates,
         NEW t, t = OnMasterCtrl(old, new, s)
  PROVE  /\ t = "READY" => s = "READY" \/ Rises("PREPARE", old, new)
         /\ t = "GEN_WAVE" => s = "GEN_WAVE" \/ (s = "READY" /\ Rises("START", old, new))
         /\ (\A b \in CtrlBits : ~Rises(b, old, new)) /\ ~Rises("RESET", new, old) => t = s
         /\ (\A b \in CtrlBits : Rises(b, old, new) <=> b = "START")
              /\ ~Rises("RESET", new, old) /\ s = "READY" => t = "GEN_WAVE"
BY DEF OnMasterCtrl, Reset, Prepare, Start, Terminate, DoneClr, AwgStates, CtrlBits

LEMMA OwnEffects ==
  ASSUME NEW old, NEW new, old \subseteq {"TERMINATE"}, new \subseteq {"TERMINATE"},
         NEW s \in AwgStates
  PROVE  OnOwnCtrl(old, new, s) \in {s, "COMPLETE"}
<1>1. ~Rises("RESET", old, new) /\ ~Rises("PREPARE", old, new) /\ ~Rises("START", old, new)
      /\ ~Rises("DONE_CLR", old, new) /\ ~Rises("RESET", new, old)
  BY DEF Rises
<1>2. QED BY ONLY <1>1 DEF OnOwnCtrl, Reset, Prepare, Start, Terminate, DoneClr

-----------------------------------------------------------------------------
(* The AWGs of the call whose turn is over in a loop over them. *)
Passed(c) == {args[c][i] : i \in 1..(idx[c] - 1)}

(* The next AWG's turn, the first one's, and the last one's. *)
LEMMA PassedGrows ==
  ASSUME NEW c \in Clients, idx[c] \in Nat \ {0}
  PROVE  /\ args'[c] = args[c] /\ idx'[c] = idx[c] + 1
              => Passed(c)' = Passed(c) \cup {Target(c)}
         /\ idx'[c] = 1 => Passed(c)' = {}
         /\ idx[c] = 1 => Passed(c) = {}
         /\ idx[c] = Len(args[c]) => Listed(c) = Passed(c) \cup {Target(c)}
<1>1. ASSUME args'[c] = args[c], idx'[c] = idx[c] + 1
      PROVE Passed(c)' = Passed(c) \cup {Target(c)}
  <2> DEFINE n == idx[c]
  <2>1. n \in Nat \ {0} /\ 1..(n + 1 - 1) = 1..(n - 1) \cup {n} OBVIOUS
  <2> HIDE DEF n
  <2>2. idx'[c] - 1 = n + 1 - 1 /\ idx[c] = n BY <1>1 DEF n
  <2>3. QED BY <1>1, <2>1, <2>2 DEF Passed, Target
<1>2. ASSUME idx'[c] = 1 PROVE Passed(c)' = {}
  <2>1. 1..(1 - 1) = {} OBVIOUS
  <2>2. QED BY <1>2, <2>1 DEF Passed
<1>3. ASSUME idx[c] = 1 PROVE Passed(c) = {}
  <2>1. 1..(1 - 1) = {} OBVIOUS
  <2>2. QED BY <1>3, <2>1 DEF Passed
<1>4. ASSUME idx[c] = Len(args[c]) PROVE Listed(c) = Passed(c) \cup {Target(c)}
  <2> DEFINE n == idx[c]
  <2>1. n \in Nat \ {0} /\ 1..n = 1..(n - 1) \cup {n} OBVIOUS
  <2> HIDE DEF n
  <2>2. idx[c] = n /\ Len(args[c]) = n BY <1>4 DEF n
  <2>3. QED BY <2>1, <2>2 DEF Passed, Target, Listed
<1>5. QED BY <1>1, <1>2, <1>3, <1>4

(* Where Advance takes a client. *)
LEMMA AdvanceMoves ==
  ASSUME ClientTypeOK, NEW c \in Clients, NEW i \in Nat, Advance(c, i)
  PROVE  \/ /\ pc[c] # Len(Method(op[c]))
            /\ op' = op /\ args' = args /\ pc'[c] = pc[c] + 1 /\ idx'[c] = i
            /\ phase'[c] = "read"
         \/ pc[c] = Len(Method(op[c])) /\ Return(c) /\ op'[c] = "none"
BY DEF ClientTypeOK, Advance, Goto, Return

(* Where NextAwg takes it. *)
LEMMA NextAwgMoves ==
  ASSUME ClientTypeOK, NEW c \in Clients, Active(c), NextAwg(c)
  PROVE  \/ /\ op' = op /\ args' = args /\ pc'[c] = pc[c] /\ phase'[c] = "read"
            /\ Passed(c)' = Passed(c) \cup {Target(c)}
         \/ /\ pc[c] # Len(Method(op[c]))
            /\ op' = op /\ args' = args /\ pc'[c] = pc[c] + 1 /\ phase'[c] = "read"
            /\ Passed(c)' = {} /\ Listed(c) = Passed(c) \cup {Target(c)}
         \/ /\ pc[c] = Len(Method(op[c])) /\ Return(c) /\ op'[c] = "none"
            /\ Listed(c) = Passed(c) \cup {Target(c)}
<1>1. idx[c] \in 1..Len(args[c]) /\ Len(args[c]) \in Nat /\ idx[c] \in Nat BY AtShape
<1>2. idx[c] \in Nat \ {0} BY <1>1
<1>3. CASE idx[c] < Len(args[c])
  <2>1. Goto(c, pc[c], idx[c] + 1) BY <1>3 DEF NextAwg
  <2>2. op' = op /\ args' = args /\ pc'[c] = pc[c] /\ idx'[c] = idx[c] + 1 /\ phase'[c] = "read"
    BY <2>1 DEF Goto, ClientTypeOK
  <2>3. QED BY <1>2, <2>2, PassedGrows
<1>4. CASE ~(idx[c] < Len(args[c]))
  <2>1. idx[c] = Len(args[c]) BY <1>1, <1>4
  <2>2. Advance(c, 1) BY <1>4 DEF NextAwg
  <2>3. QED BY <1>2, <2>1, <2>2, AdvanceMoves, PassedGrows
<1>5. QED BY <1>3, <1>4

-----------------------------------------------------------------------------
(* What CTRL_TARGET_SEL and the master CTRL hold while the client is in    *)
(* the block, if no call was cut short.                                    *)
SelectedAt(c) ==
  IF op[c] = "initialize" \/ pc[c] = LeaveAt(op[c]) THEN {}
  ELSE IF pc[c] = 2 THEN Passed(c)
  ELSE IF pc[c] = LeaveAt(op[c]) - 1 THEN Listed(c) \ Passed(c)
  ELSE Listed(c)

Follows(c) == targetSel = SelectedAt(c) /\ masterCtrl = MasterAt(op[c], pc[c])

Clean == targetSel = {} /\ masterCtrl = {}

RegistersFollow ==
  ~aborted =>
    /\ lockHolder = NoClient => Clean
    /\ \A c \in Clients : lockHolder = c => Follows(c)

(* The AWGs' own CTRL is written by terminate_awgs and initialize only.    *)
OwnRead(c) ==
  Active(c) /\ phase[c] = "write" /\ Kind(op[c], pc[c]) = "own" =>
    readVal[c] \subseteq {"TERMINATE"}

OwnCtrlTerminates ==
  /\ \A a \in AWGs : ctrl[a] \subseteq {"TERMINATE"}
  /\ \A c \in Clients : OwnRead(c)

(* An AWG is armed only by the start that is about to fire it. *)
Firing(c) == op[c] = "start" /\ pc[c] \in 5..8

ArmedByStart ==
  ~aborted => \A a \in AWGs : state[a] = "READY" =>
    \E c \in Clients : Firing(c) /\ a \in Listed(c)

(* What start_awgs has done by the step it is at, whatever the registers   *)
(* held before.  An AWG it has prepared stays so, or the history says that *)
(* another client has taken it out of READY.                               *)
Armed(c, a) == state[a] = "READY" \/ a \in cancelled[c]

OnItsWay(c) ==
  op[c] = "start" =>
    /\ pc[c] = 2 => Passed(c) \subseteq targetSel
    /\ pc[c] \in 3..9 => Listed(c) \subseteq targetSel
    /\ pc[c] = 5 => \A a \in Passed(c) : Armed(c, a)
    /\ pc[c] \in 6..8 => \A a \in Listed(c) : Armed(c, a)
    /\ pc[c] = 8 => "START" \notin masterCtrl
    /\ pc[c] > 8 => Listed(c) \subseteq fired[c] \cup cancelled[c]

(* The waves that wait_for_awgs_to_stop and terminate_awgs have waited for. *)
Waited(c) ==
  /\ ongoing[c] \subseteq {a \in AWGs : state[a] = "GEN_WAVE"}
  /\ op[c] = "wait" => Passed(c) \cap ongoing[c] = {}
  /\ op[c] = "terminate" =>
       /\ Passed(c) \cap ongoing[c] = {}
       /\ pc[c] > 2 => Target(c) \notin ongoing[c]

(* The history is that of the start the client is in. *)
HistoryOfStart(c) ==
  /\ op[c] # "start" => fired[c] = {} /\ cancelled[c] = {}
  /\ op[c] = "start" => \A a \in cancelled[c] : state[a] # "READY"

FiresListed(c) == ~aborted /\ op[c] = "start" => fired[c] \subseteq Listed(c)

(* Of each client, what does not depend on who has the lock. *)
OwnInv(c) ==
  OwnRead(c) /\ OnItsWay(c) /\ Waited(c) /\ HistoryOfStart(c) /\ FiresListed(c)

StartInv ==
  /\ RegistersFollow /\ ArmedByStart
  /\ \A a \in AWGs : ctrl[a] \subseteq {"TERMINATE"}
  /\ \A c \in Clients : OwnInv(c)

-----------------------------------------------------------------------------
(* What a step of another client, or the end of a wave, does to a client.  *)
Stays(d) ==
  /\ op'[d] = op[d] /\ args'[d] = args[d] /\ pc'[d] = pc[d] /\ idx'[d] = idx[d]
  /\ phase'[d] = phase[d] /\ readVal'[d] = readVal[d]

(* The history of a client follows the AWGs. *)
KeepsTrack(d) ==
  /\ ongoing'[d] \subseteq {a \in ongoing[d] : state'[a] = "GEN_WAVE"}
  /\ fired[d] \subseteq fired'[d]
  /\ op[d] # "start" => cancelled'[d] = cancelled[d]
  /\ op[d] = "start" =>
       /\ \A a \in cancelled'[d] : state'[a] # "READY"
       /\ \A a \in cancelled[d] : state'[a] # "READY" => a \in cancelled'[d]
       /\ \A a \in Listed(d) : state[a] = "READY" =>
            state'[a] \in {"READY", "GEN_WAVE"} \/ a \in cancelled'[d]

(* A step that changes no AWG. *)
LEMMA QuietKeepsTrack ==
  ASSUME NEW d \in Clients, Waited(d), HistoryOfStart(d), state' = state,
         cancelled'[d] = cancelled[d] /\ fired'[d] = fired[d] /\ ongoing'[d] = ongoing[d]
  PROVE  KeepsTrack(d)
BY DEF KeepsTrack, Waited, HistoryOfStart

(* A step that does, and what the history makes of it. *)
LEMMA ObserveKeepsTrack ==
  ASSUME ClientTypeOK, HistoryTypeOK, NEW c \in Clients, Observe(c), NEW d \in Clients
  PROVE  /\ KeepsTrack(d)
         /\ d # c => fired'[d] = fired[d]
<1>1. op[d] = "start" => Listed(d) \subseteq AWGs
  BY DEF ClientTypeOK, Listed, Active
<1>2. /\ fired' = [fired EXCEPT ![c] = @ \cup
            {a \in AWGs : state[a] # "GEN_WAVE" /\ state'[a] = "GEN_WAVE"}]
      /\ cancelled'[d] =
           IF op[d] # "start" THEN cancelled[d]
           ELSE (cancelled[d] \cup
                  {a \in Listed(d) : state[a] = "READY" /\ state'[a] # "GEN_WAVE"})
                \ {a \in AWGs : state'[a] = "READY"}
      /\ ongoing'[d] = {a \in ongoing[d] : state'[a] = "GEN_WAVE"}
  BY DEF Observe
<1>3. fired[d] \subseteq fired'[d] /\ (d # c => fired'[d] = fired[d])
  BY <1>2 DEF HistoryTypeOK
<1>4. op[d] = "start" =>
       /\ \A a \in cancelled'[d] : state'[a] # "READY"
       /\ \A a \in cancelled[d] : state'[a] # "READY" => a \in cancelled'[d]
       /\ \A a \in Listed(d) : state[a] = "READY" =>
            state'[a] \in {"READY", "GEN_WAVE"} \/ a \in cancelled'[d]
  BY <1>1, <1>2 DEF HistoryTypeOK
<1>5. QED BY <1>2, <1>3, <1>4 DEF KeepsTrack

(* What the invariant says of a client that stays where it is, it goes on  *)
(* saying: nobody else writes the master registers while it is in its      *)
(* block, and nothing but its own START takes an AWG from READY to         *)
(* GEN_WAVE.                                                               *)
LEMMA OthersKeepInv ==
  ASSUME TypeOK, NEW d \in Clients, OwnInv(d), Stays(d), KeepsTrack(d),
         fired'[d] = fired[d], aborted => aborted',
         InBlock(d) => /\ UNCHANGED <<targetSel, masterCtrl>>
                       /\ \A a \in AWGs : state'[a] \in {state[a], "COMPLETE"}
  PROVE  OwnInv(d)' /\ (Follows(d) /\ InBlock(d) => Follows(d)')
<1>1. /\ op'[d] = op[d] /\ args'[d] = args[d] /\ pc'[d] = pc[d] /\ idx'[d] = idx[d]
      /\ phase'[d] = phase[d] /\ readVal'[d] = readVal[d]
  BY DEF Stays
<1>2. Passed(d)' = Passed(d) /\ Listed(d)' = Listed(d) /\ Target(d)' = Target(d)
  BY <1>1 DEF Passed, Listed, Target
<1>3. OwnRead(d)' BY <1>1 DEF OwnInv, OwnRead, Active
<1>4. Waited(d)' BY <1>1, <1>2 DEF OwnInv, Waited, KeepsTrack, TypeOK, HistoryTypeOK
<1>5. HistoryOfStart(d)' BY <1>1 DEF OwnInv, HistoryOfStart, KeepsTrack
<1>6. FiresListed(d)' BY <1>1, <1>2, Zenon DEF OwnInv, FiresListed
<1>7. ASSUME op[d] = "start", pc[d] > 1 PROVE InBlock(d)
  <2>1. LeaveAt("start") = 11 /\ Len(Method("start")) = 11 BY ONLY StepsOfStart
  <2>2. op[d] # "none" BY <1>7
  <2>3. pc[d] \in Nat /\ pc[d] \in 1..11
    BY <1>7, <2>1, <2>2 DEF TypeOK, ClientTypeOK, Active
  <2>4. QED BY <1>7, <2>1, <2>2, <2>3 DEF InBlock, Active
<1>8. ASSUME op[d] = "start", pc[d] > 1, NEW a \in Listed(d), Armed(d, a)
      PROVE  Armed(d, a)'
  <2>1. a \in AWGs BY <1>8 DEF TypeOK, ClientTypeOK, Listed, Active
  <2>2. state'[a] \in {state[a], "COMPLETE"} BY <1>7, <1>8, <2>1
  <2>3. QED BY <1>8, <2>2 DEF Armed, KeepsTrack
<1>9. ASSUME op[d] = "start", pc[d] > 8, NEW a \in fired[d] \cup cancelled[d]
      PROVE  a \in fired'[d] \cup cancelled'[d]
  <2>1. a \in AWGs BY DEF TypeOK, HistoryTypeOK
  <2>2. pc[d] > 1 BY <1>9 DEF TypeOK, ClientTypeOK
  <2>3. state'[a] \in {state[a], "COMPLETE"} BY <1>7, <1>9, <2>1, <2>2
  <2>4. a \in cancelled[d] => state[a] # "READY" BY <1>9 DEF OwnInv, HistoryOfStart
  <2>5. QED BY <1>9, <2>3, <2>4 DEF KeepsTrack
<1>10. OnItsWay(d)'
  <2>1. SUFFICES ASSUME op[d] = "start", pc[d] > 1
        PROVE  /\ pc[d] = 2 => Passed(d) \subseteq targetSel'
               /\ pc[d] \in 3..9 => Listed(d) \subseteq targetSel'
               /\ pc[d] = 5 => \A a \in Passed(d) : Armed(d, a)'
               /\ pc[d] \in 6..8 => \A a \in Listed(d) : Armed(d, a)'
               /\ pc[d] = 8 => "START" \notin masterCtrl'
               /\ pc[d] > 8 => Listed(d) \subseteq fired'[d] \cup cancelled'[d]
    <3>1. pc[d] \in Nat BY DEF TypeOK, ClientTypeOK
    <3>2. QED BY <1>1, <1>2, <3>1 DEF OnItsWay, Armed
  <2>2. UNCHANGED <<targetSel, masterCtrl>> BY <1>7, <2>1
  <2>3. Passed(d) \subseteq Listed(d)
    BY <2>1, AtShape DEF TypeOK, Active, Passed, Listed
  <2>4. QED BY <1>8, <1>9, <2>1, <2>2, <2>3 DEF OwnInv, OnItsWay
<1>11. Follows(d) /\ InBlock(d) => Follows(d)'
  BY <1>1, <1>2 DEF Follows, SelectedAt
<1>12. QED BY <1>3, <1>4, <1>5, <1>6, <1>10, <1>11 DEF OwnInv

(* A step of one client keeps the invariant, if that client does. *)
LEMMA StepKeepsStartInv ==
  ASSUME Inv, Inv', StartInv, NEW c \in Clients, aborted => aborted',
         \A d \in Clients : d # c => Stays(d) /\ KeepsTrack(d) /\ fired'[d] = fired[d],
         InBlock(c) \/ (/\ UNCHANGED <<targetSel, masterCtrl>>
                        /\ \A a \in AWGs : state'[a] \in {state[a], "COMPLETE"}),
         ~aborted' /\ lockHolder' = NoClient => Clean',
         ~aborted' /\ lockHolder' = c => Follows(c)',
         OwnInv(c)', ArmedByStart', \A a \in AWGs : ctrl'[a] \subseteq {"TERMINATE"}
  PROVE  StartInv'
<1>1. ASSUME NEW d \in Clients, d # c
      PROVE  OwnInv(d)' /\ (Follows(d) /\ InBlock(d) => Follows(d)')
  <2>1. InBlock(d) => ~InBlock(c) BY <1>1 DEF Inv, BlockHasLock
  <2>2. Stays(d) /\ KeepsTrack(d) /\ fired'[d] = fired[d] /\ OwnInv(d) BY <1>1 DEF StartInv
  <2>3. QED BY <2>1, <2>2, OthersKeepInv DEF Inv
<1>2. \A d \in Clients : OwnInv(d)' BY <1>1
<1>3. ASSUME NEW d \in Clients, d # c, lockHolder' = d, ~aborted' PROVE Follows(d)'
  <2>1. InBlock(d)' BY <1>3 DEF Inv, BlockHasLock
  <2>2. Stays(d) BY <1>3
  <2>3. InBlock(d) BY <2>1, <2>2 DEF Stays, InBlock, Active
  <2>4. lockHolder = d BY <2>3 DEF Inv, BlockHasLock
  <2>5. Follows(d) BY <1>3, <2>4 DEF StartInv, RegistersFollow
  <2>6. QED BY <1>1, <1>3, <2>3, <2>5
<1>4. RegistersFollow' BY <1>3 DEF RegistersFollow
<1>5. QED BY <1>2, <1>4 DEF StartInv

(* An armed AWG stays the concern of the client that is about to fire it.  *)
LEMMA ArmedStays ==
  ASSUME StartInv, NEW c \in Clients, aborted => aborted',
         \A d \in Clients : d # c => Stays(d),
         \A a \in AWGs : state'[a] = "READY" => state[a] = "READY",
         Firing(c) /\ ~aborted' => Firing(c)' /\ args'[c] = args[c]
  PROVE  ArmedByStart'
<1>1. ASSUME ~aborted', NEW a \in AWGs, state'[a] = "READY"
      PROVE  \E d \in Clients : Firing(d)' /\ a \in Listed(d)'
  <2>1. ~aborted /\ state[a] = "READY" BY <1>1
  <2>2. PICK d \in Clients : Firing(d) /\ a \in Listed(d)
    BY <2>1 DEF StartInv, ArmedByStart
  <2>3. Firing(d)' /\ args'[d] = args[d]
    <3>1. CASE d = c BY <1>1, <2>2, <3>1
    <3>2. CASE d # c
      <4>1. Stays(d) BY <3>2
      <4>2. QED BY <2>2, <4>1 DEF Stays, Firing
    <3>3. QED BY <3>1, <3>2
  <2>4. Listed(d)' = Listed(d) BY <2>3 DEF Listed
  <2>5. QED BY <2>2, <2>3, <2>4
<1>2. QED BY <1>1 DEF ArmedByStart

(* The other clients stay where they are. *)
LEMMA OthersStayHere ==
  ASSUME ClientTypeOK, NEW c \in Clients, Moves(c)
  PROVE  \A d \in Clients : d # c => Stays(d)
BY OthersStay DEF Stays, Moves

(* A call that is over has no history, and no claims. *)
LEMMA ReturnedOwnInv ==
  ASSUME TypeOK, NEW c \in Clients, Return(c),
         fired'[c] = {} /\ cancelled'[c] = {},
         ongoing'[c] \subseteq {a \in AWGs : state'[a] = "GEN_WAVE"}
  PROVE  OwnInv(c)'
<1>1. op'[c] = "none" BY DEF Return, TypeOK, ClientTypeOK
<1>2. QED
  BY <1>1 DEF OwnInv, OwnRead, OnItsWay, Waited, HistoryOfStart, FiresListed, Active

(* A step that touches no register and ends no wave. *)
LEMMA QuietKeepsStartInv ==
  ASSUME Inv, Inv', StartInv, NEW c \in Clients, Moves(c), UNCHANGED deviceVars,
         aborted => aborted',
         \/ Return(c) /\ Forget(c) /\ (Firing(c) => aborted')
         \/ /\ op' = op /\ args' = args /\ UNCHANGED historyVars
            /\ OnItsWay(c)' /\ Waited(c)' /\ (Firing(c) => Firing(c)'),
         ~aborted' /\ lockHolder' = NoClient => Clean,
         ~aborted' /\ lockHolder' = c => Follows(c)'
  PROVE  StartInv'
<1> USE DEF Inv, TypeOK
<1>1. UNCHANGED <<targetSel, masterCtrl, ctrl, state>> BY DEF deviceVars
<1>2. \A d \in Clients : d # c => Stays(d) BY OthersStayHere
<1>3. ASSUME NEW d \in Clients, d # c
      PROVE  fired'[d] = fired[d] /\ cancelled'[d] = cancelled[d] /\ ongoing'[d] = ongoing[d]
  BY <1>3 DEF Forget, historyVars, HistoryTypeOK
<1>4. ASSUME NEW d \in Clients, d # c PROVE KeepsTrack(d) /\ fired'[d] = fired[d]
  BY <1>1, <1>3, <1>4, QuietKeepsTrack DEF StartInv, OwnInv
<1>5. OwnInv(c)'
  <2>1. CASE Return(c) /\ Forget(c)
    <3>1. fired'[c] = {} /\ cancelled'[c] = {} /\ ongoing'[c] = {}
      BY <2>1 DEF Forget, HistoryTypeOK
    <3>2. QED BY <2>1, <3>1, ReturnedOwnInv
  <2>2. CASE op' = op /\ args' = args /\ UNCHANGED historyVars /\ OnItsWay(c)' /\ Waited(c)'
    <3>1. phase'[c] = "read" BY DEF Moves, Return, Goto, ClientTypeOK
    <3>2. OwnRead(c)' BY <3>1 DEF OwnRead
    <3>3. OwnInv(c) BY DEF StartInv
    <3>4. HistoryOfStart(c)' BY <1>1, <2>2, <3>3 DEF OwnInv, HistoryOfStart, historyVars
    <3>5. fired' = fired /\ Listed(c)' = Listed(c) BY <2>2 DEF historyVars, Listed
    <3>6. FiresListed(c)' BY <2>2, <3>3, <3>5, Zenon DEF OwnInv, FiresListed
    <3>7. QED BY <2>2, <3>2, <3>4, <3>6 DEF OwnInv
  <2>3. QED BY <2>1, <2>2
<1>6. ArmedByStart'
  <2>1. Firing(c) /\ ~aborted' => Firing(c)' /\ args'[c] = args[c] OBVIOUS
  <2>2. QED BY <1>1, <1>2, <2>1, ArmedStays
<1>7. \A a \in AWGs : ctrl'[a] \subseteq {"TERMINATE"} BY <1>1 DEF StartInv
<1>8. ~aborted' /\ lockHolder' = NoClient => Clean' BY <1>1 DEF Clean
<1>9. \A a \in AWGs : state'[a] \in {state[a], "COMPLETE"} BY <1>1
<1>10. QED BY <1>1, <1>2, <1>4, <1>5, <1>6, <1>7, <1>8, <1>9, StepKeepsStartInv

-----------------------------------------------------------------------------
(* The steps.  At its step a client has what the method's shape says. *)
LEMMA AtRegisters ==
  ASSUME TypeOK, NEW c \in Clients, Active(c)
  PROVE  /\ RegistersOf(op[c], pc[c]) /\ KindOf(op[c], pc[c]) /\ KindsOf(op[c])
         /\ op[c] \in OpNames /\ op[c] # "none"
         /\ pc[c] \in Nat /\ pc[c] >= 1 /\ LeaveAt(op[c]) \in Nat
         /\ pc[c] <= Len(Method(op[c])) /\ Len(Method(op[c])) \in Nat
         /\ LeaveAt(op[c]) <= Len(Method(op[c]))
         /\ idx[c] \in Nat \ {0} /\ idx[c] <= Len(args[c]) /\ Len(args[c]) \in Nat
         /\ Target(c) \in AWGs
         /\ At(c).kind = Kind(op[c], pc[c]) /\ At(c).bit = Bit(op[c], pc[c])
         /\ At(c).val = Val(op[c], pc[c])
<1>1. ClientTypeOK BY DEF TypeOK
<1>2. op[c] \in OpNames /\ pc[c] \in 1..Len(Method(op[c])) BY <1>1, AtShape
<1>3. RegistersOf(op[c], pc[c]) BY <1>2, MethodRegisters
<1>4. KindOf(op[c], pc[c]) /\ KindsOf(op[c]) /\ pc[c] \in Nat /\ idx[c] \in Nat
      /\ idx[c] \in 1..Len(args[c]) /\ Len(args[c]) \in Nat /\ Target(c) \in AWGs
  BY <1>1, AtShape
<1>5. /\ Len(Method(op[c])) \in Nat /\ LeaveAt(op[c]) \in Nat
      /\ LeaveAt(op[c]) <= Len(Method(op[c]))
  BY <1>4 DEF KindsOf
<1>6. /\ At(c).kind = Kind(op[c], pc[c]) /\ At(c).bit = Bit(op[c], pc[c])
      /\ At(c).val = Val(op[c], pc[c])
  BY DEF At, Kind, Bit, Val
<1>7. pc[c] >= 1 /\ pc[c] <= Len(Method(op[c])) /\ idx[c] \in Nat \ {0} /\ idx[c] <= Len(args[c])
  BY <1>2, <1>4, <1>5
<1>8. op[c] # "none" BY DEF Active
<1>9. QED BY <1>2, <1>3, <1>4, <1>5, <1>6, <1>7, <1>8

(* The lock finds the registers clean ... *)
LEMMA EnterLockKeepsStartInv ==
  ASSUME Inv, Inv', StartInv, NEW c \in Clients, EnterLock(c) PROVE StartInv'
<1> USE DEF Inv, TypeOK
<1>1. /\ Active(c) /\ Kind(op[c], pc[c]) = "lock" /\ lockHolder = NoClient
      /\ Advance(c, 1) /\ UNCHANGED <<deviceVars, aborted>> /\ lockHolder' = c
      /\ Unobserved(c)
  BY DEF EnterLock, Kind, At
<1>2. pc[c] = 1 /\ LeaveAt(op[c]) > 2 /\ (LeaveAt(op[c]) = 3 => op[c] = "initialize")
      /\ LeaveAt(op[c]) \in Nat /\ pc[c] # Len(Method(op[c]))
      /\ \A b \in CtrlBits : ~MasterUp(op[c], 2, b)
  BY <1>1, AtRegisters DEF RegistersOf, KindOf
<1>3. op' = op /\ args' = args /\ pc'[c] = 2 /\ idx'[c] = 1
  <2>1. op' = op /\ args' = args /\ pc'[c] = pc[c] + 1 /\ idx'[c] = 1
    BY <1>1, <1>2, AdvanceMoves
  <2>2. QED BY <1>2, <2>1
<1>4. Moves(c)
  <2>1. Goto(c, 2, 1) BY <1>1, <1>2 DEF Advance
  <2>2. 1 \in Nat /\ 2 \in Nat OBVIOUS
  <2>3. QED BY <2>1, <2>2 DEF Moves
<1>5. UNCHANGED historyVars BY <1>1, <1>3 DEF Unobserved, Active
<1>6. Passed(c)' = {} BY <1>1, <1>3, AtRegisters, PassedGrows
<1>7. OnItsWay(c)' BY <1>3, <1>6 DEF OnItsWay
<1>8. Waited(c)'
  <2>1. Waited(c) BY DEF StartInv, OwnInv
  <2>2. QED BY <1>1, <1>3, <1>5, <1>6, <2>1 DEF Waited, historyVars, deviceVars
<1>9. ~Firing(c) BY <1>2 DEF Firing
<1>10. lockHolder' # NoClient BY <1>1, AwgControlAssumption DEF AwgControlAssumption
<1>11. ASSUME ~aborted' PROVE Follows(c)'
  <2>1. Clean BY <1>1, <1>11 DEF StartInv, RegistersFollow
  <2>2. SelectedAt(c)' = {} BY <1>2, <1>3, <1>6 DEF SelectedAt
  <2>3. MasterAt(op[c], 2) = {} BY <1>2 DEF MasterAt
  <2>4. QED BY <1>1, <1>3, <2>1, <2>2, <2>3 DEF Follows, Clean, deviceVars
<1>12. QED
  BY <1>1, <1>3, <1>4, <1>5, <1>7, <1>8, <1>9, <1>10, <1>11, QuietKeepsStartInv

(* ... and leaves them so. *)
LEMMA LeaveLockKeepsStartInv ==
  ASSUME Inv, Inv', StartInv, NEW c \in Clients, LeaveLock(c) PROVE StartInv'
<1> USE DEF Inv, TypeOK
<1>1. /\ Active(c) /\ Kind(op[c], pc[c]) = "unlock" /\ lockHolder' = NoClient
      /\ Advance(c, 1) /\ UNCHANGED <<deviceVars, aborted>>
      /\ Unobserved(c)
  BY DEF LeaveLock, Kind, At
<1>2. pc[c] = LeaveAt(op[c]) /\ pc[c] # 1 /\ pc[c] \in Nat /\ pc[c] >= 1
      /\ \A b \in CtrlBits : ~MasterUp(op[c], pc[c], b)
  BY <1>1, AtRegisters DEF RegistersOf, KindOf, KindsOf
<1>3. InBlock(c) BY <1>1, <1>2 DEF InBlock
<1>4. lockHolder = c BY <1>3 DEF BlockHasLock
<1>5. op[c] # "start" \/ pc[c] = 11 BY <1>2, StepsOfStart
<1>6. ~Firing(c) BY <1>5 DEF Firing
<1>7. Moves(c)
  <2>1. pc[c] + 1 \in Nat /\ 1 \in Nat BY <1>2
  <2>2. QED BY <1>1, <2>1 DEF Moves, Advance
<1>8. \/ Return(c) /\ Forget(c)
      \/ /\ op' = op /\ args' = args /\ UNCHANGED historyVars
         /\ OnItsWay(c)' /\ Waited(c)'
  <2>1. CASE pc[c] = Len(Method(op[c])) /\ Return(c) /\ op'[c] = "none"
    BY <1>1, <2>1 DEF Unobserved, Active
  <2>2. CASE pc[c] # Len(Method(op[c])) /\ op' = op /\ args' = args
    <3>1. UNCHANGED historyVars BY <1>1, <2>2 DEF Unobserved, Active
    <3>2. op[c] # "start" BY <1>5, <2>2, StepsOfStart
    <3>3. op[c] \notin {"wait", "terminate"} BY <1>2, StepsOfWait, StepsOfTerminate
    <3>4. OnItsWay(c)' BY <2>2, <3>2 DEF OnItsWay
    <3>5. Waited(c) BY DEF StartInv, OwnInv
    <3>6. Waited(c)' BY <1>1, <2>2, <3>1, <3>3, <3>5 DEF Waited, historyVars, deviceVars
    <3>7. QED BY <2>2, <3>1, <3>4, <3>6
  <2>3. QED BY <1>1, <2>1, <2>2, AdvanceMoves
<1>9. ASSUME ~aborted' PROVE Clean
  <2>1. Follows(c) BY <1>1, <1>4, <1>9 DEF StartInv, RegistersFollow
  <2>2. SelectedAt(c) = {} BY <1>2 DEF SelectedAt
  <2>3. MasterAt(op[c], pc[c]) = {} BY <1>2 DEF MasterAt
  <2>4. QED BY <2>1, <2>2, <2>3 DEF Follows, Clean
<1>10. lockHolder' # c BY <1>1, AwgControlAssumption DEF AwgControlAssumption
<1>11. QED BY <1>1, <1>6, <1>7, <1>8, <1>9, <1>10, QuietKeepsStartInv

(* An exception in the block leaves what it leaves, and says so; an        *)
(* exception elsewhere has nothing to leave.                               *)
LEMMA RaiseKeepsStartInv ==
  ASSUME Inv, Inv', StartInv, NEW c \in Clients, Raise(c) PROVE StartInv'
<1> USE DEF Inv, TypeOK
<1>1. /\ Return(c) /\ Forget(c) /\ UNCHANGED deviceVars
      /\ lockHolder' = (IF lockHolder = c THEN NoClient ELSE lockHolder)
      /\ aborted' = (aborted \/ lockHolder = c)
  BY DEF Raise
<1>2. Firing(c) => InBlock(c) BY StepsOfStart DEF Firing, InBlock, Active
<1>3. Firing(c) => aborted' BY <1>1, <1>2 DEF BlockHasLock
<1>4. aborted => aborted' BY <1>1
<1>5. ~aborted' /\ lockHolder' = NoClient => Clean
  BY <1>1 DEF StartInv, RegistersFollow
<1>6. lockHolder' # c BY <1>1, AwgControlAssumption DEF AwgControlAssumption
<1>7. Moves(c) BY <1>1 DEF Moves
<1>8. QED BY <1>1, <1>3, <1>4, <1>5, <1>6, <1>7, QuietKeepsStartInv

(* A client that polls for READY has seen those of the AWGs it has passed, *)
(* and one that waits has seen their waves end.                            *)
LEMMA PollSucceedsKeepsStartInv ==
  ASSUME Inv, Inv', StartInv, NEW c \in Clients, PollSucceeds(c) PROVE StartInv'
<1> USE DEF Inv, TypeOK
<1>1. /\ Active(c) /\ Kind(op[c], pc[c]) \in {"all", "one"}
      /\ Status(Target(c), Bit(op[c], pc[c])) = (Val(op[c], pc[c]) = 1)
      /\ UNCHANGED <<deviceVars, lockHolder, aborted>> /\ Unobserved(c)
      /\ IF Kind(op[c], pc[c]) = "all" THEN NextAwg(c) ELSE Advance(c, idx[c])
  BY DEF PollSucceeds, At, Kind, Bit, Val
<1>2. OnItsWay(c) /\ Waited(c) BY DEF StartInv, OwnInv
<1>3. UNCHANGED <<targetSel, masterCtrl, ctrl, state>> BY <1>1 DEF deviceVars
<1>4. Target(c) \in AWGs /\ op[c] \in OpNames /\ RegistersOf(op[c], pc[c]) BY <1>1, AtRegisters
<1>5. pc[c] \in 1..Len(Method(op[c])) /\ pc[c] \in Nat /\ idx[c] \in Nat \ {0} BY <1>1, AtRegisters
<1>6. CASE op[c] = "start"
  <2>1. pc[c] = 5 /\ Kind("start", 5) = "all"
    BY <1>1, <1>4, <1>5, <1>6, StepsOfStart, ZenonT(60) DEF RegistersOf
  <2>2. state[Target(c)] = "READY" BY <1>1, <1>6, <2>1, StepsOfStart DEF Status
  <2>3. NextAwg(c) BY <1>1, <1>6, <2>1
  <2>4. Len(Method(op[c])) = 11 /\ LeaveAt(op[c]) = 11 BY <1>6, StepsOfStart
  <2>5. /\ op' = op /\ args' = args
        /\ \/ pc'[c] = 5 /\ Passed(c)' = Passed(c) \cup {Target(c)}
           \/ pc'[c] = 6 /\ Listed(c) = Passed(c) \cup {Target(c)}
    <3>1. pc[c] # Len(Method(op[c])) /\ pc[c] + 1 = 6 BY <2>1, <2>4
    <3>2. /\ op' = op /\ args' = args
          /\ \/ pc'[c] = pc[c] /\ Passed(c)' = Passed(c) \cup {Target(c)}
             \/ pc'[c] = pc[c] + 1 /\ Listed(c) = Passed(c) \cup {Target(c)}
      BY <1>1, <2>3, <3>1, NextAwgMoves
    <3>3. QED BY <2>1, <3>1, <3>2
  <2>6. op' = op /\ args' = args BY <2>5
  <2>7. UNCHANGED historyVars BY <1>1, <2>6 DEF Unobserved, Active
  <2>8. Listed(c)' = Listed(c) BY <2>6 DEF Listed
  <2>9. \A a \in Passed(c) : Armed(c, a) BY <1>2, <1>6, <2>1 DEF OnItsWay
  <2>10. Armed(c, Target(c)) BY <2>2 DEF Armed
  <2>11. \A a : Armed(c, a)' <=> Armed(c, a) BY <1>3, <2>7 DEF Armed, historyVars
  <2>12. Listed(c) \subseteq targetSel BY <1>2, <1>6, <2>1 DEF OnItsWay
  <2>13. OnItsWay(c)'
    <3>1. CASE pc'[c] = 5 /\ Passed(c)' = Passed(c) \cup {Target(c)}
      <4>1. \A a \in Passed(c)' : Armed(c, a)' BY <2>9, <2>10, <2>11, <3>1
      <4>2. QED BY <1>3, <2>8, <2>12, <3>1, <4>1 DEF OnItsWay
    <3>2. CASE pc'[c] = 6 /\ Listed(c) = Passed(c) \cup {Target(c)}
      <4>1. \A a \in Listed(c)' : Armed(c, a)' BY <2>8, <2>9, <2>10, <2>11, <3>2
      <4>2. QED BY <1>3, <2>8, <2>12, <3>2, <4>1 DEF OnItsWay
    <3>3. QED BY <2>5, <3>1, <3>2
  <2>14. Waited(c)' BY <1>2, <1>3, <1>6, <2>6, <2>7 DEF Waited, historyVars
  <2>15. InBlock(c) BY <1>1, <2>1, <2>4 DEF InBlock
  <2>16. lockHolder = c /\ lockHolder # NoClient
    BY <2>15, AwgControlAssumption DEF BlockHasLock, AwgControlAssumption
  <2>17. ASSUME ~aborted' PROVE Follows(c)'
    <3>1. Follows(c) BY <1>1, <2>16, <2>17 DEF StartInv, RegistersFollow
    <3>2. SelectedAt(c) = Listed(c) BY <1>6, <2>1, <2>4 DEF SelectedAt
    <3>3. SelectedAt(c)' = Listed(c)' BY <1>6, <2>4, <2>5, <2>6 DEF SelectedAt
    <3>4. MasterAt("start", 5) = MasterAt("start", 6) BY DEF MasterAt, MasterUp
    <3>5. MasterAt(op'[c], pc'[c]) = MasterAt(op[c], pc[c])
      BY <1>6, <2>1, <2>5, <2>6, <3>4
    <3>6. QED BY <1>3, <2>8, <3>1, <3>2, <3>3, <3>5 DEF Follows
  <2>18. Firing(c)' BY <1>6, <2>5, <2>6 DEF Firing
  <2>19. Moves(c)
    <3>1. pc[c] + 1 \in Nat /\ idx[c] + 1 \in Nat /\ 1 \in Nat BY <1>5
    <3>2. QED BY <1>5, <2>3, <3>1 DEF Moves, NextAwg, Advance
  <2>20. QED
    BY <1>1, <2>6, <2>7, <2>13, <2>14, <2>16, <2>17, <2>18, <2>19, QuietKeepsStartInv
<1>7. CASE op[c] # "start"
  <2>1. op[c] \in {"wait", "terminate"} BY <1>1, <1>4, <1>7 DEF RegistersOf
  <2>2. ~InBlock(c) BY <2>1, StepsOfWait, StepsOfTerminate DEF InBlock
  <2>3. lockHolder # c BY <2>2 DEF BlockHasLock
  <2>4. lockHolder = NoClient /\ ~aborted => Clean BY DEF StartInv, RegistersFollow
  <2>5. ~Firing(c) BY <1>7 DEF Firing
  <2>6. CASE op[c] = "wait"
    <3>1. pc[c] = 1 /\ pc[c] = Len(Method(op[c]))
      <4>1. Len(Method(op[c])) = 1 BY <2>6, StepsOfWait
      <4>2. QED BY <1>5, <4>1
    <3>2. state[Target(c)] = "COMPLETE" BY <1>1, <2>6, <3>1, StepsOfWait DEF Status
    <3>3. NextAwg(c) BY <1>1, <2>6, <3>1, StepsOfWait
    <3>4. Target(c) \notin ongoing[c] BY <1>2, <3>2 DEF Waited
    <3>5. Moves(c)
      <4>1. idx[c] + 1 \in Nat BY <1>5
      <4>2. QED BY <1>5, <3>1, <3>3, <4>1 DEF Moves, NextAwg, Advance
    <3>6. \/ Return(c) /\ Forget(c)
          \/ /\ op' = op /\ args' = args /\ UNCHANGED historyVars
             /\ OnItsWay(c)' /\ Waited(c)'
      <4>1. CASE op' = op /\ args' = args /\ Passed(c)' = Passed(c) \cup {Target(c)}
        <5>1. UNCHANGED historyVars BY <1>1, <4>1 DEF Unobserved, Active
        <5>2. OnItsWay(c)' BY <2>6, <4>1 DEF OnItsWay
        <5>3. Waited(c)' BY <1>2, <1>3, <2>6, <3>4, <4>1, <5>1 DEF Waited, historyVars
        <5>4. QED BY <4>1, <5>1, <5>2, <5>3
      <4>2. CASE Return(c) /\ op'[c] = "none" BY <1>1, <4>2 DEF Unobserved, Active
      <4>3. QED BY <1>1, <3>1, <3>3, <4>1, <4>2, NextAwgMoves
    <3>7. QED BY <1>1, <2>3, <2>4, <2>5, <3>5, <3>6, QuietKeepsStartInv
  <2>7. CASE op[c] = "terminate"
    <3>1. pc[c] = 2 /\ Len(Method(op[c])) = 4 /\ Kind(op[c], pc[c]) = "one"
      <4>1. Len(Method(op[c])) = 4 BY <2>7, StepsOfTerminate
      <4>2. pc[c] \in 1..4 BY <1>5, <4>1
      <4>3. Kind(op[c], pc[c]) # "all" BY <1>4, <2>7 DEF RegistersOf
      <4>4. QED BY <1>1, <2>7, <4>1, <4>2, <4>3, StepsOfTerminate
    <3>2. state[Target(c)] # "GEN_WAVE" BY <1>1, <2>7, <3>1, StepsOfTerminate DEF Status
    <3>3. Advance(c, idx[c]) BY <1>1, <3>1
    <3>4. Target(c) \notin ongoing[c] BY <1>2, <3>2 DEF Waited
    <3>5. op' = op /\ args' = args /\ idx'[c] = idx[c]
      <4>1. pc[c] # Len(Method(op[c])) /\ idx[c] \in Nat BY <1>5, <3>1
      <4>2. QED BY <3>3, <4>1, AdvanceMoves
    <3>6. UNCHANGED historyVars BY <1>1, <3>5 DEF Unobserved, Active
    <3>7. OnItsWay(c)' BY <2>7, <3>5 DEF OnItsWay
    <3>8. Passed(c)' = Passed(c) /\ Target(c)' = Target(c) BY <3>5 DEF Passed, Target
    <3>9. Waited(c)' BY <1>2, <1>3, <2>7, <3>4, <3>5, <3>6, <3>8 DEF Waited, historyVars
    <3>10. Moves(c)
      <4>1. pc[c] + 1 \in Nat BY <1>5
      <4>2. QED BY <1>5, <3>3, <4>1 DEF Moves, Advance
    <3>11. QED BY <1>1, <2>3, <2>4, <2>5, <3>5, <3>6, <3>7, <3>9, <3>10, QuietKeepsStartInv
  <2>8. QED BY <2>1, <2>6, <2>7
<1>8. QED BY <1>6, <1>7

(* A poll that fails starts over. *)
LEMMA PollFailsKeepsStartInv ==
  ASSUME Inv, Inv', StartInv, NEW c \in Clients, PollFails(c) PROVE StartInv'
<1> USE DEF Inv, TypeOK
<1> DEFINE i == IF Kind(op[c], pc[c]) = "all" THEN 1 ELSE idx[c]
<1>1. /\ Active(c) /\ Kind(op[c], pc[c]) \in {"all", "one"} /\ Goto(c, pc[c], i)
      /\ UNCHANGED <<deviceVars, lockHolder, aborted, historyVars>>
  BY DEF PollFails, At, Kind
<1>2. OnItsWay(c) /\ Waited(c) BY DEF StartInv, OwnInv
<1>3. UNCHANGED <<targetSel, masterCtrl, ctrl, state, fired, cancelled, ongoing>>
  BY <1>1 DEF deviceVars, historyVars
<1>4. op[c] \in OpNames /\ RegistersOf(op[c], pc[c]) /\ KindOf(op[c], pc[c])
      /\ pc[c] \in 1..Len(Method(op[c])) /\ pc[c] \in Nat /\ idx[c] \in Nat \ {0}
  BY <1>1, AtRegisters
<1>5. /\ op' = op /\ args' = args /\ pc'[c] = pc[c] /\ idx'[c] = i
  BY <1>1 DEF Goto, ClientTypeOK
<1>6. Listed(c)' = Listed(c) BY <1>5 DEF Listed
<1>7. op[c] = "start" => pc[c] = 5 BY <1>1, <1>4, StepsOfStart, ZenonT(60) DEF RegistersOf
<1>8. op[c] = "wait" => Kind(op[c], pc[c]) = "all"
  <2>1. op[c] = "wait" => pc[c] = 1 BY <1>4, StepsOfWait, SMTT(30)
  <2>2. QED BY <2>1, StepsOfWait
<1>9. Kind(op[c], pc[c]) = "one" => op[c] = "terminate" BY <1>4 DEF RegistersOf
<1>10. Kind(op[c], pc[c]) = "all" => op[c] # "terminate" BY <1>4 DEF RegistersOf
<1>11. Kind(op[c], pc[c]) = "all" => Passed(c)' = {}
  BY <1>4, <1>5, PassedGrows
<1>12. op[c] = "terminate" => Passed(c)' = Passed(c) /\ Target(c)' = Target(c)
  BY <1>5, <1>10 DEF Passed, Target
<1>13. OnItsWay(c)'
  <2>1. op[c] = "start" => Passed(c)' = {} BY <1>1, <1>9, <1>11
  <2>2. QED BY <1>2, <1>3, <1>5, <1>6, <1>7, <2>1 DEF OnItsWay
<1>14. Waited(c)'
  BY <1>2, <1>3, <1>5, <1>8, <1>11, <1>12 DEF Waited
<1>15. Firing(c) => Firing(c)' BY <1>5 DEF Firing
<1>16. Moves(c)
  <2>1. i \in Nat BY <1>4
  <2>2. QED BY <1>1, <1>4, <2>1 DEF Moves
<1>17. ~aborted' /\ lockHolder' = NoClient => Clean BY <1>1 DEF StartInv, RegistersFollow
<1>18. ASSUME ~aborted', lockHolder' = c PROVE Follows(c)'
  <2>1. Follows(c) BY <1>1, <1>18 DEF StartInv, RegistersFollow
  <2>2. InBlock(c) BY <1>1, <1>18 DEF BlockHasLock
  <2>3. op[c] = "start" BY <1>1, <1>4, <2>2, StepsOfWait, StepsOfTerminate DEF InBlock, RegistersOf
  <2>4. SelectedAt(c)' = SelectedAt(c)
    BY <1>5, <1>6, <1>7, <2>3, StepsOfStart DEF SelectedAt
  <2>5. QED BY <1>3, <1>5, <2>1, <2>4 DEF Follows
<1>19. QED
  BY <1>1, <1>5, <1>13, <1>14, <1>15, <1>16, <1>17, <1>18, QuietKeepsStartInv

(* terminate_awgs goes on to its next AWG when the wave of one has ended.  *)
LEMMA LoopAgainKeepsStartInv ==
  ASSUME Inv, Inv', StartInv, NEW c \in Clients, LoopAgain(c) PROVE StartInv'
<1> USE DEF Inv, TypeOK
<1>1. /\ Active(c) /\ Kind(op[c], pc[c]) = "again"
      /\ IF idx[c] < Len(args[c]) THEN Goto(c, 1, idx[c] + 1) ELSE Return(c)
      /\ Unobserved(c) /\ UNCHANGED <<deviceVars, lockHolder, aborted>>
  BY DEF LoopAgain, At, Kind
<1>2. op[c] = "terminate" /\ pc[c] \in Nat /\ idx[c] \in Nat \ {0} /\ idx[c] <= Len(args[c])
      /\ pc[c] \in 1..Len(Method(op[c]))
  BY <1>1, AtRegisters DEF RegistersOf
<1>3. pc[c] = 4
  <2>1. Len(Method(op[c])) = 4 BY <1>2, StepsOfTerminate
  <2>2. pc[c] \in 1..4 BY <1>2, <2>1
  <2>3. QED BY <1>1, <1>2, <2>2, StepsOfTerminate
<1>4. Waited(c) BY DEF StartInv, OwnInv
<1>5. UNCHANGED <<targetSel, masterCtrl, ctrl, state>> BY <1>1 DEF deviceVars
<1>6. ~InBlock(c) BY <1>2, StepsOfTerminate DEF InBlock
<1>7. lockHolder' # c BY <1>1, <1>6 DEF BlockHasLock
<1>8. ~aborted' /\ lockHolder' = NoClient => Clean BY <1>1 DEF StartInv, RegistersFollow
<1>9. ~Firing(c) BY <1>2 DEF Firing
<1>10. CASE idx[c] < Len(args[c]) /\ Goto(c, 1, idx[c] + 1)
  <2>1. op' = op /\ args' = args /\ pc'[c] = 1 /\ idx'[c] = idx[c] + 1
    BY <1>10 DEF Goto, ClientTypeOK
  <2>2. UNCHANGED historyVars BY <1>1, <2>1 DEF Unobserved, Active
  <2>3. Passed(c)' = Passed(c) \cup {Target(c)} BY <1>2, <2>1, PassedGrows
  <2>4. OnItsWay(c)' BY <1>2, <2>1 DEF OnItsWay
  <2>5. Waited(c)' BY <1>2, <1>3, <1>4, <1>5, <2>1, <2>2, <2>3 DEF Waited, historyVars
  <2>6. Moves(c)
    <3>1. idx[c] + 1 \in Nat /\ 1 \in Nat BY <1>2
    <3>2. QED BY <1>10, <3>1 DEF Moves
  <2>7. QED
    BY <1>1, <1>7, <1>8, <1>9, <2>1, <2>2, <2>4, <2>5, <2>6, QuietKeepsStartInv
<1>11. CASE Return(c)
  <2>1. op'[c] = "none" BY <1>11 DEF Return, ClientTypeOK
  <2>2. Forget(c) BY <1>1, <2>1 DEF Unobserved, Active
  <2>3. Moves(c) BY <1>11 DEF Moves
  <2>4. QED BY <1>1, <1>7, <1>8, <1>9, <1>11, <2>2, <2>3, QuietKeepsStartInv
<1>12. QED BY <1>1, <1>10, <1>11

(* A call begins with nothing done. *)
LEMMA CallKeepsStartInv ==
  ASSUME Inv, Inv', StartInv, NEW c \in Clients, Call(c) PROVE StartInv'
<1> USE DEF Inv, TypeOK
<1>1. PICK o \in Ops[c], l \in ArgLists :
        /\ op' = [op EXCEPT ![c] = o]
        /\ args' = [args EXCEPT ![c] = l]
        /\ ongoing' = [ongoing EXCEPT ![c] =
             IF o \in {"wait", "terminate"}
             THEN {a \in AWGs : state[a] = "GEN_WAVE"} ELSE {}]
  BY DEF Call
<1>2. /\ ~Active(c)
      /\ UNCHANGED <<deviceVars, lockHolder, pc, idx, phase, readVal, aborted,
                     fired, cancelled>>
  BY DEF Call
<1>3. UNCHANGED <<targetSel, masterCtrl, ctrl, state>> BY <1>2 DEF deviceVars
<1>4. pc[c] = 1 /\ idx[c] = 1 /\ phase[c] = "read" BY <1>2 DEF IdleAtStart
<1>5. op'[c] = o /\ args'[c] = l /\ op[c] = "none" BY <1>1, <1>2 DEF ClientTypeOK, Active
<1>6. OwnInv(c) BY DEF StartInv
<1>7. fired[c] = {} /\ cancelled[c] = {} BY <1>5, <1>6 DEF OwnInv, HistoryOfStart
<1>8. ASSUME NEW d \in Clients, d # c PROVE Stays(d) /\ KeepsTrack(d) /\ fired'[d] = fired[d]
  <2>1. ongoing'[d] = ongoing[d] BY <1>1, <1>8 DEF HistoryTypeOK
  <2>2. KeepsTrack(d) BY <1>2, <1>3, <2>1, QuietKeepsTrack DEF StartInv, OwnInv
  <2>3. Stays(d) BY <1>1, <1>2, <1>8 DEF Stays, ClientTypeOK
  <2>4. QED BY <1>2, <2>2, <2>3
<1>9. ongoing'[c] \subseteq {a \in AWGs : state'[a] = "GEN_WAVE"}
  BY <1>1, <1>3 DEF HistoryTypeOK
<1>10. OwnInv(c)'
  <2>1. Passed(c)' = {} BY <1>2, <1>4, PassedGrows
  <2>2. OwnRead(c)' BY <1>2, <1>4 DEF OwnRead
  <2>3. OnItsWay(c)' BY <1>2, <1>4 DEF OnItsWay
  <2>4. Waited(c)' BY <1>2, <1>4, <1>9, <2>1 DEF Waited
  <2>5. HistoryOfStart(c)' /\ FiresListed(c)' BY <1>2, <1>7 DEF HistoryOfStart, FiresListed
  <2>6. QED BY <2>2, <2>3, <2>4, <2>5 DEF OwnInv
<1>11. ~Firing(c) BY <1>5 DEF Firing
<1>12. ArmedByStart' BY <1>2, <1>3, <1>8, <1>11, ArmedStays
<1>13. \A a \in AWGs : ctrl'[a] \subseteq {"TERMINATE"} BY <1>3 DEF StartInv
<1>14. ~aborted' /\ lockHolder' = NoClient => Clean'
  BY <1>2, <1>3 DEF StartInv, RegistersFollow, Clean
<1>15. lockHolder' # c
  <2>1. ~InBlock(c) BY <1>2 DEF InBlock
  <2>2. QED BY <1>2, <2>1 DEF BlockHasLock
<1>16. \A a \in AWGs : state'[a] \in {state[a], "COMPLETE"} BY <1>3
<1>17. QED
  BY <1>2, <1>3, <1>8, <1>10, <1>12, <1>13, <1>14, <1>15, <1>16, StepKeepsStartInv

(* A read takes what the register holds. *)
LEMMA ReadRegisterKeepsStartInv ==
  ASSUME Inv, Inv', StartInv, NEW c \in Clients, ReadRegister(c) PROVE StartInv'
<1> USE DEF Inv, TypeOK
<1>1. /\ Active(c) /\ Kind(op[c], pc[c]) \in {"target", "master", "own"}
      /\ phase' = [phase EXCEPT ![c] = "write"]
      /\ readVal' = [readVal EXCEPT ![c] =
           CASE At(c).kind = "target" -> targetSel
             [] At(c).kind = "master" -> masterCtrl
             [] At(c).kind = "own"    -> ctrl[Target(c)]]
      /\ UNCHANGED <<deviceVars, lockHolder, op, args, pc, idx, aborted, historyVars>>
  BY DEF ReadRegister, At, Kind
<1>2. UNCHANGED <<targetSel, masterCtrl, ctrl, state, fired, cancelled, ongoing>>
  BY <1>1 DEF deviceVars, historyVars
<1>3. ASSUME NEW d \in Clients, d # c PROVE Stays(d) /\ KeepsTrack(d) /\ fired'[d] = fired[d]
  <2>1. KeepsTrack(d) BY <1>2, QuietKeepsTrack DEF StartInv, OwnInv
  <2>2. Stays(d) BY <1>1, <1>3 DEF Stays, ClientTypeOK
  <2>3. QED BY <1>2, <2>1, <2>2
<1>4. Passed(c)' = Passed(c) /\ Listed(c)' = Listed(c) /\ Target(c)' = Target(c)
  BY <1>1 DEF Passed, Listed, Target
<1>5. OwnInv(c) BY DEF StartInv
<1>6. OwnInv(c)'
  <2>1. OwnRead(c)'
    <3>1. SUFFICES ASSUME Kind(op[c], pc[c]) = "own" PROVE readVal'[c] \subseteq {"TERMINATE"}
      BY <1>1 DEF OwnRead
    <3>2. At(c).kind = "own" /\ Target(c) \in AWGs BY <1>1, <3>1, AtRegisters
    <3>3. readVal'[c] = ctrl[Target(c)] BY <1>1, <3>2 DEF ClientTypeOK
    <3>4. QED BY <3>2, <3>3 DEF StartInv
  <2>2. OnItsWay(c)' BY <1>1, <1>2, <1>4, <1>5 DEF OwnInv, OnItsWay, Armed
  <2>3. Waited(c)' BY <1>1, <1>2, <1>4, <1>5 DEF OwnInv, Waited
  <2>4. HistoryOfStart(c)' BY <1>1, <1>2, <1>5 DEF OwnInv, HistoryOfStart
  <2>5. FiresListed(c)' BY <1>1, <1>2, <1>4, <1>5 DEF OwnInv, FiresListed
  <2>6. QED BY <2>1, <2>2, <2>3, <2>4, <2>5 DEF OwnInv
<1>7. Firing(c) => Firing(c)' BY <1>1 DEF Firing
<1>8. ArmedByStart' BY <1>1, <1>2, <1>3, <1>7, ArmedStays
<1>9. ~aborted' /\ lockHolder' = NoClient => Clean'
  BY <1>1, <1>2 DEF StartInv, RegistersFollow, Clean
<1>10. ~aborted' /\ lockHolder' = c => Follows(c)'
  <2>1. ~aborted' /\ lockHolder' = c => Follows(c) BY <1>1 DEF StartInv, RegistersFollow
  <2>2. Follows(c) => Follows(c)' BY <1>1, <1>2, <1>4 DEF Follows, SelectedAt
  <2>3. QED BY <2>1, <2>2
<1>11. \A a \in AWGs : ctrl'[a] \subseteq {"TERMINATE"} BY <1>2 DEF StartInv
<1>12. \A a \in AWGs : state'[a] \in {state[a], "COMPLETE"} BY <1>2
<1>13. QED
  BY <1>1, <1>2, <1>3, <1>6, <1>8, <1>9, <1>10, <1>11, <1>12, StepKeepsStartInv

(* The end of a wave. *)
LEMMA WaveEndsKeepsStartInv ==
  ASSUME Inv, Inv', StartInv, NEW a \in AWGs, WaveEnds(a) PROVE StartInv'
<1> USE DEF Inv, TypeOK
<1>1. /\ UNCHANGED <<lockHolder, op, args, pc, idx, phase, readVal, aborted, fired, cancelled,
                     targetSel, masterCtrl, ctrl>>
      /\ state[a] = "GEN_WAVE" /\ state' = [state EXCEPT ![a] = "COMPLETE"]
      /\ ongoing' = [d \in Clients |-> ongoing[d] \ {a}]
  BY DEF WaveEnds, EndWave, clientVars
<1>2. \A b \in AWGs : state'[b] \in {state[b], "COMPLETE"} BY <1>1 DEF DeviceTypeOK
<1>3. \A b \in AWGs : state'[b] = "READY" <=> state[b] = "READY" BY <1>1 DEF DeviceTypeOK
<1>4. ASSUME NEW d \in Clients PROVE Stays(d) /\ KeepsTrack(d)
  <2>1. Waited(d) /\ HistoryOfStart(d) BY DEF StartInv, OwnInv
  <2>2. ongoing'[d] \subseteq {b \in ongoing[d] : state'[b] = "GEN_WAVE"}
    <3>1. ongoing'[d] = ongoing[d] \ {a} BY <1>1
    <3>2. \A b \in ongoing[d] : b \in AWGs /\ state[b] = "GEN_WAVE" BY <2>1 DEF Waited
    <3>3. \A b \in AWGs : b # a => state'[b] = state[b] BY <1>1 DEF DeviceTypeOK
    <3>4. QED BY <3>1, <3>2, <3>3
  <2>3. Listed(d) \subseteq AWGs /\ cancelled[d] \subseteq AWGs
    <3>1. args[d] \in Seq(AWGs) /\ cancelled[d] \in SUBSET AWGs BY DEF ClientTypeOK, HistoryTypeOK
    <3>2. Listed(d) \subseteq AWGs BY <3>1 DEF Listed
    <3>3. QED BY <3>1, <3>2
  <2>4. KeepsTrack(d) BY <1>1, <1>3, <2>1, <2>2, <2>3 DEF KeepsTrack, HistoryOfStart
  <2>5. Stays(d) BY <1>1 DEF Stays
  <2>6. QED BY <2>4, <2>5
<1>5. ASSUME NEW d \in Clients
      PROVE  OwnInv(d)' /\ (Follows(d) /\ InBlock(d) => Follows(d)')
  BY <1>1, <1>2, <1>4, OthersKeepInv DEF StartInv
<1>6. RegistersFollow'
  <2>1. ASSUME ~aborted', NEW d \in Clients, lockHolder' = d PROVE Follows(d)'
    <3>1. Follows(d) /\ InBlock(d) BY <1>1, <2>1 DEF StartInv, RegistersFollow, BlockHasLock
    <3>2. QED BY <1>5, <3>1
  <2>2. ~aborted' /\ lockHolder' = NoClient => Clean'
    BY <1>1 DEF StartInv, RegistersFollow, Clean
  <2>3. QED BY <2>1, <2>2 DEF RegistersFollow
<1>7. ArmedByStart'
  <2>1. ASSUME ~aborted', NEW b \in AWGs, state'[b] = "READY"
        PROVE  \E d \in Clients : Firing(d)' /\ b \in Listed(d)'
    <3>1. PICK d \in Clients : Firing(d) /\ b \in Listed(d)
      BY <1>1, <1>3, <2>1 DEF StartInv, ArmedByStart
    <3>2. Firing(d)' /\ Listed(d)' = Listed(d) BY <1>1, <3>1 DEF Firing, Listed
    <3>3. QED BY <3>1, <3>2
  <2>2. QED BY <2>1 DEF ArmedByStart
<1>8. \A b \in AWGs : ctrl'[b] \subseteq {"TERMINATE"} BY <1>1 DEF StartInv
<1>9. QED BY <1>5, <1>6, <1>7, <1>8 DEF StartInv

(* The selection is built, and taken down, one AWG at a time. *)
LEMMA WriteSelectBitKeepsStartInv ==
  ASSUME Inv, Inv', StartInv, NEW c \in Clients, WriteSelectBit(c) PROVE StartInv'
<1> USE DEF Inv, TypeOK
<1>1. /\ Active(c) /\ Kind(op[c], pc[c]) = "target" /\ At(c).kind = "target"
      /\ phase[c] = "write" /\ WriteTargetSel(Replaced(c, Target(c))) /\ NextAwg(c)
      /\ Unobserved(c) /\ UNCHANGED <<lockHolder, aborted>>
  BY DEF WriteSelectBit, At, Kind
<1> DEFINE o == op[c]
           i == pc[c]
           leave == LeaveAt(op[c])
<1>2. /\ RegistersOf(o, i) /\ o \in OpNames /\ o # "none"
      /\ i \in Nat /\ leave \in Nat /\ i \in 2..leave /\ leave <= Len(Method(o))
      /\ Len(Method(o)) \in Nat
  BY <1>1, AtRegisters DEF KindOf
<1>3. /\ i \in {2, leave - 1} /\ leave > 2
      /\ i = 2 /\ o # "initialize" => leave > 4
      /\ Val(o, i) = 1 <=> i = 2 /\ o # "initialize"
      /\ \A b \in CtrlBits : MasterUp(o, i + 1, b) <=> MasterUp(o, i, b)
  BY <1>1, <1>2 DEF RegistersOf
<1>4. i < leave /\ i # Len(Method(o)) BY <1>2, <1>3
<1>5. readVal[c] = targetSel BY <1>1 DEF NoLostUpdate
<1>6. /\ targetSel' = IF i = 2 /\ o # "initialize" THEN targetSel \cup {Target(c)}
                                                 ELSE targetSel \ {Target(c)}
      /\ UNCHANGED <<masterCtrl, ctrl, state>>
  <2>1. At(c).val = Val(o, i) BY <1>1, AtRegisters
  <2>2. QED BY <1>1, <1>3, <1>5, <2>1 DEF WriteTargetSel, Replaced
<1>7. /\ op' = op /\ args' = args /\ phase'[c] = "read"
      /\ \/ pc'[c] = i /\ Passed(c)' = Passed(c) \cup {Target(c)}
         \/ pc'[c] = i + 1 /\ Passed(c)' = {} /\ Listed(c) = Passed(c) \cup {Target(c)}
  BY <1>1, <1>4, NextAwgMoves
<1>8. Listed(c)' = Listed(c) BY <1>7 DEF Listed
<1>9. UNCHANGED historyVars BY <1>1, <1>7 DEF Unobserved, Active
<1>10. Moves(c)
  <2>1. idx[c] + 1 \in Nat /\ 1 \in Nat /\ i + 1 \in Nat /\ i \in Nat BY <1>1, <1>2, AtRegisters
  <2>2. QED BY <1>1, <2>1 DEF Moves, NextAwg, Advance
<1>11. InBlock(c) BY <1>1, <1>2 DEF InBlock
<1>12. lockHolder' = c /\ c # NoClient
  BY <1>1, <1>11, AwgControlAssumption DEF BlockHasLock, AwgControlAssumption
<1>13. ASSUME NEW d \in Clients, d # c PROVE Stays(d) /\ KeepsTrack(d) /\ fired'[d] = fired[d]
  <2>1. KeepsTrack(d) BY <1>6, <1>9, QuietKeepsTrack DEF StartInv, OwnInv, historyVars
  <2>2. QED BY <1>9, <1>10, <1>13, <2>1, OthersStayHere DEF historyVars
<1>14. OwnInv(c) BY DEF StartInv
<1>15. o = "start" => leave = 11 BY StepsOfStart
<1>16. OwnInv(c)'
  <2>1. OwnRead(c)' BY <1>7 DEF OwnRead
  <2>2. OnItsWay(c)'
    <3>1. SUFFICES ASSUME o = "start" PROVE OnItsWay(c)' BY <1>7 DEF OnItsWay
    <3>2. fired' = fired /\ cancelled' = cancelled BY <1>9 DEF historyVars
    <3>3. CASE i = 2
      <4>1. Passed(c) \subseteq targetSel BY <1>14, <3>1, <3>3 DEF OwnInv, OnItsWay
      <4>2. targetSel' = targetSel \cup {Target(c)} BY <1>6, <3>1, <3>3
      <4>3. CASE pc'[c] = i /\ Passed(c)' = Passed(c) \cup {Target(c)}
        BY <3>1, <3>3, <4>1, <4>2, <4>3 DEF OnItsWay
      <4>4. CASE pc'[c] = i + 1 /\ Listed(c) = Passed(c) \cup {Target(c)}
        BY <1>8, <3>1, <3>3, <4>1, <4>2, <4>4 DEF OnItsWay
      <4>5. QED BY <1>7, <4>3, <4>4
    <3>4. CASE i # 2
      <4>1. i = 10 BY <1>3, <1>15, <3>1, <3>4
      <4>2. Listed(c) \subseteq fired[c] \cup cancelled[c]
        BY <1>14, <3>1, <4>1 DEF OwnInv, OnItsWay
      <4>3. pc'[c] \in {10, 11} BY <1>7, <4>1
      <4>4. QED BY <1>8, <3>2, <4>2, <4>3 DEF OnItsWay
    <3>5. QED BY <3>3, <3>4
  <2>3. Waited(c)'
    <3>1. o \notin {"wait", "terminate"} BY <1>3, StepsOfWait, StepsOfTerminate
    <3>2. QED BY <1>6, <1>7, <1>9, <1>14, <3>1 DEF OwnInv, Waited, historyVars
  <2>4. HistoryOfStart(c)' BY <1>6, <1>7, <1>9, <1>14 DEF OwnInv, HistoryOfStart, historyVars
  <2>5. FiresListed(c)'
    <3>1. fired' = fired BY <1>9 DEF historyVars
    <3>2. QED BY <1>1, <1>7, <1>8, <1>14, <3>1 DEF OwnInv, FiresListed
  <2>6. QED BY <2>1, <2>2, <2>3, <2>4, <2>5 DEF OwnInv
<1>17. ~Firing(c) BY <1>3, <1>15 DEF Firing
<1>18. ArmedByStart' BY <1>1, <1>6, <1>13, <1>17, ArmedStays
<1>19. ASSUME ~aborted' PROVE Follows(c)'
  <2>1. targetSel = SelectedAt(c) /\ masterCtrl = MasterAt(o, i)
    BY <1>1, <1>12, <1>19 DEF StartInv, RegistersFollow, Follows
  <2>2. masterCtrl' = MasterAt(op'[c], pc'[c])
    <3>1. MasterAt(o, i + 1) = MasterAt(o, i) BY <1>3 DEF MasterAt
    <3>2. QED BY <1>6, <1>7, <2>1, <3>1
  <2>3. targetSel' = SelectedAt(c)'
    <3>1. CASE o = "initialize"
      <4>1. SelectedAt(c) = {} /\ SelectedAt(c)' = {} BY <1>7, <3>1 DEF SelectedAt
      <4>2. QED BY <1>6, <2>1, <3>1, <4>1
    <3>2. CASE o # "initialize" /\ i = 2
      <4>1. leave > 4 BY <1>3, <3>2
      <4>2. targetSel' = Passed(c) \cup {Target(c)}
        <5>1. SelectedAt(c) = Passed(c) BY <1>2, <3>2, <4>1 DEF SelectedAt
        <5>2. QED BY <1>6, <2>1, <3>2, <5>1
      <4>3. CASE pc'[c] = i /\ Passed(c)' = Passed(c) \cup {Target(c)}
        <5>1. SelectedAt(c)' = Passed(c)' BY <1>2, <1>7, <3>2, <4>1, <4>3 DEF SelectedAt
        <5>2. QED BY <4>2, <4>3, <5>1
      <4>4. CASE pc'[c] = i + 1 /\ Listed(c) = Passed(c) \cup {Target(c)}
        <5>1. pc'[c] = 3 /\ 3 # leave /\ 3 # leave - 1 /\ LeaveAt(op'[c]) = leave
          BY <1>2, <1>7, <3>2, <4>1, <4>4
        <5>2. SelectedAt(c)' = Listed(c)' BY <1>7, <3>2, <5>1 DEF SelectedAt
        <5>3. QED BY <1>8, <4>2, <4>4, <5>2
      <4>5. QED BY <1>7, <4>3, <4>4
    <3>3. CASE o # "initialize" /\ i # 2
      <4>1. i = leave - 1 BY <1>3, <3>3
      <4>2. i # leave BY <1>2, <4>1
      <4>3. SelectedAt(c) = Listed(c) \ Passed(c) BY <3>3, <4>1, <4>2 DEF SelectedAt
      <4>4. targetSel' = (Listed(c) \ Passed(c)) \ {Target(c)} BY <1>6, <2>1, <3>3, <4>3
      <4>5. CASE pc'[c] = i /\ Passed(c)' = Passed(c) \cup {Target(c)}
        <5>1. SelectedAt(c)' = Listed(c)' \ Passed(c)'
          BY <1>7, <3>3, <4>1, <4>2, <4>5 DEF SelectedAt
        <5>2. QED BY <1>8, <4>4, <4>5, <5>1
      <4>6. CASE pc'[c] = i + 1 /\ Listed(c) = Passed(c) \cup {Target(c)}
        <5>1. pc'[c] = leave BY <1>2, <4>1, <4>6
        <5>2. SelectedAt(c)' = {} BY <1>7, <5>1 DEF SelectedAt
        <5>3. QED BY <4>4, <4>6, <5>2
      <4>7. QED BY <1>7, <4>5, <4>6
    <3>4. QED BY <3>1, <3>2, <3>3
  <2>4. QED BY <2>2, <2>3 DEF Follows
<1>20. \A a \in AWGs : ctrl'[a] \subseteq {"TERMINATE"} BY <1>6 DEF StartInv
<1>21. QED
  BY <1>1, <1>11, <1>12, <1>13, <1>16, <1>18, <1>19, <1>20, StepKeepsStartInv

(* What the master CTRL becomes, and what it does to the selected AWGs.    *)
LEMMA MasterBitWritten ==
  ASSUME Inv, NEW c \in Clients, WriteMasterBit(c),
         NEW bit, bit = Bit(op[c], pc[c]), NEW val, val = Val(op[c], pc[c])
  PROVE  /\ bit \in CtrlBits
         /\ masterCtrl' = IF val = 1 THEN masterCtrl \cup {bit} ELSE masterCtrl \ {bit}
         /\ UNCHANGED <<targetSel, ctrl>>
         /\ \A a \in AWGs \ targetSel : state'[a] = state[a]
         /\ \A a \in AWGs : state'[a] = "READY" =>
              state[a] = "READY" \/ (val = 1 /\ bit = "PREPARE" /\ a \in targetSel)
         /\ \A a \in AWGs : state'[a] = "GEN_WAVE" =>
              state[a] = "GEN_WAVE" \/ (val = 1 /\ bit = "START" /\ state[a] = "READY"
                                          /\ a \in targetSel)
         /\ val # 1 /\ bit # "RESET" => \A a \in AWGs : state'[a] = state[a]
         /\ val = 1 /\ bit = "START" /\ "START" \notin masterCtrl =>
              \A a \in targetSel : state[a] = "READY" => state'[a] = "GEN_WAVE"
<1> USE DEF Inv, TypeOK
<1> DEFINE old == masterCtrl
           new == IF val = 1 THEN old \cup {bit} ELSE old \ {bit}
<1>1. /\ Active(c) /\ Kind(op[c], pc[c]) = "master" /\ At(c).kind = "master"
      /\ phase[c] = "write" /\ WriteMasterCtrl(Replaced(c, At(c).bit))
  BY DEF WriteMasterBit, At, Kind
<1>2. bit \in CtrlBits /\ At(c).bit = bit /\ At(c).val = val
  BY <1>1, AtRegisters DEF KindOf, Bit
<1>3. readVal[c] = old BY <1>1 DEF NoLostUpdate
<1>4. Replaced(c, At(c).bit) = new BY <1>2, <1>3 DEF Replaced
<1>5. /\ masterCtrl' = new /\ UNCHANGED <<targetSel, ctrl>>
      /\ state' = [a \in AWGs |-> IF a \in targetSel THEN OnMasterCtrl(old, new, state[a])
                                                    ELSE state[a]]
  BY <1>1, <1>4 DEF WriteMasterCtrl
<1>6. \A b : Rises(b, old, new) => b = bit /\ val = 1 BY DEF Rises
<1>7. val # 1 => /\ \A b : ~Rises(b, old, new)
                 /\ bit # "RESET" => ~Rises("RESET", new, old)
  BY DEF Rises
<1>8. val = 1 /\ bit = "START" /\ "START" \notin old =>
        /\ \A b \in CtrlBits : Rises(b, old, new) <=> b = "START"
        /\ ~Rises("RESET", new, old)
  BY DEF Rises
<1> HIDE DEF new
<1>9. ASSUME NEW a \in AWGs, a \in targetSel
      PROVE  /\ state'[a] = "READY" => state[a] = "READY" \/ (val = 1 /\ bit = "PREPARE")
             /\ state'[a] = "GEN_WAVE" =>
                  state[a] = "GEN_WAVE" \/ (val = 1 /\ bit = "START" /\ state[a] = "READY")
             /\ val # 1 /\ bit # "RESET" => state'[a] = state[a]
             /\ val = 1 /\ bit = "START" /\ "START" \notin old =>
                  (state[a] = "READY" => state'[a] = "GEN_WAVE")
  <2>1. state'[a] = OnMasterCtrl(old, new, state[a]) /\ state[a] \in AwgStates
    BY <1>5, <1>9 DEF DeviceTypeOK
  <2>2. /\ state'[a] = "READY" => state[a] = "READY" \/ Rises("PREPARE", old, new)
        /\ state'[a] = "GEN_WAVE" =>
             state[a] = "GEN_WAVE" \/ (state[a] = "READY" /\ Rises("START", old, new))
        /\ (\A b \in CtrlBits : ~Rises(b, old, new)) /\ ~Rises("RESET", new, old)
             => state'[a] = state[a]
        /\ (\A b \in CtrlBits : Rises(b, old, new) <=> b = "START")
             /\ ~Rises("RESET", new, old) /\ state[a] = "READY" => state'[a] = "GEN_WAVE"
    BY ONLY <2>1, MasterEffects
  <2>3. QED BY ONLY <1>6, <1>7, <1>8, <2>2
<1>10. \A a \in AWGs \ targetSel : state'[a] = state[a] BY <1>5
<1>11. targetSel \subseteq AWGs BY DEF DeviceTypeOK
<1>12. masterCtrl' = IF val = 1 THEN masterCtrl \cup {bit} ELSE masterCtrl \ {bit}
  BY <1>5 DEF new
<1>13. QED BY ONLY <1>2, <1>5, <1>9, <1>10, <1>11, <1>12

(* The bits of the master CTRL: PREPARE arms the selected AWGs, START of a *)
(* start whose AWGs are selected and armed sets them going.                *)
LEMMA WriteMasterBitKeepsStartInv ==
  ASSUME Inv, Inv', StartInv, NEW c \in Clients, WriteMasterBit(c) PROVE StartInv'
<1> USE DEF Inv, TypeOK
<1> DEFINE o == op[c]
           i == pc[c]
           leave == LeaveAt(op[c])
           bit == Bit(op[c], pc[c])
           val == Val(op[c], pc[c])
<1>1. /\ Active(c) /\ Kind(o, i) = "master" /\ phase[c] = "write"
      /\ Advance(c, 1) /\ Observe(c) /\ UNCHANGED <<lockHolder, aborted>>
  BY DEF WriteMasterBit, At, Kind
<1>2. /\ RegistersOf(o, i) /\ o \in OpNames /\ o # "none"
      /\ i \in Nat /\ leave \in Nat /\ i \in 1..Len(Method(o)) /\ i \in 2..leave
      /\ leave <= Len(Method(o)) /\ Len(Method(o)) \in Nat
  BY <1>1, AtRegisters DEF KindOf
<1>3. /\ i > 2 /\ i < leave - 1 /\ o # "initialize"
      /\ bit \in {"PREPARE", "START"} => o = "start"
      /\ \A b \in CtrlBits : MasterUp(o, i + 1, b) <=>
           IF b = bit THEN val = 1 ELSE MasterUp(o, i, b)
  BY <1>1, <1>2 DEF RegistersOf
<1>4. i # Len(Method(o)) /\ i + 1 \in Nat /\ 1 \in Nat BY <1>2, <1>3
<1>5. op' = op /\ args' = args /\ phase'[c] = "read" /\ pc'[c] = i + 1 /\ idx'[c] = 1
  BY <1>1, <1>4, AdvanceMoves
<1>6. Listed(c)' = Listed(c) BY <1>5 DEF Listed
<1>7. Passed(c)' = {} BY <1>1, <1>5, AtRegisters, PassedGrows
<1>8. Moves(c) BY <1>1, <1>4 DEF Moves, Advance
<1>9. InBlock(c) BY <1>1, <1>2 DEF InBlock
<1>10. lockHolder = c /\ lockHolder' = c /\ c # NoClient
  BY <1>1, <1>9, AwgControlAssumption DEF BlockHasLock, AwgControlAssumption
<1>11. /\ bit \in CtrlBits
       /\ masterCtrl' = IF val = 1 THEN masterCtrl \cup {bit} ELSE masterCtrl \ {bit}
       /\ UNCHANGED <<targetSel, ctrl>>
       /\ \A a \in AWGs \ targetSel : state'[a] = state[a]
       /\ \A a \in AWGs : state'[a] = "READY" =>
            state[a] = "READY" \/ (val = 1 /\ bit = "PREPARE" /\ a \in targetSel)
       /\ \A a \in AWGs : state'[a] = "GEN_WAVE" =>
            state[a] = "GEN_WAVE" \/ (val = 1 /\ bit = "START" /\ state[a] = "READY"
                                        /\ a \in targetSel)
       /\ val # 1 /\ bit # "RESET" => \A a \in AWGs : state'[a] = state[a]
       /\ val = 1 /\ bit = "START" /\ "START" \notin masterCtrl =>
            \A a \in targetSel : state[a] = "READY" => state'[a] = "GEN_WAVE"
  BY MasterBitWritten
<1>12. \A d \in Clients : KeepsTrack(d) /\ (d # c => fired'[d] = fired[d])
  BY <1>1, ObserveKeepsTrack
<1>13. \A d \in Clients : d # c => Stays(d) BY <1>8, OthersStayHere
<1>14. OwnInv(c) /\ KeepsTrack(c) BY <1>12 DEF StartInv
<1>15. Listed(c) \subseteq AWGs
  <2>1. args[c] \in Seq(AWGs) BY DEF ClientTypeOK
  <2>2. QED BY <2>1 DEF Listed
<1>16. o = "start" =>
         /\ i \in {3, 4, 6, 7, 8, 9}
         /\ i \in {3, 4, 6} => bit = "PREPARE"
         /\ i \in {7, 8, 9} => bit = "START"
         /\ val = 1 <=> i \in {4, 8}
  <2>1. SUFFICES ASSUME o = "start"
        PROVE  /\ i \in {3, 4, 6, 7, 8, 9}
               /\ i \in {3, 4, 6} => bit = "PREPARE"
               /\ i \in {7, 8, 9} => bit = "START"
               /\ val = 1 <=> i \in {4, 8}
    OBVIOUS
  <2>2. Len(Method(o)) = 11 BY <2>1, StepsOfStart
  <2>3. i \in 1..11 BY <1>2, <2>2
  <2>4. i \in {3, 4, 6, 7, 8, 9} BY <1>1, <2>1, <2>3, StepsOfStart
  <2>5. QED BY <2>1, <2>4, StepsOfStart
<1> HIDE DEF bit, val
<1>17. ASSUME o = "start", i >= 3, i <= 9 PROVE Listed(c) \subseteq targetSel
  BY <1>2, <1>14, <1>17 DEF OwnInv, OnItsWay
<1>18. OnItsWay(c)'
  <2>1. SUFFICES ASSUME o = "start" PROVE OnItsWay(c)' BY <1>5 DEF OnItsWay
  <2>2. Listed(c)' \subseteq targetSel' BY <1>6, <1>11, <1>16, <1>17, <2>1
  <2>3. CASE i = 3 BY <1>5, <2>2, <2>3 DEF OnItsWay
  <2>4. CASE i = 4 BY <1>5, <1>7, <2>2, <2>4 DEF OnItsWay
  <2>5. CASE i \in {6, 7}
    <3>1. \A a \in AWGs : state'[a] = state[a] BY <1>11, <1>16, <2>1, <2>5
    <3>2. \A a \in Listed(c) : Armed(c, a) BY <1>14, <2>1, <2>5 DEF OwnInv, OnItsWay
    <3>3. \A a \in Listed(c) : Armed(c, a)'
      BY <1>14, <1>15, <2>1, <3>1, <3>2 DEF Armed, KeepsTrack
    <3>4. i = 7 => "START" \notin masterCtrl' BY <1>11, <1>16, <2>1
    <3>5. pc'[c] = i + 1 /\ (i = 6 \/ i = 7) BY <1>5, <2>5
    <3>6. QED BY <1>6, <2>2, <3>3, <3>4, <3>5 DEF OnItsWay
  <2>6. CASE i = 8
    <3>1. \A a \in Listed(c) : Armed(c, a) BY <1>14, <2>1, <2>6 DEF OwnInv, OnItsWay
    <3>2. "START" \notin masterCtrl BY <1>14, <2>1, <2>6 DEF OwnInv, OnItsWay
    <3>3. ASSUME NEW a \in Listed(c) PROVE a \in fired'[c] \cup cancelled'[c]
      <4>1. a \in AWGs /\ a \in targetSel /\ bit = "START" /\ val = 1
        BY <1>15, <1>16, <1>17, <2>1, <2>6, <3>3
      <4>2. CASE state[a] = "READY"
        <5>1. state'[a] = "GEN_WAVE" BY <1>11, <3>2, <4>1, <4>2
        <5>2. QED BY <1>1, <4>1, <4>2, <5>1 DEF Observe, HistoryTypeOK
      <4>3. CASE state[a] # "READY"
        <5>1. a \in cancelled[c] BY <3>1, <3>3, <4>3 DEF Armed
        <5>2. state'[a] # "READY" BY <1>11, <4>1, <4>3
        <5>3. QED BY <1>14, <2>1, <5>1, <5>2 DEF KeepsTrack
      <4>4. QED BY <4>2, <4>3
    <3>4. pc'[c] = 9 BY <1>5, <2>6
    <3>5. QED BY <1>6, <2>2, <3>3, <3>4 DEF OnItsWay
  <2>7. CASE i = 9
    <3>1. \A a \in AWGs : state'[a] = state[a] BY <1>11, <1>16, <2>1, <2>7
    <3>2. Listed(c) \subseteq fired[c] \cup cancelled[c]
      BY <1>14, <2>1, <2>7 DEF OwnInv, OnItsWay
    <3>3. \A a \in cancelled[c] : state[a] # "READY" BY <1>14, <2>1 DEF OwnInv, HistoryOfStart
    <3>4. Listed(c) \subseteq fired'[c] \cup cancelled'[c]
      BY <1>14, <1>15, <2>1, <3>1, <3>2, <3>3 DEF KeepsTrack
    <3>5. pc'[c] = 10 BY <1>5, <2>7
    <3>6. QED BY <1>6, <3>4, <3>5 DEF OnItsWay
  <2>8. QED BY <1>16, <2>1, <2>3, <2>4, <2>5, <2>6, <2>7
<1>19. HistoryOfStart(c)'
  <2>1. o # "start" => fired'[c] = {}
    <3>1. SUFFICES ASSUME o # "start" PROVE fired'[c] = {} OBVIOUS
    <3>2. fired[c] = {} BY <1>14, <3>1 DEF OwnInv, HistoryOfStart
    <3>3. \A a \in AWGs : state'[a] = "GEN_WAVE" => state[a] = "GEN_WAVE"
      BY <1>3, <1>11, <3>1
    <3>4. QED BY <1>1, <3>2, <3>3 DEF Observe, HistoryTypeOK
  <2>2. QED BY <1>5, <1>14, <2>1 DEF OwnInv, HistoryOfStart, KeepsTrack
<1>20. FiresListed(c)'
  <2>1. SUFFICES ASSUME ~aborted', o = "start" PROVE fired'[c] \subseteq Listed(c)
    BY <1>5, <1>6 DEF FiresListed
  <2>2. fired[c] \subseteq Listed(c) BY <1>1, <1>14, <2>1 DEF OwnInv, FiresListed
  <2>3. ASSUME NEW a \in AWGs, state[a] # "GEN_WAVE", state'[a] = "GEN_WAVE"
        PROVE  a \in Listed(c)
    <3>1. state[a] = "READY" /\ ~aborted BY <1>1, <1>11, <2>1, <2>3
    <3>2. PICK d \in Clients : Firing(d) /\ a \in Listed(d)
      BY <3>1 DEF StartInv, ArmedByStart
    <3>3. InBlock(d) BY <3>2, StepsOfStart DEF Firing, InBlock, Active
    <3>4. d = c BY <1>10, <3>3 DEF BlockHasLock
    <3>5. QED BY <3>2, <3>4
  <2>4. fired'[c] = fired[c] \cup
          {a \in AWGs : state[a] # "GEN_WAVE" /\ state'[a] = "GEN_WAVE"}
    BY <1>1 DEF Observe, HistoryTypeOK
  <2>5. QED BY <2>2, <2>3, <2>4
<1>21. Waited(c)'
  <2>1. o \notin {"wait", "terminate"} BY <1>3, <1>2, StepsOfWait, StepsOfTerminate
  <2>2. ongoing[c] \subseteq AWGs BY DEF HistoryTypeOK
  <2>3. QED BY <1>5, <1>14, <2>1, <2>2 DEF Waited, KeepsTrack
<1>22. OwnInv(c)'
  <2>1. OwnRead(c)' BY <1>5 DEF OwnRead
  <2>2. QED BY <1>18, <1>19, <1>20, <1>21, <2>1 DEF OwnInv
<1>23. ASSUME ~aborted' PROVE Follows(c)'
  <2>1. targetSel = SelectedAt(c) /\ masterCtrl = MasterAt(o, i)
    BY <1>1, <1>10, <1>23 DEF StartInv, RegistersFollow, Follows
  <2>2. masterCtrl' = MasterAt(o, i + 1)
    <3>1. \A b \in CtrlBits : b \in MasterAt(o, i + 1) <=>
            IF b = bit THEN val = 1 ELSE b \in masterCtrl
      BY <1>3, <2>1 DEF MasterAt
    <3>2. masterCtrl \subseteq CtrlBits /\ MasterAt(o, i + 1) \subseteq CtrlBits
      BY DEF DeviceTypeOK, MasterAt
    <3>3. QED BY <1>11, <3>1, <3>2
  <2>3. i # 2 /\ i # leave /\ i # leave - 1 /\ i + 1 # leave /\ i + 1 # 2 BY <1>2, <1>3
  <2>4. SelectedAt(c) = Listed(c) BY <1>3, <2>3 DEF SelectedAt
  <2>5. SelectedAt(c)' = Listed(c)'
    <3>1. pc'[c] = i + 1 /\ op'[c] = o BY <1>5
    <3>2. Listed(c)' \ Passed(c)' = Listed(c)' BY <1>7
    <3>3. QED BY <1>3, <2>3, <3>1, <3>2 DEF SelectedAt
  <2>6. QED BY <1>5, <1>6, <1>11, <2>1, <2>2, <2>4, <2>5 DEF Follows
<1>24. ArmedByStart'
  <2>1. ASSUME ~aborted', NEW a \in AWGs, state'[a] = "READY"
        PROVE  \E d \in Clients : Firing(d)' /\ a \in Listed(d)'
    <3>1. ~aborted BY <1>1, <2>1
    <3>2. o = "start" /\ a \in Listed(c) /\ i \in {4, 6, 7}
      <4>1. CASE state[a] = "READY"
        <5>1. PICK d \in Clients : Firing(d) /\ a \in Listed(d)
          BY <3>1, <4>1 DEF StartInv, ArmedByStart
        <5>2. InBlock(d) BY <5>1, StepsOfStart DEF Firing, InBlock, Active
        <5>3. d = c BY <1>10, <5>2 DEF BlockHasLock
        <5>4. o = "start" /\ i \in 5..8 /\ a \in Listed(c) BY <5>1, <5>3 DEF Firing
        <5>5. i # 8
          <6>1. SUFFICES ASSUME i = 8 PROVE FALSE OBVIOUS
          <6>2. "START" \notin masterCtrl BY <1>14, <5>4, <6>1 DEF OwnInv, OnItsWay
          <6>3. a \in targetSel /\ bit = "START" /\ val = 1 BY <1>16, <1>17, <5>4, <6>1
          <6>4. state'[a] = "GEN_WAVE" BY <1>11, <4>1, <6>2, <6>3
          <6>5. QED BY <2>1, <6>4
        <5>6. QED BY <1>16, <5>4, <5>5
      <4>2. CASE state[a] # "READY"
        <5>1. val = 1 /\ bit = "PREPARE" /\ a \in targetSel BY <1>11, <2>1, <4>2
        <5>2. o = "start" /\ i = 4 BY <1>3, <1>16, <5>1
        <5>3. targetSel = SelectedAt(c)
          BY <1>10, <3>1 DEF StartInv, RegistersFollow, Follows
        <5>4. SelectedAt(c) = Listed(c) BY <5>2, StepsOfStart DEF SelectedAt
        <5>5. QED BY <5>1, <5>2, <5>3, <5>4
      <4>3. QED BY <4>1, <4>2
    <3>3. Firing(c)' /\ a \in Listed(c)' BY <1>5, <1>6, <3>2 DEF Firing
    <3>4. QED BY <3>3
  <2>2. QED BY <2>1 DEF ArmedByStart
<1>25. \A a \in AWGs : ctrl'[a] \subseteq {"TERMINATE"} BY <1>11 DEF StartInv
<1>26. \A d \in Clients : d # c => Stays(d) /\ KeepsTrack(d) /\ fired'[d] = fired[d]
  BY <1>12, <1>13
<1>27. QED
  BY <1>1, <1>9, <1>10, <1>22, <1>23, <1>24, <1>25, <1>26, StepKeepsStartInv

(* What a write to the CTRL of one AWG does: to that AWG alone, and        *)
(* nothing but end its wave or unarm it.                                   *)
LEMMA OwnCtrlWritten ==
  ASSUME DeviceTypeOK, NEW a \in AWGs, NEW value, value \subseteq {"TERMINATE"},
         ctrl[a] \subseteq {"TERMINATE"}, WriteCtrl(a, value)
  PROVE  /\ UNCHANGED <<targetSel, masterCtrl>>
         /\ ctrl' = [ctrl EXCEPT ![a] = value]
         /\ \A b \in AWGs : state'[b] \in {state[b], "COMPLETE"}
<1>1. state[a] \in AwgStates BY DEF DeviceTypeOK
<1>2. OnOwnCtrl(ctrl[a], value, state[a]) \in {state[a], "COMPLETE"} BY <1>1, OwnEffects
<1>3. QED BY <1>2 DEF WriteCtrl, DeviceTypeOK

(* What such a write of one client leaves of the invariant. *)
LEMMA OwnCtrlWrittenKeepsStartInv ==
  ASSUME Inv, Inv', StartInv, NEW c \in Clients, Active(c),
         op[c] \in {"terminate", "initialize"},
         Moves(c), Observe(c), UNCHANGED <<lockHolder, aborted>>,
         UNCHANGED <<targetSel, masterCtrl>>,
         \A a \in AWGs : ctrl'[a] \subseteq {"TERMINATE"},
         \A a \in AWGs : state'[a] \in {state[a], "COMPLETE"},
         pc[c] > LeaveAt(op[c]),
         Return(c) \/ (op' = op /\ args' = args /\ Waited(c)')
  PROVE  StartInv'
<1> USE DEF Inv, TypeOK
<1>1. \A d \in Clients : KeepsTrack(d) /\ (d # c => fired'[d] = fired[d])
  BY ObserveKeepsTrack
<1>2. \A d \in Clients : d # c => Stays(d) BY OthersStayHere
<1>3. OwnInv(c) /\ KeepsTrack(c) BY <1>1 DEF StartInv
<1>4. fired'[c] = {} /\ cancelled'[c] = {}
  <2>1. fired[c] = {} /\ cancelled[c] = {} BY <1>3 DEF OwnInv, HistoryOfStart
  <2>2. \A a \in AWGs : state'[a] = "GEN_WAVE" => state[a] = "GEN_WAVE" OBVIOUS
  <2>3. fired'[c] = {} BY <2>1, <2>2 DEF Observe, HistoryTypeOK
  <2>4. QED BY <1>3, <2>1, <2>3 DEF KeepsTrack
<1>5. phase'[c] = "read" BY DEF Moves, Return, Goto, ClientTypeOK
<1>6. OwnInv(c)'
  <2>1. CASE Return(c)
    <3>1. ongoing'[c] \subseteq {a \in AWGs : state'[a] = "GEN_WAVE"}
      BY <1>3 DEF KeepsTrack, HistoryTypeOK
    <3>2. QED BY <1>4, <2>1, <3>1, ReturnedOwnInv
  <2>2. CASE op' = op /\ args' = args /\ Waited(c)'
    <3>1. OwnRead(c)' BY <1>5 DEF OwnRead
    <3>2. op'[c] # "start" BY <2>2
    <3>3. OnItsWay(c)' /\ FiresListed(c)' BY <3>2 DEF OnItsWay, FiresListed
    <3>4. HistoryOfStart(c)' BY <1>4, <3>2 DEF HistoryOfStart
    <3>5. QED BY <2>2, <3>1, <3>3, <3>4 DEF OwnInv
  <2>3. QED BY <2>1, <2>2
<1>7. ~InBlock(c)
  <2>1. pc[c] \in Nat /\ LeaveAt(op[c]) \in Nat BY AtRegisters
  <2>2. QED BY <2>1 DEF InBlock
<1>8. lockHolder' # c BY <1>7 DEF BlockHasLock
<1>9. ~Firing(c) BY DEF Firing
<1>10. ArmedByStart' BY <1>2, <1>9, ArmedStays
<1>11. ~aborted' /\ lockHolder' = NoClient => Clean' BY DEF StartInv, RegistersFollow, Clean
<1>12. QED BY <1>1, <1>2, <1>6, <1>8, <1>10, <1>11, StepKeepsStartInv

(* terminate_awgs raises TERMINATE of one AWG, and lowers it. *)
LEMMA WriteOwnBitKeepsStartInv ==
  ASSUME Inv, Inv', StartInv, NEW c \in Clients, WriteOwnBit(c) PROVE StartInv'
<1> USE DEF Inv, TypeOK
<1>1. /\ Active(c) /\ Kind(op[c], pc[c]) = "own" /\ phase[c] = "write"
      /\ WriteCtrl(Target(c), Replaced(c, At(c).bit))
      /\ Advance(c, idx[c]) /\ Observe(c) /\ UNCHANGED <<lockHolder, aborted>>
  BY DEF WriteOwnBit, At, Kind
<1>2. /\ op[c] = "terminate" /\ At(c).bit = "TERMINATE" /\ Target(c) \in AWGs
      /\ pc[c] \in Nat /\ pc[c] \in 1..Len(Method(op[c])) /\ idx[c] \in Nat
      /\ pc[c] > LeaveAt(op[c])
  BY <1>1, AtRegisters DEF RegistersOf, KindOf
<1>3. Len(Method(op[c])) = 4 BY <1>2, StepsOfTerminate
<1>4. pc[c] \in {1, 3}
  <2>1. pc[c] \in 1..4 BY <1>2, <1>3
  <2>2. QED BY <1>1, <1>2, <2>1, StepsOfTerminate
<1>5. pc[c] # Len(Method(op[c])) /\ pc[c] + 1 \in Nat BY <1>3, <1>4
<1>6. op' = op /\ args' = args /\ pc'[c] = pc[c] + 1 /\ idx'[c] = idx[c]
  BY <1>1, <1>2, <1>5, AdvanceMoves
<1>7. Moves(c) BY <1>1, <1>2, <1>5 DEF Moves, Advance
<1>8. OwnInv(c) BY DEF StartInv
<1>9. readVal[c] \subseteq {"TERMINATE"} BY <1>1, <1>8 DEF OwnInv, OwnRead
<1>10. Replaced(c, At(c).bit) \subseteq {"TERMINATE"} BY <1>2, <1>9 DEF Replaced
<1>11. ctrl[Target(c)] \subseteq {"TERMINATE"} BY <1>2 DEF StartInv
<1>12. /\ UNCHANGED <<targetSel, masterCtrl>>
       /\ ctrl' = [ctrl EXCEPT ![Target(c)] = Replaced(c, At(c).bit)]
       /\ \A b \in AWGs : state'[b] \in {state[b], "COMPLETE"}
  BY <1>1, <1>2, <1>10, <1>11, OwnCtrlWritten
<1>13. \A a \in AWGs : ctrl'[a] \subseteq {"TERMINATE"}
  BY <1>10, <1>12 DEF StartInv, DeviceTypeOK
<1>14. Waited(c)'
  <2>1. KeepsTrack(c) BY <1>1, ObserveKeepsTrack
  <2>2. Passed(c)' = Passed(c) /\ Target(c)' = Target(c) BY <1>6 DEF Passed, Target
  <2>3. pc'[c] > 2 => pc[c] > 2 BY <1>4, <1>6
  <2>4. ongoing[c] \subseteq AWGs BY DEF HistoryTypeOK
  <2>5. QED BY <1>2, <1>6, <1>8, <2>1, <2>2, <2>3, <2>4 DEF OwnInv, Waited, KeepsTrack
<1>15. QED
  BY <1>1, <1>2, <1>6, <1>7, <1>12, <1>13, <1>14, OwnCtrlWrittenKeepsStartInv

(* initialize writes zero to the CTRL of each of its AWGs. *)
LEMMA WriteZeroKeepsStartInv ==
  ASSUME Inv, Inv', StartInv, NEW c \in Clients, WriteZero(c) PROVE StartInv'
<1> USE DEF Inv, TypeOK
<1>1. /\ Active(c) /\ Kind(op[c], pc[c]) = "zero" /\ WriteCtrl(Target(c), {})
      /\ NextAwg(c) /\ Observe(c) /\ UNCHANGED <<lockHolder, aborted>>
  BY DEF WriteZero, At, Kind
<1>2. /\ op[c] = "initialize" /\ Target(c) \in AWGs
      /\ pc[c] \in Nat /\ idx[c] \in Nat /\ pc[c] > LeaveAt(op[c])
  BY <1>1, AtRegisters DEF RegistersOf, KindOf
<1>3. Moves(c)
  <2>1. idx[c] + 1 \in Nat /\ 1 \in Nat /\ pc[c] + 1 \in Nat BY <1>2
  <2>2. QED BY <1>1, <1>2, <2>1 DEF Moves, NextAwg, Advance
<1>4. OwnInv(c) /\ ctrl[Target(c)] \subseteq {"TERMINATE"} BY <1>2 DEF StartInv
<1>5. /\ UNCHANGED <<targetSel, masterCtrl>>
      /\ ctrl' = [ctrl EXCEPT ![Target(c)] = {}]
      /\ \A b \in AWGs : state'[b] \in {state[b], "COMPLETE"}
  BY <1>1, <1>2, <1>4, OwnCtrlWritten
<1>6. \A a \in AWGs : ctrl'[a] \subseteq {"TERMINATE"} BY <1>5 DEF StartInv, DeviceTypeOK
<1>7. Return(c) \/ (op' = op /\ args' = args /\ Waited(c)')
  <2>1. CASE op' = op /\ args' = args
    <3>1. KeepsTrack(c) BY <1>1, ObserveKeepsTrack
    <3>2. ongoing[c] \subseteq AWGs BY DEF HistoryTypeOK
    <3>3. QED BY <1>2, <2>1, <3>1, <3>2 DEF Waited, KeepsTrack
  <2>2. Return(c) \/ (op' = op /\ args' = args) BY <1>1, NextAwgMoves
  <2>3. QED BY <2>1, <2>2
<1>8. QED
  BY <1>1, <1>2, <1>3, <1>5, <1>6, <1>7, OwnCtrlWrittenKeepsStartInv

-----------------------------------------------------------------------------
(* The initial state has the invariant ... *)
LEMMA InitStartInv == Init => StartInv
<1> SUFFICES ASSUME Init PROVE StartInv OBVIOUS
<1>1. Inv BY InitInv
<1>2. lockHolder = NoClient /\ Clean /\ \A c \in Clients : op[c] = "none"
  BY DEF Init, DeviceInit, Clean
<1>3. \A a \in AWGs : ctrl[a] = {} /\ state[a] = "IDLE" BY DEF Init, DeviceInit
<1>4. RegistersFollow
  BY <1>2, AwgControlAssumption DEF RegistersFollow, AwgControlAssumption
<1>5. ArmedByStart BY <1>3 DEF ArmedByStart
<1>6. \A c \in Clients : fired[c] = {} /\ cancelled[c] = {} /\ ongoing[c] = {} BY DEF Init
<1>7. \A c \in Clients : OwnInv(c)
  BY <1>2, <1>6 DEF OwnInv, OwnRead, OnItsWay, Waited, HistoryOfStart, FiresListed, Active
<1>8. QED BY <1>3, <1>4, <1>5, <1>7 DEF StartInv

(* ... and every step keeps it. *)
LEMMA NextStartInv == Inv /\ Inv' /\ StartInv /\ [FaultyNext]_vars => StartInv'
<1> SUFFICES ASSUME Inv, Inv', StartInv, [FaultyNext]_vars PROVE StartInv' OBVIOUS
<1>1. ASSUME NEW c \in Clients, ClientStep(c) PROVE StartInv'
  <2>1. CASE Call(c) BY <2>1, CallKeepsStartInv
  <2>2. CASE EnterLock(c) BY <2>2, EnterLockKeepsStartInv
  <2>3. CASE LeaveLock(c) BY <2>3, LeaveLockKeepsStartInv
  <2>4. CASE ReadRegister(c) BY <2>4, ReadRegisterKeepsStartInv
  <2>5. CASE WriteSelectBit(c) BY <2>5, WriteSelectBitKeepsStartInv
  <2>6. CASE WriteMasterBit(c) BY <2>6, WriteMasterBitKeepsStartInv
  <2>7. CASE WriteOwnBit(c) BY <2>7, WriteOwnBitKeepsStartInv
  <2>8. CASE WriteZero(c) BY <2>8, WriteZeroKeepsStartInv
  <2>9. CASE PollSucceeds(c) BY <2>9, PollSucceedsKeepsStartInv
  <2>10. CASE PollFails(c) BY <2>10, PollFailsKeepsStartInv
  <2>11. CASE LoopAgain(c) BY <2>11, LoopAgainKeepsStartInv
  <2>12. CASE PollTimesOut(c) BY <2>12, RaiseKeepsStartInv DEF PollTimesOut
  <2>13. QED
    BY <1>1, <2>1, <2>2, <2>3, <2>4, <2>5, <2>6, <2>7, <2>8, <2>9, <2>10, <2>11, <2>12
    DEF ClientStep, Proceed
<1>2. ASSUME NEW c \in Clients, AccessFails(c) PROVE StartInv'
  BY <1>2, RaiseKeepsStartInv DEF AccessFails
<1>3. ASSUME NEW a \in AWGs, WaveEnds(a) PROVE StartInv' BY <1>3, WaveEndsKeepsStartInv
<1>4. CASE UNCHANGED vars
  <2>1. UNCHANGED <<targetSel, masterCtrl, ctrl, state, lockHolder, op, args, pc, idx, phase,
                    readVal, aborted, fired, cancelled, ongoing>>
    BY <1>4 DEF vars, deviceVars, clientVars, historyVars
  <2>2. ASSUME NEW c \in Clients
        PROVE  OwnInv(c)' /\ (Follows(c)' <=> Follows(c)) /\ Listed(c)' = Listed(c)
                 /\ (Firing(c)' <=> Firing(c))
    <3>1. Passed(c)' = Passed(c) /\ Listed(c)' = Listed(c) /\ Target(c)' = Target(c)
      BY <2>1 DEF Passed, Listed, Target
    <3>2. OwnInv(c) BY DEF StartInv
    <3>3. OwnRead(c)' BY <2>1, <3>2 DEF OwnInv, OwnRead, Active
    <3>4. OnItsWay(c)' BY <2>1, <3>1, <3>2 DEF OwnInv, OnItsWay, Armed
    <3>5. Waited(c)' BY <2>1, <3>1, <3>2 DEF OwnInv, Waited
    <3>6. HistoryOfStart(c)' BY <2>1, <3>2 DEF OwnInv, HistoryOfStart
    <3>7. FiresListed(c)' BY <2>1, <3>1, <3>2 DEF OwnInv, FiresListed
    <3>8. Follows(c)' <=> Follows(c) BY <2>1, <3>1 DEF Follows, SelectedAt
    <3>9. Firing(c)' <=> Firing(c) BY <2>1 DEF Firing
    <3>10. QED BY <3>1, <3>3, <3>4, <3>5, <3>6, <3>7, <3>8, <3>9 DEF OwnInv
  <2>3. RegistersFollow' BY <2>1, <2>2 DEF StartInv, RegistersFollow, Clean
  <2>4. ArmedByStart' BY <2>1, <2>2 DEF StartInv, ArmedByStart
  <2>5. QED BY <2>1, <2>2, <2>3, <2>4 DEF StartInv
<1>5. QED BY <1>1, <1>2, <1>3, <1>4 DEF FaultyNext, Next

(* Both invariants together, of every reachable state. *)
LEMMA AlwaysStartInv == FaultySpec => [](Inv /\ StartInv)
<1>1. Init => Inv /\ StartInv BY InitInv, InitStartInv
<1>2. (Inv /\ StartInv) /\ [FaultyNext]_vars => (Inv /\ StartInv)'
  BY NextInv, NextStartInv
<1>3. QED BY <1>1, <1>2, PTL DEF FaultySpec

-----------------------------------------------------------------------------
(* Between calls no AWG is selected, no bit of the master CTRL is up and   *)
(* no AWG is armed, unless a call was cut short in its lock block.         *)
THEOREM NothingLeftSelected == FaultySpec => []CleanWhenFree
<1>1. Inv /\ StartInv => CleanWhenFree
  <2> SUFFICES ASSUME Inv, StartInv, lockHolder = NoClient, ~aborted
               PROVE  Clean /\ \A a \in AWGs : state[a] # "READY"
    BY DEF CleanWhenFree, Clean
  <2>1. Clean BY DEF StartInv, RegistersFollow
  <2>2. ASSUME NEW a \in AWGs, state[a] = "READY" PROVE FALSE
    <3>1. PICK c \in Clients : Firing(c) BY <2>2 DEF StartInv, ArmedByStart
    <3>2. InBlock(c) BY <3>1, StepsOfStart DEF Firing, InBlock, Active
    <3>3. lockHolder = c BY <3>2 DEF Inv, BlockHasLock
    <3>4. QED BY <3>3, AwgControlAssumption DEF AwgControlAssumption
  <2>3. QED BY <2>1, <2>2
<1>2. QED BY AlwaysStartInv, <1>1, PTL

(* start_awgs starts no AWG that it was not given, unless an earlier call  *)
(* was cut short in its lock block.                                        *)
THEOREM OnlyListedStart == FaultySpec => []StartsOnlyListedUnlessAborted
<1>1. Inv /\ StartInv => StartsOnlyListedUnlessAborted
  BY DEF StartInv, OwnInv, FiresListed, StartsOnlyListedUnlessAborted, StartsOnlyListed
<1>2. QED BY AlwaysStartInv, <1>1, PTL

(* start_awgs starts each AWG that it was given, or another client has     *)
(* taken it out of READY - even after calls that were cut short, because   *)
(* it lowers PREPARE and START before it raises them.                      *)
THEOREM StartReachesEachAwg == FaultySpec => []StartDelivers
<1>1. Inv /\ StartInv => StartDelivers
  <2> SUFFICES ASSUME Inv, StartInv, NEW c \in Clients, op[c] = "start",
                      NEW i \in 1..(pc[c] - 1), StartAwgs[i] = Master("START", 1)
               PROVE  Listed(c) \subseteq fired[c] \cup cancelled[c]
    BY DEF StartDelivers
  <2>1. pc[c] \in Nat /\ pc[c] <= 11
    <3>1. Active(c) BY DEF Active
    <3>2. pc[c] \in Nat /\ pc[c] <= Len(Method(op[c])) BY <3>1, AtRegisters DEF Inv
    <3>3. Len(Method(op[c])) = 11 BY StepsOfStart
    <3>4. QED BY <3>2, <3>3
  <2>2. i \in 1..11 BY <2>1
  <2>3. Kind("start", i) = "master" /\ Bit("start", i) = "START" /\ Val("start", i) = 1
    BY DEF Kind, Bit, Val, Method, Master, Step
  <2>4. i = 8 BY <2>2, <2>3, StepsOfStart
  <2>5. pc[c] > 8 BY <2>1, <2>4
  <2>6. QED BY <2>5 DEF StartInv, OwnInv, OnItsWay
<1>2. QED BY AlwaysStartInv, <1>1, PTL

(* wait_for_awgs_to_stop and terminate_awgs return only when the waves     *)
(* under way at their call have ended.                                     *)
THEOREM WavesHaveEnded == FaultySpec => WaitsForWaves
<1>1. Inv /\ StartInv /\ [FaultyNext]_vars =>
        [\A c \in Clients :
           (PollSucceeds(c) \/ LoopAgain(c)) /\ Active(c) /\ ~Active(c)'
             => Listed(c) \cap ongoing[c] = {}]_vars
  <2> SUFFICES ASSUME Inv, StartInv, NEW c \in Clients,
                      PollSucceeds(c) \/ LoopAgain(c), Active(c), ~Active(c)'
               PROVE  Listed(c) \cap ongoing[c] = {}
    OBVIOUS
  <2> USE DEF Inv, TypeOK
  <2>1. OwnInv(c) BY DEF StartInv
  <2>2. /\ op[c] \in OpNames /\ RegistersOf(op[c], pc[c]) /\ pc[c] \in Nat /\ idx[c] \in Nat \ {0}
        /\ pc[c] \in 1..Len(Method(op[c])) /\ Target(c) \in AWGs /\ idx[c] <= Len(args[c])
        /\ Len(args[c]) \in Nat
    BY AtRegisters
  <2>3. op' # op BY DEF Active
  <2>4. CASE LoopAgain(c)
    <3>1. Kind(op[c], pc[c]) = "again" /\ ~(idx[c] < Len(args[c]))
      BY <2>3, <2>4 DEF LoopAgain, At, Kind, Goto
    <3>2. op[c] = "terminate" BY <2>2, <3>1 DEF RegistersOf
    <3>3. Len(Method(op[c])) = 4 BY <3>2, StepsOfTerminate
    <3>4. pc[c] \in 1..4 BY <2>2, <3>3
    <3>5. pc[c] = 4 BY <3>1, <3>2, <3>4, StepsOfTerminate
    <3>6. idx[c] = Len(args[c]) BY <2>2, <3>1
    <3>7. Listed(c) = Passed(c) \cup {Target(c)} BY <2>2, <3>6, PassedGrows
    <3>8. QED BY <2>1, <3>2, <3>5, <3>7 DEF OwnInv, Waited
  <2>5. CASE PollSucceeds(c)
    <3>1. /\ Kind(op[c], pc[c]) \in {"all", "one"}
          /\ Status(Target(c), Bit(op[c], pc[c])) = (Val(op[c], pc[c]) = 1)
          /\ IF Kind(op[c], pc[c]) = "all" THEN NextAwg(c) ELSE Advance(c, idx[c])
      BY <2>5 DEF PollSucceeds, At, Kind, Bit, Val
    <3>2. pc[c] = Len(Method(op[c])) /\ (Kind(op[c], pc[c]) = "all" =>
            Listed(c) = Passed(c) \cup {Target(c)})
      BY <2>2, <2>3, <3>1, NextAwgMoves, AdvanceMoves
    <3>3. op[c] = "wait"
      <4>1. op[c] \in {"start", "wait", "terminate"} BY <2>2, <3>1 DEF RegistersOf
      <4>2. op[c] = "start" => pc[c] = 11 BY <3>2, StepsOfStart
      <4>3. op[c] = "terminate" => pc[c] = 4 BY <3>2, StepsOfTerminate
      <4>4. QED BY <3>1, <4>1, <4>2, <4>3, StepsOfStart, StepsOfTerminate
    <3>4. pc[c] = 1 BY <3>2, <3>3, StepsOfWait
    <3>5. state[Target(c)] = "COMPLETE" BY <3>1, <3>3, <3>4, StepsOfWait DEF Status
    <3>6. Listed(c) = Passed(c) \cup {Target(c)} BY <3>2, <3>3, <3>4, StepsOfWait
    <3>7. QED BY <2>1, <3>3, <3>5, <3>6 DEF OwnInv, Waited
  <2>6. QED BY <2>4, <2>5
<1>2. QED BY AlwaysStartInv, <1>1, PTL DEF FaultySpec, WaitsForWaves
=============================================================================
