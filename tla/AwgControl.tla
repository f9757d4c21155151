----------------------------- MODULE AwgControl -----------------------------
(***************************************************************************)
(* e7awgsw/awgctrl.py: AwgCtrl objects of several client processes that    *)
(* drive the AWGs of one device through its registers.  Each operation is  *)
(* the list of register accesses its method makes; a bit of a register is  *)
(* changed by reading the register and writing it back (RegAccess.         *)
(* write_bits), two requests between which other clients can act.          *)
(*                                                                         *)
(* The lock is the Mutex that ReentrantFileLock implements; the blocks     *)
(* that select and deselect nest inside start, reset and clear are inner   *)
(* blocks of it and do not show.  An access that fails (socket.timeout, a  *)
(* reply that does not match), and a client that dies, end the call where  *)
(* it is: the lock is released and the registers stay as they are.         *)
(***************************************************************************)
EXTENDS AwgDevice, Sequences

CONSTANTS
  Clients,     (* processes with an AwgCtrl on the device                  *)
  Ops,         (* the operations each of them calls                        *)
  ArgLists,    (* the awg_id_list arguments they pass                      *)
  NoClient     (* nobody has the lock                                      *)

OpNames == {"start", "terminate", "reset", "clear", "initialize", "wait"}

ASSUME AwgControlAssumption ==
  /\ Ops \in [Clients -> SUBSET OpNames]
  /\ ArgLists \subseteq Seq(AWGs) \ {<<>>}
  /\ NoClient \notin Clients

VARIABLES
  lockHolder,  (* client inside a `with self.__flock` block                *)
  op,          (* operation each client is in, or "none"                   *)
  args,        (* its awg_id_list                                          *)
  pc,          (* its next step in the method                              *)
  idx,         (* position in awg_id_list of the loop the step is in       *)
  phase,       (* "read" or "write": the half of write_bits it is at       *)
  readVal,     (* the register value write_bits has read                   *)
  (* history, for the properties only *)
  aborted,     (* did a call end by an exception inside its lock block?    *)
  fired,       (* AWGs that the START of the client's call set going       *)
  cancelled,   (* AWGs prepared for it that then lost READY to another one *)
  ongoing      (* waves under way since before the client's call           *)

clientVars == <<op, args, pc, idx, phase, readVal>>
historyVars == <<fired, cancelled, ongoing>>
vars == <<deviceVars, lockHolder, clientVars, aborted, historyVars>>

-----------------------------------------------------------------------------
(* The methods, step by step. *)

Step(kind, bit, val) == [kind |-> kind, bit |-> bit, val |-> val]

Lock        == Step("lock", "", 0)
Unlock      == Step("unlock", "", 0)
Select      == Step("target", "", 1)      \* for each AWG: its CTRL_TARGET_SEL bit
Deselect    == Step("target", "", 0)
Master(b, v) == Step("master", b, v)      \* write_bits on the master CTRL
Own(b, v)   == Step("own", b, v)          \* write_bits on CTRL of one AWG
ZeroCtrl    == Step("zero", "", 0)        \* for each AWG: write 0 to its CTRL
AwaitAll(b) == Step("all", b, 1)          \* poll STATUS until every AWG has b
AwaitOne(b, v) == Step("one", b, v)       \* the same, of one AWG
Again       == Step("again", "", 0)       \* end of the body of a `for awg_id`

(* Mutant: without the lock around the whole start. *)
StartAwgsUnlocked ==
  <<Select, Master("PREPARE", 0), Master("PREPARE", 1), AwaitAll("READY"),
    Master("PREPARE", 0),
    Master("START", 0), Master("START", 1), Master("START", 0), Deselect>>

(* Mutant: the AWGs stay selected. *)
StartAwgsStaySelected ==
  <<Lock, Select,
    Master("PREPARE", 0), Master("PREPARE", 1), AwaitAll("READY"),
    Master("PREPARE", 0),
    Master("START", 0), Master("START", 1), Master("START", 0), Unlock>>

(* Mutant: START is raised without being lowered first. *)
StartAwgsNoFallingEdge ==
  <<Lock, Select,
    Master("PREPARE", 0), Master("PREPARE", 1), AwaitAll("READY"),
    Master("PREPARE", 0), Master("START", 1), Master("START", 0),
    Deselect, Unlock>>

StartAwgs ==
  <<Lock, Select,
    Master("PREPARE", 0), Master("PREPARE", 1), AwaitAll("READY"),
    Master("PREPARE", 0),
    Master("START", 0), Master("START", 1), Master("START", 0),
    Deselect, Unlock>>

TerminateAwgs ==
  <<Own("TERMINATE", 1), AwaitOne("BUSY", 0), Own("TERMINATE", 0), Again>>

ResetAwgs ==
  <<Lock, Select, Master("RESET", 1), Master("RESET", 0), Deselect, Unlock>>

ClearAwgStopFlags ==
  <<Lock, Select,
    Master("DONE_CLR", 0), Master("DONE_CLR", 1), Master("DONE_CLR", 0),
    Deselect, Unlock>>

(* Mutant: the selection is cleared without the lock. *)
InitializeUnlocked == <<Deselect, ZeroCtrl>>

(* The wave sequence and the startable timing it sets at its end are not   *)
(* control registers (WaveStore has the first).                            *)
Initialize == <<Lock, Deselect, Unlock, ZeroCtrl>>

(* Mutant: one AWG that has stopped is taken for all of them. *)
WaitForAnAwgToStop == <<AwaitOne("DONE", 1)>>

WaitForAwgsToStop == <<AwaitAll("DONE")>>

Method(o) ==
  CASE o = "start"      -> StartAwgs
    [] o = "terminate"  -> TerminateAwgs
    [] o = "reset"      -> ResetAwgs
    [] o = "clear"      -> ClearAwgStopFlags
    [] o = "initialize" -> Initialize
    [] o = "wait"       -> WaitForAwgsToStop

Active(c) == op[c] # "none"

(* The step the client is at, and the AWG its loop is at. *)
At(c) == Method(op[c])[pc[c]]

Target(c) == args[c][idx[c]]

Listed(c) == {args[c][i] : i \in 1..Len(args[c])}

-----------------------------------------------------------------------------
(* Moving on in a method. *)

Return(c) ==
  /\ op' = [op EXCEPT ![c] = "none"]
  /\ args' = [args EXCEPT ![c] = <<>>]
  /\ pc' = [pc EXCEPT ![c] = 1]
  /\ idx' = [idx EXCEPT ![c] = 1]
  /\ phase' = [phase EXCEPT ![c] = "read"]
  /\ readVal' = [readVal EXCEPT ![c] = {}]

Goto(c, step, i) ==
  /\ pc' = [pc EXCEPT ![c] = step]
  /\ idx' = [idx EXCEPT ![c] = i]
  /\ phase' = [phase EXCEPT ![c] = "read"]
  /\ readVal' = [readVal EXCEPT ![c] = {}]
  /\ UNCHANGED <<op, args>>

(* To the next step, keeping the place in awg_id_list. *)
Advance(c, i) ==
  IF pc[c] = Len(Method(op[c])) THEN Return(c) ELSE Goto(c, pc[c] + 1, i)

(* To the next AWG of a loop that is one step, or past the loop. *)
NextAwg(c) ==
  IF idx[c] < Len(args[c]) THEN Goto(c, pc[c], idx[c] + 1) ELSE Advance(c, 1)

(* What the history variables make of a change of the AWGs' states: who    *)
(* started them, who lost a prepared one, which waves have ended.          *)
Observe(c) ==
  /\ fired' = [fired EXCEPT ![c] = @ \cup
       {a \in AWGs : state[a] # "GEN_WAVE" /\ state'[a] = "GEN_WAVE"}]
  /\ cancelled' = [d \in Clients |->
       IF op[d] # "start" THEN cancelled[d]
       ELSE (cancelled[d] \cup
               {a \in Listed(d) : state[a] = "READY" /\ state'[a] # "GEN_WAVE"})
            \ {a \in AWGs : state'[a] = "READY"}]
  /\ ongoing' = [d \in Clients |->
       {a \in ongoing[d] : state'[a] = "GEN_WAVE"}]

Forget(c) ==
  /\ fired' = [fired EXCEPT ![c] = {}]
  /\ cancelled' = [cancelled EXCEPT ![c] = {}]
  /\ ongoing' = [ongoing EXCEPT ![c] = {}]

-----------------------------------------------------------------------------
(* The steps of a client. *)

(* Nothing to observe; the history of a call is dropped when it returns. *)
Unobserved(c) == IF Active(c)' THEN UNCHANGED historyVars ELSE Forget(c)

(* A call of a public method. *)
Call(c) ==
  /\ ~Active(c)
  /\ \E o \in Ops[c], l \in ArgLists :
       /\ op' = [op EXCEPT ![c] = o]
       /\ args' = [args EXCEPT ![c] = l]
       /\ ongoing' = [ongoing EXCEPT ![c] =
            IF o \in {"wait", "terminate"}
            THEN {a \in AWGs : state[a] = "GEN_WAVE"} ELSE {}]
  /\ UNCHANGED <<deviceVars, lockHolder, pc, idx, phase, readVal, aborted,
                 fired, cancelled>>

EnterLock(c) ==
  /\ Active(c) /\ At(c).kind = "lock"
  /\ lockHolder = NoClient
  /\ lockHolder' = c
  /\ Advance(c, 1)
  /\ Unobserved(c)
  /\ UNCHANGED <<deviceVars, aborted>>

LeaveLock(c) ==
  /\ Active(c) /\ At(c).kind = "unlock"
  /\ lockHolder' = NoClient
  /\ Advance(c, 1)
  /\ Unobserved(c)
  /\ UNCHANGED <<deviceVars, aborted>>

(* write_bits: the read ... *)
ReadRegister(c) ==
  /\ Active(c) /\ At(c).kind \in {"target", "master", "own"}
  /\ phase[c] = "read"
  /\ phase' = [phase EXCEPT ![c] = "write"]
  /\ readVal' = [readVal EXCEPT ![c] =
       CASE At(c).kind = "target" -> targetSel
         [] At(c).kind = "master" -> masterCtrl
         [] At(c).kind = "own"    -> ctrl[Target(c)]]
  /\ UNCHANGED <<deviceVars, lockHolder, op, args, pc, idx, aborted, historyVars>>

(* ... and the write of the value with the one bit replaced. *)
Replaced(c, bit) ==
  IF At(c).val = 1 THEN readVal[c] \cup {bit} ELSE readVal[c] \ {bit}

WriteSelectBit(c) ==
  /\ Active(c) /\ At(c).kind = "target" /\ phase[c] = "write"
  /\ WriteTargetSel(Replaced(c, Target(c)))
  /\ NextAwg(c)
  /\ Unobserved(c)
  /\ UNCHANGED <<lockHolder, aborted>>

WriteMasterBit(c) ==
  /\ Active(c) /\ At(c).kind = "master" /\ phase[c] = "write"
  /\ WriteMasterCtrl(Replaced(c, At(c).bit))
  /\ Advance(c, 1)
  /\ Observe(c)
  /\ UNCHANGED <<lockHolder, aborted>>

WriteOwnBit(c) ==
  /\ Active(c) /\ At(c).kind = "own" /\ phase[c] = "write"
  /\ WriteCtrl(Target(c), Replaced(c, At(c).bit))
  /\ Advance(c, idx[c])
  /\ Observe(c)
  /\ UNCHANGED <<lockHolder, aborted>>

WriteZero(c) ==
  /\ Active(c) /\ At(c).kind = "zero"
  /\ WriteCtrl(Target(c), {})
  /\ NextAwg(c)
  /\ Observe(c)
  /\ UNCHANGED <<lockHolder, aborted>>

(* One STATUS read of a polling loop: as hoped for ... *)
PollSucceeds(c) ==
  /\ Active(c) /\ At(c).kind \in {"all", "one"}
  /\ Status(Target(c), At(c).bit) = (At(c).val = 1)
  /\ IF At(c).kind = "all" THEN NextAwg(c) ELSE Advance(c, idx[c])
  /\ Unobserved(c)
  /\ UNCHANGED <<deviceVars, lockHolder, aborted>>

(* ... or not: back to the first AWG, *)
PollFails(c) ==
  /\ Active(c) /\ At(c).kind \in {"all", "one"}
  /\ Status(Target(c), At(c).bit) # (At(c).val = 1)
  /\ Goto(c, pc[c], IF At(c).kind = "all" THEN 1 ELSE idx[c])
  /\ UNCHANGED <<deviceVars, lockHolder, aborted, historyVars>>

(* Mutant: acquire() and release() without `with`: an exception skips the  *)
(* release.                                                                *)
RaiseKeepingLock(c) ==
  /\ Return(c)
  /\ lockHolder' = lockHolder
  /\ aborted' = (aborted \/ lockHolder = c)
  /\ Forget(c)
  /\ UNCHANGED deviceVars

(* An exception leaves the method, and the lock block if it is in one. *)
Raise(c) ==
  /\ Return(c)
  /\ lockHolder' = IF lockHolder = c THEN NoClient ELSE lockHolder
  /\ aborted' = (aborted \/ lockHolder = c)
  /\ Forget(c)
  /\ UNCHANGED deviceVars

(* or the loop gives up, and raises AwgTimeoutError. *)
PollTimesOut(c) ==
  /\ Active(c) /\ At(c).kind \in {"all", "one"}
  /\ Status(Target(c), At(c).bit) # (At(c).val = 1)
  /\ Raise(c)

LoopAgain(c) ==
  /\ Active(c) /\ At(c).kind = "again"
  /\ IF idx[c] < Len(args[c]) THEN Goto(c, 1, idx[c] + 1) ELSE Return(c)
  /\ Unobserved(c)
  /\ UNCHANGED <<deviceVars, lockHolder, aborted>>

(* A register access fails, or the process dies.  A write whose reply is   *)
(* lost took effect: that is the write, and a failure after it.            *)
AccessFails(c) == Active(c) /\ Raise(c)

WaveEnds(a) ==
  /\ EndWave(a)
  /\ ongoing' = [d \in Clients |-> ongoing[d] \ {a}]
  /\ UNCHANGED <<lockHolder, clientVars, aborted, fired, cancelled>>

-----------------------------------------------------------------------------
Init ==
  /\ DeviceInit
  /\ lockHolder = NoClient
  /\ op = [c \in Clients |-> "none"]
  /\ args = [c \in Clients |-> <<>>]
  /\ pc = [c \in Clients |-> 1]
  /\ idx = [c \in Clients |-> 1]
  /\ phase = [c \in Clients |-> "read"]
  /\ readVal = [c \in Clients |-> {}]
  /\ aborted = FALSE
  /\ fired = [c \in Clients |-> {}]
  /\ cancelled = [c \in Clients |-> {}]
  /\ ongoing = [c \in Clients |-> {}]

(* A client runs its method to the end unless a poll times out. *)
Proceed(c) ==
  \/ LeaveLock(c) \/ ReadRegister(c) \/ WriteSelectBit(c) \/ WriteMasterBit(c)
  \/ WriteOwnBit(c) \/ WriteZero(c) \/ PollSucceeds(c) \/ LoopAgain(c)

ClientStep(c) ==
  Call(c) \/ EnterLock(c) \/ Proceed(c) \/ PollFails(c) \/ PollTimesOut(c)

Next ==
  \/ \E c \in Clients : ClientStep(c)
  \/ \E a \in AWGs : WaveEnds(a)

Spec == Init /\ [][Next]_vars

(* A client in a method goes on; a polling loop looks at the clock each    *)
(* time round and cannot go round for ever; a waiter gets a lock that is   *)
(* released again and again.  Waves need not end.                          *)
Fairness ==
  \A c \in Clients :
    WF_vars(Proceed(c)) /\ SF_vars(PollTimesOut(c)) /\ SF_vars(EnterLock(c))

FairSpec == Spec /\ Fairness

(* With register accesses that fail and clients that die. *)
FaultyNext == Next \/ \E c \in Clients : AccessFails(c)

FaultySpec == Init /\ [][FaultyNext]_vars

-----------------------------------------------------------------------------
ClientTypeOK ==
  /\ op \in [Clients -> OpNames \cup {"none"}]
  /\ args \in [Clients -> Seq(AWGs)]
  /\ pc \in [Clients -> Nat] /\ idx \in [Clients -> Nat]
  /\ phase \in [Clients -> {"read", "write"}]
  /\ readVal \in [Clients -> SUBSET (AWGs \cup CtrlBits)]
  /\ \A c \in Clients : Active(c) =>
       pc[c] \in 1..Len(Method(op[c])) /\ idx[c] \in 1..Len(args[c])

HistoryTypeOK ==
  /\ aborted \in BOOLEAN
  /\ fired \in [Clients -> SUBSET AWGs]
  /\ cancelled \in [Clients -> SUBSET AWGs]
  /\ ongoing \in [Clients -> SUBSET AWGs]

(* Every variable has its type, and a client in a method is at one of its  *)
(* steps and at one of its AWGs.                                           *)
TypeOK ==
  /\ DeviceTypeOK
  /\ lockHolder \in Clients \cup {NoClient}
  /\ ClientTypeOK
  /\ HistoryTypeOK

(* write_bits on the master registers is two requests; what the second one *)
(* writes back is still what the register holds, so no client undoes the   *)
(* selection or the control bits of another one.                           *)
NoLostUpdate ==
  \A c \in Clients : Active(c) /\ phase[c] = "write" =>
    /\ At(c).kind = "target" => readVal[c] = targetSel
    /\ At(c).kind = "master" => readVal[c] = masterCtrl

(* Between calls nothing is left behind: no AWG selected, no master CTRL   *)
(* bit up, no AWG armed for a START that nobody is about to give.  Only a  *)
(* call that ended by an exception can leave something.                    *)
CleanWhenFree ==
  lockHolder = NoClient /\ ~aborted =>
    /\ targetSel = {} /\ masterCtrl = {}
    /\ \A a \in AWGs : state[a] # "READY"

(* start_awgs (awgctrl.py:120): it starts the AWGs it was given ...        *)
StartsOnlyListed ==
  \A c \in Clients : op[c] = "start" => fired[c] \subseteq Listed(c)

(* ... and no others, as long as no earlier call of anyone was cut short   *)
(* inside its lock block.                                                  *)
StartsOnlyListedUnlessAborted == ~aborted => StartsOnlyListed

(* Once start_awgs has pulsed START, each AWG it was given has started,    *)
(* unless a terminate_awgs of another client took it out of READY: a call  *)
(* that returns has not missed one because of the bits that earlier        *)
(* failed calls left in the registers.                                     *)
StartDelivers ==
  \A c \in Clients :
    op[c] = "start" /\ (\E i \in 1..(pc[c] - 1) : StartAwgs[i] = Master("START", 1))
      => Listed(c) \subseteq fired[c] \cup cancelled[c]

(* wait_for_awgs_to_stop and terminate_awgs return only when each wave     *)
(* that was under way on their AWGs when they were called has ended: no    *)
(* stop flag of an earlier wave is taken for its end.                      *)
WaitsForWaves ==
  [][\A c \in Clients :
       (PollSucceeds(c) \/ LoopAgain(c)) /\ Active(c) /\ ~Active(c)'
         => Listed(c) \cap ongoing[c] = {}]_vars

(* Every call returns or raises: no wait is endless, and no client keeps   *)
(* the lock.                                                               *)
CallsReturn == \A c \in Clients : Active(c) ~> ~Active(c)
=============================================================================
