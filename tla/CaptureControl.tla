--------------------------- MODULE CaptureControl ---------------------------
(***************************************************************************)
(* e7awgsw/capturectrl.py: CaptureCtrl objects of several client processes *)
(* on the capture units of one device.  An operation is the list of the    *)
(* register accesses its method makes, its loops unrolled; a bit of a      *)
(* register is changed by two requests, a read and a write (RegAccess.     *)
(* write_bits), and other clients can act between any two.                 *)
(*                                                                         *)
(* The lock is the Mutex that ReentrantFileLock implements; inner blocks   *)
(* of the same client do not show.  An access that fails and a client that *)
(* dies end the call where it is: the lock is released and the registers   *)
(* stay as they are.                                                       *)
(*                                                                         *)
(* Left out: capture parameters (those that initialize writes at its end   *)
(* included), the memory the samples are read from, and the calls that     *)
(* only read: their polling loops are the ones of AwgControl.              *)
(***************************************************************************)
EXTENDS CaptureDevice, Naturals, Sequences

CONSTANTS
  Clients,      (* processes with a CaptureCtrl on the device              *)
  Calls,        (* the calls each makes: operation and arguments           *)
  AllUnits,     (* CaptureUnit.all()                                       *)
  UnitToModule, (* the modules of the units after power-on                 *)
  NoClient      (* nobody has the lock                                     *)

OpNames == {"start", "reset", "clear", "enable", "disable", "initialize",
            "trigger", "construct", "modules"}

ASSUME CaptureControlAssumption ==
  /\ DOMAIN Calls = Clients
  /\ \A c \in Clients : \A x \in Calls[c] :
       /\ x.op \in OpNames /\ x.units \in Seq(Units)
       /\ x.module \in Modules \cup {None} /\ x.awg \in AWGs \cup {None}
  /\ AllUnits \in Seq(Units) /\ \A u \in Units : \E i \in DOMAIN AllUnits : AllUnits[i] = u
  /\ UnitToModule \in [Units -> Modules]
  /\ None \notin Modules \cup AWGs /\ NoClient \notin Clients

VARIABLES
  lockHolder,   (* client inside a `with self.__flock` block               *)
  call,         (* the call each client is in, or NoCall                   *)
  pc,           (* the step of it that comes next; 1 between calls         *)
  readVal,      (* what write_bits has read, if it is between its two      *)
                (* requests: a sequence of one register value, or of none  *)
  got,          (* the CAP_MOD_SEL values it has read                      *)
  (* history, for the properties only *)
  aborted,      (* did a call end by an exception inside its lock block?   *)
  armed,        (* units of the calls of enable_start_trigger that ended,  *)
                (* less those of disable_start_trigger                     *)
  wanted        (* units of each module, by the calls of                   *)
                (* construct_capture_module that ended                     *)

historyVars == <<armed, wanted>>
vars == <<deviceVars, lockHolder, call, pc, readVal, got, aborted, historyVars>>

NoCall == [op |-> "none", units |-> <<>>, module |-> None, awg |-> None]

Elements(list) == {list[i] : i \in DOMAIN list}

-----------------------------------------------------------------------------
(* The methods. *)

Step(kind, at, val) == [kind |-> kind, at |-> at, val |-> val]

Lock         == Step("lock", None, None)
Unlock(what) == Step("unlock", what, None)  \* what: what the block was for
Select(u, v) == Step("sel", u, v)           \* write_bits on CTRL_TARGET_SEL,
Mask(u, v)   == Step("mask", u, v)          \* on AWG_TRIG_MASK,
Ctrl(bit, v) == Step("ctrl", bit, v)        \* on the master CTRL
ZeroCtrl(u)  == Step("zero", u, 0)          \* write 0 to CTRL of a unit
Trigger(m, a) == Step("trigger", m, a)      \* write CAP_MOD_TRIG_SEL
ReadModule(u) == Step("read", u, None)      \* read CAP_MOD_SEL
Leave(u, m)  == Step("leave", u, m)         \* if u was in m: write 0 to it
Assign(u, m) == Step("assign", u, m)        \* write CAP_MOD_SEL

ForEach(list, Body(_)) == [i \in DOMAIN list |-> Body(list[i])]

SelectAll(l)   == ForEach(l, LAMBDA u : Select(u, 1))
DeselectAll(l) == ForEach(l, LAMBDA u : Select(u, 0))
MaskAll(l, v)  == ForEach(l, LAMBDA u : Mask(u, v))

(* Mutant: START is raised without being lowered first. *)
StartCaptureUnitsNoFallingEdge(l) ==
  <<Lock>> \o SelectAll(l) \o <<Ctrl("START", 1), Ctrl("START", 0)>>
  \o DeselectAll(l) \o <<Unlock("")>>

StartCaptureUnits(l) ==
  <<Lock>> \o SelectAll(l)
  \o <<Ctrl("START", 0), Ctrl("START", 1), Ctrl("START", 0)>>
  \o DeselectAll(l) \o <<Unlock("")>>

ResetCaptureUnits(l) ==
  <<Lock>> \o SelectAll(l) \o <<Ctrl("RESET", 1), Ctrl("RESET", 0)>>
  \o DeselectAll(l) \o <<Unlock("")>>

ClearCaptureStopFlags(l) ==
  <<Lock>> \o SelectAll(l)
  \o <<Ctrl("DONE_CLR", 0), Ctrl("DONE_CLR", 1), Ctrl("DONE_CLR", 0)>>
  \o DeselectAll(l) \o <<Unlock("")>>

EnableStartTrigger(l) ==
  <<Lock>> \o MaskAll(l, 1) \o <<Unlock("enable")>>

DisableStartTrigger(l) ==
  <<Lock>> \o MaskAll(l, 0) \o <<Unlock("disable")>>

(* Mutant: the selection is cleared without the lock. *)
InitializeUnlocked(l) ==
  DisableStartTrigger(l) \o DeselectAll(l)
  \o ForEach(l, LAMBDA u : ZeroCtrl(u))
  \o ResetCaptureUnits(l)

Initialize(l) ==
  DisableStartTrigger(l)
  \o <<Lock>> \o DeselectAll(l) \o <<Unlock("")>>
  \o ForEach(l, LAMBDA u : ZeroCtrl(u))
  \o ResetCaptureUnits(l)

SelectTriggerAwg(m, a) == <<Lock, Trigger(m, a), Unlock("")>>

ReadModules == ForEach(AllUnits, LAMBDA u : ReadModule(u))

(* The units that were read to be in m go to none, one by one. *)
ClearModule(m) == ReadModules \o ForEach(AllUnits, LAMBDA u : Leave(u, m))

(* Mutant: the units the module had stay in it. *)
ConstructCaptureModuleKeeping(m, l) ==
  <<Lock>> \o ForEach(l, LAMBDA u : Assign(u, m)) \o <<Unlock("construct")>>

ConstructCaptureModule(m, l) ==
  <<Lock>> \o ClearModule(m)
  \o ForEach(l, LAMBDA u : Assign(u, m)) \o <<Unlock("construct")>>

GetUnitToModule == <<Lock>> \o ReadModules \o <<Unlock("modules")>>

Method(x) ==
  CASE x.op = "start"      -> StartCaptureUnits(x.units)
    [] x.op = "reset"      -> ResetCaptureUnits(x.units)
    [] x.op = "clear"      -> ClearCaptureStopFlags(x.units)
    [] x.op = "enable"     -> EnableStartTrigger(x.units)
    [] x.op = "disable"    -> DisableStartTrigger(x.units)
    [] x.op = "initialize" -> Initialize(x.units)
    [] x.op = "trigger"    -> SelectTriggerAwg(x.module, x.awg)
    [] x.op = "construct"  -> ConstructCaptureModule(x.module, x.units)
    [] x.op = "modules"    -> GetUnitToModule

-----------------------------------------------------------------------------
(* The steps of a client. *)

Active(c) == call[c] # NoCall

(* The steps of the call a client is in, and the one it is at. *)
AllCalls == UNION {Calls[c] : c \in Clients}

Methods == [x \in AllCalls |-> Method(x)]

Steps(c) == Methods[call[c]]

Now(c) == Steps(c)[pc[c]]

At(c, kind) == Active(c) /\ Now(c).kind = kind

Return(c) ==
  /\ call' = [call EXCEPT ![c] = NoCall]
  /\ pc' = [pc EXCEPT ![c] = 1]
  /\ readVal' = [readVal EXCEPT ![c] = <<>>]
  /\ got' = [got EXCEPT ![c] = <<>>]

(* On to the next step, with the modules read so far; after the last one   *)
(* the call returns.                                                       *)
Advance(c, modules) ==
  IF pc[c] = Len(Steps(c)) THEN Return(c)
  ELSE /\ pc' = [pc EXCEPT ![c] = @ + 1]
       /\ readVal' = [readVal EXCEPT ![c] = <<>>]
       /\ got' = [got EXCEPT ![c] = modules]
       /\ UNCHANGED call

(* A call of a public method. *)
Call(c) ==
  /\ ~Active(c)
  /\ \E x \in Calls[c] : call' = [call EXCEPT ![c] = x]
  /\ UNCHANGED <<deviceVars, lockHolder, pc, readVal, got, aborted, historyVars>>

(* Mutant: clients that name the device in different ways, localhost and   *)
(* 127.0.0.1, have different lock files.                                   *)
EnterLockOfOwnFile(c) ==
  /\ At(c, "lock")
  /\ lockHolder' = c
  /\ Advance(c, got[c])
  /\ UNCHANGED <<deviceVars, aborted, historyVars>>

EnterLock(c) ==
  /\ At(c, "lock")
  /\ lockHolder = NoClient
  /\ lockHolder' = c
  /\ Advance(c, got[c])
  /\ UNCHANGED <<deviceVars, aborted, historyVars>>

(* What the block has promised its caller, for the properties.  Nothing is *)
(* promised any more once a call was cut short.                            *)
Promise(what, x) ==
  LET units == Elements(x.units) IN
  /\ armed' = CASE what = "enable" /\ ~aborted  -> armed \cup units
                [] what = "disable" /\ ~aborted -> armed \ units
                [] OTHER                        -> armed
  /\ wanted' = IF what # "construct" \/ aborted THEN wanted
               ELSE [m \in Modules |->
                      IF m = x.module THEN units ELSE wanted[m] \ units]

Retract ==
  /\ aborted' = TRUE
  /\ armed' = {} /\ wanted' = [m \in Modules |-> {}]

LeaveLock(c) ==
  /\ At(c, "unlock")
  /\ lockHolder' = NoClient
  /\ Promise(Now(c).at, call[c])
  /\ Advance(c, <<>>)
  /\ UNCHANGED <<deviceVars, aborted>>

(* write_bits: the read ... *)
ReadRegister(c) ==
  /\ At(c, "sel") \/ At(c, "mask") \/ At(c, "ctrl")
  /\ readVal[c] = <<>>
  /\ readVal' = [readVal EXCEPT ![c] =
       <<CASE At(c, "sel")  -> targetSel
           [] At(c, "mask") -> trigMask
           [] At(c, "ctrl") -> masterCtrl>>]
  /\ UNCHANGED <<deviceVars, lockHolder, call, pc, got, aborted, historyVars>>

(* ... and the write of what was read, with the one bit replaced. *)
Replaced(c) ==
  IF Now(c).val = 1 THEN Head(readVal[c]) \cup {Now(c).at}
                           ELSE Head(readVal[c]) \ {Now(c).at}

WriteRegister(c) ==
  /\ readVal[c] # <<>>
  /\ \/ At(c, "sel") /\ WriteTargetSel(Replaced(c))
     \/ At(c, "mask") /\ WriteTrigMask(Replaced(c))
     \/ At(c, "ctrl") /\ WriteMasterCtrl(Replaced(c))
  /\ Advance(c, got[c])
  /\ UNCHANGED <<lockHolder, aborted, historyVars>>

WriteZero(c) ==
  /\ At(c, "zero")
  /\ WriteCtrl(Now(c).at, {})
  /\ Advance(c, got[c])
  /\ UNCHANGED <<lockHolder, aborted, historyVars>>

WriteTrigger(c) ==
  /\ At(c, "trigger")
  /\ WriteTrigSel(Now(c).at, Now(c).val)
  /\ Advance(c, got[c])
  /\ UNCHANGED <<lockHolder, aborted, historyVars>>

ReadModuleOfUnit(c) ==
  /\ At(c, "read")
  /\ Advance(c, Append(got[c], modSel[Now(c).at]))
  /\ UNCHANGED <<deviceVars, lockHolder, aborted, historyVars>>

LeaveModule(c) ==
  /\ At(c, "leave")
  /\ IF \E i \in DOMAIN AllUnits : AllUnits[i] = Now(c).at /\ got[c][i] = Now(c).val
     THEN WriteModSel(Now(c).at, None)
     ELSE UNCHANGED deviceVars
  /\ Advance(c, got[c])
  /\ UNCHANGED <<lockHolder, aborted, historyVars>>

AssignModule(c) ==
  /\ At(c, "assign")
  /\ WriteModSel(Now(c).at, Now(c).val)
  /\ Advance(c, got[c])
  /\ UNCHANGED <<lockHolder, aborted, historyVars>>

(* A register access fails, or the process dies. *)
AccessFails(c) ==
  /\ Active(c)
  /\ Return(c)
  /\ lockHolder' = IF lockHolder = c THEN NoClient ELSE lockHolder
  /\ IF lockHolder = c THEN Retract ELSE UNCHANGED <<aborted, historyVars>>
  /\ UNCHANGED deviceVars

-----------------------------------------------------------------------------
(* The device, by itself. *)

ClientsUnchanged ==
  UNCHANGED <<lockHolder, call, pc, readVal, got, aborted, historyVars>>

WaveGenerated(a) == OnWaveGenerated({a}) /\ ClientsUnchanged

CaptureEnds(u) == EndCapture(u) /\ ClientsUnchanged

-----------------------------------------------------------------------------
Init ==
  /\ DeviceInit(UnitToModule)
  /\ lockHolder = NoClient
  /\ call = [c \in Clients |-> NoCall]
  /\ pc = [c \in Clients |-> 1]
  /\ readVal = [c \in Clients |-> <<>>]
  /\ got = [c \in Clients |-> <<>>]
  /\ aborted = FALSE
  /\ armed = {}
  /\ wanted = [m \in Modules |-> {u \in Units : UnitToModule[u] = m}]

ClientStep(c) ==
  \/ Call(c) \/ EnterLock(c) \/ LeaveLock(c)
  \/ ReadRegister(c) \/ WriteRegister(c) \/ WriteZero(c) \/ WriteTrigger(c)
  \/ ReadModuleOfUnit(c) \/ LeaveModule(c) \/ AssignModule(c)
  \/ AccessFails(c)

Next ==
  \/ \E c \in Clients : ClientStep(c)
  \/ \E a \in AWGs : WaveGenerated(a)
  \/ \E u \in Units : CaptureEnds(u)

Spec == Init /\ [][Next]_vars

-----------------------------------------------------------------------------
(* A client in a call is at a step of its method; one between calls is     *)
(* ready for the next.                                                     *)
AtSomeStep(c) ==
  /\ call[c] \in Calls[c] \cup {NoCall}
  /\ IF Active(c) THEN pc[c] \in 1..Len(Steps(c))
     ELSE pc[c] = 1 /\ readVal[c] = <<>> /\ got[c] = <<>>

RegisterValues == (SUBSET Units) \cup (SUBSET CtrlBits)

(* Every variable has its type. *)
ClientTypeOK ==
  /\ call \in [Clients -> AllCalls \cup {NoCall}]
  /\ pc \in [Clients -> Nat]
  /\ readVal \in [Clients -> Seq(RegisterValues)]
  /\ got \in [Clients -> Seq(Modules \cup {None})]
  /\ \A c \in Clients : AtSomeStep(c)

TypeOK ==
  /\ DeviceTypeOK
  /\ ClientTypeOK
  /\ lockHolder \in Clients \cup {NoClient}
  /\ aborted \in BOOLEAN /\ armed \subseteq Units
  /\ wanted \in [Modules -> SUBSET Units]

AllAsPromised == lockHolder = NoClient /\ ~aborted

(* Between calls nothing is left behind: no unit is selected and no bit of *)
(* the master CTRL is up.  Only a call that was cut short inside its lock  *)
(* block can leave something.                                              *)
CleanWhenFree == AllAsPromised => targetSel = {} /\ masterCtrl = {}

(* The units that the wave of an AWG starts are those that                 *)
(* enable_start_trigger was called for and disable_start_trigger or        *)
(* initialize was not called for since: the one register they all share    *)
(* loses no bit of any client.                                             *)
MaskAsAsked == AllAsPromised => trigMask = armed

(* construct_capture_module (capturectrl.py:298): a module has the units   *)
(* of the last call for it and no others, but for those a later call has   *)
(* put into another module.                                                *)
ModulesAsConstructed ==
  AllAsPromised => \A m \in Modules : {u \in Units : modSel[u] = m} = wanted[m]

(* get_unit_to_module returns modules as some calls of                     *)
(* construct_capture_module have left them, never half of one.             *)
ModulesReadWhole ==
  [][\A c \in Clients :
       LeaveLock(c) /\ call[c].op = "modules" /\ ~aborted =>
         \A m \in Modules :
           {AllUnits[i] : i \in {j \in DOMAIN AllUnits : got[c][j] = m}} = wanted[m]]_vars

(* start_capture_units: the write that raises START starts each unit of    *)
(* the call that can start, whatever calls that were cut short have left   *)
(* in the registers, and no other unit unless one was cut short.           *)
StartsListed ==
  [][\A c \in Clients :
       WriteRegister(c) /\ Now(c) = Ctrl("START", 1) =>
         \A u \in Units :
           /\ u \in Elements(call[c].units) /\ CanStart(state[u])
                => state'[u] = "CAPTURE_WAVE"
           /\ u \notin Elements(call[c].units) /\ ~aborted => state'[u] = state[u]]_vars

(* From the registers of two operations to the capture: while nobody is    *)
(* changing them, the wave of an AWG starts the units whose trigger is     *)
(* enabled, in the modules that were given that AWG, and no others.        *)
WaveStartsAsked ==
  [][\A a \in AWGs, u \in Units :
       WaveGenerated(a) /\ AllAsPromised /\ CanStart(state[u]) =>
         (state'[u] = "CAPTURE_WAVE"
            <=> u \in armed /\ \E m \in Modules : u \in wanted[m] /\ trigSel[m] = a)]_vars
=============================================================================
