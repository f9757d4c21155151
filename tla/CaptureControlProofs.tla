------------------------ MODULE CaptureControlProofs ------------------------
(***************************************************************************)
(* For any number of clients, units, modules and AWGs, any lists of units, *)
(* and register accesses that fail anywhere: what the methods of           *)
(* capturectrl.py leave in the registers they share, and what a start and  *)
(* a wave do with it.                                                      *)
(*                                                                         *)
(* A method is a list of steps with blocks between a lock and its unlock.  *)
(* MethodFits says, for the list alone, what each block must have, and     *)
(* MethodsFit proves it of every method.  The invariant says what the      *)
(* registers hold at each step of the block of the client that has the     *)
(* lock, by what the block has behind and ahead of it; its proof needs of  *)
(* the methods nothing but MethodFits.                                     *)
(***************************************************************************)
EXTENDS CaptureControl, Integers, TLAPS

-----------------------------------------------------------------------------
(* The blocks of a method M: the positions of a lock and of the unlock     *)
(* that ends it.  A client holds the lock exactly inside a block.          *)
Brackets == {"lock", "unlock"}

BlockOf(M, a, b) ==
  /\ a \in 1..Len(M) /\ b \in 1..Len(M) /\ a < b
  /\ M[a].kind = "lock" /\ M[b].kind = "unlock"
  /\ \A i \in a+1..b-1 : M[i].kind \notin Brackets

Is(s, kind, at, val) == s.kind = kind /\ s.at = at /\ s.val = val

(* A step that the block still has ahead, at k or later. *)
Ahead(M, k, b, kind, at, val) == \E j \in k..b-1 : Is(M[j], kind, at, val)

SomeAhead(M, k, b, kinds) == \E j \in k..b-1 : M[j].kind \in kinds

(* A step the block has made before k, with none of the opposite since. *)
Behind(M, a, k, kind, at, val) ==
  \E j \in a+1..k-1 :
    /\ Is(M[j], kind, at, val)
    /\ \A i \in j+1..k-1 : M[i].kind = kind /\ M[i].at = at => M[i].val = val

(* The value a call of enable_start_trigger, disable_start_trigger gives   *)
(* the bits of its units.                                                  *)
MaskVal(what) == IF what = "enable" THEN 1 ELSE 0

(* What makes a block of the call x right, step by step: ... *)
SelFits(M, a, b) ==
  \A k \in a+1..b-1 :
    /\ M[k].kind = "sel" =>
         /\ M[k].at \in Units /\ M[k].val \in {0, 1}
         /\ M[k].val = 1 => Ahead(M, k+1, b, "sel", M[k].at, 0)
    /\ M[k].kind = "ctrl" =>
         /\ M[k].at \in CtrlBits /\ M[k].val \in {0, 1}
         /\ M[k].val = 1 => Ahead(M, k+1, b, "ctrl", M[k].at, 0)

StartFits(M, a, b, x) ==
  \A k \in a+1..b-1 : Is(M[k], "ctrl", "START", 1) =>
    /\ Behind(M, a, k, "ctrl", "START", 0)
    /\ \A u \in Elements(x.units) : Behind(M, a, k, "sel", u, 1)
    /\ \A u \in Units : Ahead(M, k, b, "sel", u, 0) => u \in Elements(x.units)

MaskFits(M, a, b, x) ==
  /\ \A k \in a+1..b-1 : M[k].kind = "mask" =>
       /\ M[k].at \in Elements(x.units)
       /\ M[b].at \in {"enable", "disable"} /\ M[k].val = MaskVal(M[b].at)
  /\ M[b].at \in {"enable", "disable"} =>
       \A u \in Elements(x.units) : Ahead(M, a+1, b, "mask", u, MaskVal(M[b].at))

ModuleFits(M, a, b, x) ==
  /\ \A k \in a+1..b-1 :
       /\ M[k].kind = "assign" =>
            /\ M[b].at = "construct" /\ M[k].at \in Elements(x.units) /\ M[k].val = x.module
            /\ ~SomeAhead(M, k+1, b, {"read", "leave"})
       /\ M[k].kind = "leave" =>
            /\ M[b].at = "construct" /\ M[k].at \in Units /\ M[k].val = x.module
            /\ ~SomeAhead(M, k+1, b, {"read"})
  /\ M[b].at = "construct" =>
       /\ \A u \in Elements(x.units) : Ahead(M, a+1, b, "assign", u, x.module)
       /\ \A u \in Units : Ahead(M, a+1, b, "leave", u, x.module)

ReadFits(M, a, b, x) ==
  /\ x.op = "modules" => M[b].at = "modules"
  /\ \A k \in a+1..b-1 : M[k].kind = "read" => k - a \in 1..Len(AllUnits)
  /\ SomeAhead(M, a+1, b, {"read", "leave"}) \/ M[b].at = "modules" =>
       \A i \in 1..Len(AllUnits) : a + i < b /\ M[a+i].kind = "read" /\ M[a+i].at = AllUnits[i]

TriggerFits(M, a, b) ==
  \A k \in a+1..b-1 : M[k].kind = "trigger" => M[k].val \in AWGs \cup {None}

BlockFits(M, a, b, x) ==
  /\ SelFits(M, a, b) /\ StartFits(M, a, b, x) /\ MaskFits(M, a, b, x)
  /\ ModuleFits(M, a, b, x) /\ ReadFits(M, a, b, x) /\ TriggerFits(M, a, b)

(* ... and a method: every register but CTRL of a unit is changed inside a *)
(* block.                                                                  *)
InsideKinds == {"sel", "mask", "ctrl", "trigger", "read", "leave", "assign"}

MethodFits(M, x) ==
  /\ Len(M) \in Nat /\ Len(M) > 0
  /\ \A k \in 1..Len(M) :
       /\ M[k].kind \in Brackets \cup InsideKinds \cup {"zero"}
       /\ M[k].kind = "lock" => \E b \in 1..Len(M) : BlockOf(M, k, b)
       /\ M[k].kind = "unlock" => \E a \in 1..Len(M) : BlockOf(M, a, k)
       /\ M[k].kind \in InsideKinds => \E a, b \in 1..Len(M) : BlockOf(M, a, b) /\ a < k /\ k < b
  /\ \A a, b \in 1..Len(M) : BlockOf(M, a, b) => BlockFits(M, a, b, x)

-----------------------------------------------------------------------------
(* The lists of steps a method is put together from. *)
StepKinds == Brackets \cup InsideKinds \cup {"zero"}

(* What a block can be for; the last one: nothing it has promised. *)
Labels == {"enable", "disable", "construct", "modules", ""}

StepType ==
  [kind : StepKinds,
   at   : Units \cup CtrlBits \cup Modules \cup {None} \cup Labels,
   val  : {0, 1, None} \cup Modules \cup AWGs]

(* A step of a kind on a unit. *)
LEMMA StepOnUnit ==
  ASSUME NEW kind \in StepKinds, NEW u \in Units,
         NEW val \in {0, 1, None} \cup Modules \cup AWGs
  PROVE  Step(kind, u, val) \in StepType
BY DEF Step, StepType

(* The entries of a function on 1..n are a sequence. *)
LEMMA FunctionIsSeq ==
  ASSUME NEW S, NEW n \in Nat, NEW f \in [1..n -> S]
  PROVE  f \in Seq(S) /\ Len(f) = n
OBVIOUS

(* What a loop over a list of units becomes: a step for each unit. *)
UnrolledTo(list, s, kind, val) ==
  /\ s \in Seq(StepType) /\ Len(s) = Len(list)
  /\ \A i \in 1..Len(list) : s[i] = Step(kind, list[i], val)

(* __select_ctrl_target, ... *)
LEMMA SelectAllSteps ==
  ASSUME NEW l \in Seq(Units)
  PROVE  UnrolledTo(l, SelectAll(l), "sel", 1)
<1> DEFINE f == [i \in 1..Len(l) |-> Step("sel", l[i], 1)]
<1>1. DOMAIN l = 1..Len(l) /\ Len(l) \in Nat OBVIOUS
<1>2. SelectAll(l) = f BY <1>1 DEF SelectAll, ForEach, Select
<1>3. f \in [1..Len(l) -> StepType]
  <2>1. ASSUME NEW i \in 1..Len(l) PROVE Step("sel", l[i], 1) \in StepType
    <3>1. l[i] \in Units BY <1>1
    <3>2. "sel" \in StepKinds BY DEF StepKinds, InsideKinds, Brackets
    <3>3. QED BY <3>1, <3>2, StepOnUnit
  <2>2. QED BY <2>1, Zenon
<1>4. f \in Seq(StepType) /\ Len(f) = Len(l) BY <1>1, <1>3, FunctionIsSeq
<1>5. \A i \in 1..Len(l) : f[i] = Step("sel", l[i], 1) OBVIOUS
<1>6. QED BY <1>2, <1>4, <1>5 DEF UnrolledTo

(* ... __deselect_ctrl_target, ... *)
LEMMA DeselectAllSteps ==
  ASSUME NEW l \in Seq(Units)
  PROVE  UnrolledTo(l, DeselectAll(l), "sel", 0)
<1> DEFINE f == [i \in 1..Len(l) |-> Step("sel", l[i], 0)]
<1>1. DOMAIN l = 1..Len(l) /\ Len(l) \in Nat OBVIOUS
<1>2. DeselectAll(l) = f BY <1>1 DEF DeselectAll, ForEach, Select
<1>3. f \in [1..Len(l) -> StepType]
  <2>1. ASSUME NEW i \in 1..Len(l) PROVE Step("sel", l[i], 0) \in StepType
    <3>1. l[i] \in Units BY <1>1
    <3>2. "sel" \in StepKinds BY DEF StepKinds, InsideKinds, Brackets
    <3>3. QED BY <3>1, <3>2, StepOnUnit
  <2>2. QED BY <2>1, Zenon
<1>4. f \in Seq(StepType) /\ Len(f) = Len(l) BY <1>1, <1>3, FunctionIsSeq
<1>5. \A i \in 1..Len(l) : f[i] = Step("sel", l[i], 0) OBVIOUS
<1>6. QED BY <1>2, <1>4, <1>5 DEF UnrolledTo

(* ... the loops of enable_start_trigger and disable_start_trigger, ... *)
LEMMA MaskSteps ==
  ASSUME NEW l \in Seq(Units), NEW v \in {0, 1}
  PROVE  UnrolledTo(l, MaskAll(l, v), "mask", v)
<1> DEFINE f == [i \in 1..Len(l) |-> Step("mask", l[i], v)]
<1>1. DOMAIN l = 1..Len(l) /\ Len(l) \in Nat OBVIOUS
<1>2. MaskAll(l, v) = f BY <1>1 DEF MaskAll, ForEach, Mask
<1>3. f \in [1..Len(l) -> StepType]
  <2>1. ASSUME NEW i \in 1..Len(l) PROVE Step("mask", l[i], v) \in StepType
    <3>1. l[i] \in Units BY <1>1
    <3>2. "mask" \in StepKinds BY DEF StepKinds, InsideKinds, Brackets
    <3>3. QED BY <3>1, <3>2, StepOnUnit
  <2>2. QED BY <2>1, Zenon
<1>4. f \in Seq(StepType) /\ Len(f) = Len(l) BY <1>1, <1>3, FunctionIsSeq
<1>5. \A i \in 1..Len(l) : f[i] = Step("mask", l[i], v) OBVIOUS
<1>6. QED BY <1>2, <1>4, <1>5 DEF UnrolledTo

(* ... of initialize, ... *)
LEMMA ZeroSteps ==
  ASSUME NEW l \in Seq(Units)
  PROVE  UnrolledTo(l, ForEach(l, LAMBDA u : ZeroCtrl(u)), "zero", 0)
<1> DEFINE f == [i \in 1..Len(l) |-> Step("zero", l[i], 0)]
<1>1. DOMAIN l = 1..Len(l) /\ Len(l) \in Nat OBVIOUS
<1>2. ForEach(l, LAMBDA u : ZeroCtrl(u)) = f BY <1>1 DEF ForEach, ZeroCtrl
<1>3. f \in [1..Len(l) -> StepType]
  <2>1. ASSUME NEW i \in 1..Len(l) PROVE Step("zero", l[i], 0) \in StepType
    <3>1. l[i] \in Units BY <1>1
    <3>2. "zero" \in StepKinds BY DEF StepKinds, InsideKinds, Brackets
    <3>3. QED BY <3>1, <3>2, StepOnUnit
  <2>2. QED BY <2>1, Zenon
<1>4. f \in Seq(StepType) /\ Len(f) = Len(l) BY <1>1, <1>3, FunctionIsSeq
<1>5. \A i \in 1..Len(l) : f[i] = Step("zero", l[i], 0) OBVIOUS
<1>6. QED BY <1>2, <1>4, <1>5 DEF UnrolledTo

(* ... of construct_capture_module, ... *)
LEMMA AssignSteps ==
  ASSUME NEW l \in Seq(Units), NEW m \in Modules \cup {None}
  PROVE  UnrolledTo(l, ForEach(l, LAMBDA u : Assign(u, m)), "assign", m)
<1> DEFINE f == [i \in 1..Len(l) |-> Step("assign", l[i], m)]
<1>1. DOMAIN l = 1..Len(l) /\ Len(l) \in Nat OBVIOUS
<1>2. ForEach(l, LAMBDA u : Assign(u, m)) = f BY <1>1 DEF ForEach, Assign
<1>3. f \in [1..Len(l) -> StepType]
  <2>1. ASSUME NEW i \in 1..Len(l) PROVE Step("assign", l[i], m) \in StepType
    <3>1. l[i] \in Units BY <1>1
    <3>2. "assign" \in StepKinds BY DEF StepKinds, InsideKinds, Brackets
    <3>3. QED BY <3>1, <3>2, StepOnUnit
  <2>2. QED BY <2>1, Zenon
<1>4. f \in Seq(StepType) /\ Len(f) = Len(l) BY <1>1, <1>3, FunctionIsSeq
<1>5. \A i \in 1..Len(l) : f[i] = Step("assign", l[i], m) OBVIOUS
<1>6. QED BY <1>2, <1>4, <1>5 DEF UnrolledTo

(* ... of get_unit_to_module ... *)
LEMMA ReadSteps ==
  ASSUME TRUE
  PROVE  UnrolledTo(AllUnits, ReadModules, "read", None)
<1> DEFINE f == [i \in 1..Len(AllUnits) |-> Step("read", AllUnits[i], None)]
<1>1. DOMAIN AllUnits = 1..Len(AllUnits) /\ Len(AllUnits) \in Nat BY CaptureControlAssumption
<1>2. ReadModules = f BY <1>1 DEF ReadModules, ForEach, ReadModule
<1>3. f \in [1..Len(AllUnits) -> StepType]
  <2>1. ASSUME NEW i \in 1..Len(AllUnits) PROVE Step("read", AllUnits[i], None) \in StepType
    <3>1. AllUnits[i] \in Units BY <1>1, CaptureControlAssumption
    <3>2. "read" \in StepKinds BY DEF StepKinds, InsideKinds, Brackets
    <3>3. QED BY <3>1, <3>2, StepOnUnit
  <2>2. QED BY <2>1, Zenon
<1>4. f \in Seq(StepType) /\ Len(f) = Len(AllUnits) BY <1>1, <1>3, FunctionIsSeq
<1>5. \A i \in 1..Len(AllUnits) : f[i] = Step("read", AllUnits[i], None) OBVIOUS
<1>6. QED BY <1>2, <1>4, <1>5 DEF UnrolledTo

(* ... and of __clear_capture_module. *)
LEMMA LeaveSteps ==
  ASSUME NEW m \in Modules \cup {None}
  PROVE  UnrolledTo(AllUnits, ForEach(AllUnits, LAMBDA u : Leave(u, m)), "leave", m)
<1> DEFINE f == [i \in 1..Len(AllUnits) |-> Step("leave", AllUnits[i], m)]
<1>1. DOMAIN AllUnits = 1..Len(AllUnits) /\ Len(AllUnits) \in Nat BY CaptureControlAssumption
<1>2. ForEach(AllUnits, LAMBDA u : Leave(u, m)) = f BY <1>1 DEF ForEach, Leave
<1>3. f \in [1..Len(AllUnits) -> StepType]
  <2>1. ASSUME NEW i \in 1..Len(AllUnits) PROVE Step("leave", AllUnits[i], m) \in StepType
    <3>1. AllUnits[i] \in Units BY <1>1, CaptureControlAssumption
    <3>2. "leave" \in StepKinds BY DEF StepKinds, InsideKinds, Brackets
    <3>3. QED BY <3>1, <3>2, StepOnUnit
  <2>2. QED BY <2>1, Zenon
<1>4. f \in Seq(StepType) /\ Len(f) = Len(AllUnits) BY <1>1, <1>3, FunctionIsSeq
<1>5. \A i \in 1..Len(AllUnits) : f[i] = Step("leave", AllUnits[i], m) OBVIOUS
<1>6. QED BY <1>2, <1>4, <1>5 DEF UnrolledTo

-----------------------------------------------------------------------------
(* The blocks, at any place in a method.  A block that sets bits of the    *)
(* master CTRL with the units of l selected: start_capture_units,          *)
(* reset_capture_units and clear_capture_stop_flags.                       *)
Enclosed(M, a, b, what) ==
  /\ Len(M) \in Nat /\ a \in Nat /\ b \in Nat
  /\ 0 < a /\ a < b /\ b <= Len(M)
  /\ M[a] = Lock /\ M[b] = Unlock(what)

(* What such a block begins and ends with.                                 *)
LEMMA EnclosedBy ==
  ASSUME NEW M, NEW a, NEW b, NEW what, Enclosed(M, a, b, what)
  PROVE  M[a].kind = "lock" /\ M[b].kind = "unlock" /\ M[b].at = what
<1>1. Lock.kind = "lock" BY DEF Lock, Step
<1>2. Unlock(what).kind = "unlock" /\ Unlock(what).at = what BY DEF Unlock, Step
<1>3. QED BY <1>1, <1>2 DEF Enclosed

SelectBlock(M, a, b, what, l, bits) ==
  LET n == Len(l)
      e == Len(bits)
  IN
  /\ Enclosed(M, a, b, what) /\ b = a + n + e + n + 1
  /\ \A i \in 1..n : Is(M[a+i], "sel", l[i], 1)
  /\ \A i \in 1..e : M[a+n+i] = bits[i]
  /\ \A i \in 1..n : Is(M[a+n+e+i], "sel", l[i], 0)

BitsFit(bits) ==
  /\ Len(bits) \in Nat
  /\ \A i \in 1..Len(bits) :
       /\ bits[i].kind = "ctrl" /\ bits[i].at \in CtrlBits /\ bits[i].val \in {0, 1}
       /\ bits[i].val = 1 => i+1 \in 1..Len(bits) /\ Is(bits[i+1], "ctrl", bits[i].at, 0)
       /\ Is(bits[i], "ctrl", "START", 1) =>
            i-1 \in 1..Len(bits) /\ Is(bits[i-1], "ctrl", "START", 0)

(* A unit selected or a bit set is cleared before the block ends, and      *)
(* START is raised after it was lowered, with the units of l and no others *)
(* selected.                                                               *)
LEMMA SelectBlockFits ==
  ASSUME NEW M, NEW a, NEW b, NEW x, x.units \in Seq(Units), x.op # "modules",
         NEW what, what \notin {"enable", "disable", "construct", "modules"},
         NEW bits, BitsFit(bits), SelectBlock(M, a, b, what, x.units, bits)
  PROVE  /\ BlockOf(M, a, b) /\ BlockFits(M, a, b, x)
         /\ \A k \in a+1..b-1 : M[k].kind \in InsideKinds
<1> DEFINE l == x.units
           n == Len(l)
           e == Len(bits)
<1>1. /\ a \in Nat /\ b \in Nat /\ Len(M) \in Nat /\ 0 < a /\ a < b /\ b <= Len(M)
      /\ n \in Nat /\ e \in Nat /\ b = a + n + e + n + 1
  <2>1. Enclosed(M, a, b, what) /\ b = a + n + e + n + 1 BY DEF SelectBlock
  <2>2. n \in Nat /\ e \in Nat BY DEF BitsFit
  <2>3. QED BY <2>1, <2>2 DEF Enclosed
<1>2. M[a].kind = "lock" /\ M[b].kind = "unlock" /\ M[b].at = what
  <2>1. Enclosed(M, a, b, what) BY DEF SelectBlock
  <2>2. QED BY <2>1, EnclosedBy
<1>3. /\ \A i \in 1..n : Is(M[a+i], "sel", l[i], 1)
      /\ \A i \in 1..e : M[a+n+i] = bits[i]
      /\ \A i \in 1..n : Is(M[a+n+e+i], "sel", l[i], 0)
  BY DEF SelectBlock
<1>4. \A i \in 1..n : l[i] \in Units OBVIOUS
<1>5. \A u : u \in Elements(l) <=> \E i \in 1..n : u = l[i] BY DEF Elements
<1> HIDE DEF l, n, e
<1>6. ASSUME NEW k \in a+1..b-1
      PROVE  \/ \E i \in 1..n : k = a+i
             \/ \E i \in 1..e : k = a+n+i
             \/ \E i \in 1..n : k = a+n+e+i
  <2>1. k \in Int /\ a < k /\ k < b BY <1>1
  <2>2. CASE k <= a+n
    <3>1. k-a \in 1..n /\ k = a + (k-a) BY <1>1, <2>1, <2>2
    <3>2. QED BY <3>1
  <2>3. CASE k > a+n /\ k <= a+n+e
    <3>1. k-a-n \in 1..e /\ k = a+n+(k-a-n) BY <1>1, <2>1, <2>3
    <3>2. QED BY <3>1
  <2>4. CASE k > a+n+e
    <3>1. k-a-n-e \in 1..n /\ k = a+n+e+(k-a-n-e) BY <1>1, <2>1, <2>4
    <3>2. QED BY <3>1
  <2>5. QED BY <1>1, <2>1, <2>2, <2>3, <2>4
<1>7. \A i \in 1..e : bits[i].kind = "ctrl" /\ bits[i].at \in CtrlBits /\ bits[i].val \in {0, 1}
  BY DEF BitsFit, e
<1>8. \A k \in a+1..b-1 :
        \/ M[k].kind = "sel" /\ M[k].at \in Elements(l) /\ M[k].at \in Units /\ M[k].val \in {0, 1}
        \/ M[k].kind = "ctrl" /\ M[k].at \in CtrlBits /\ M[k].val \in {0, 1}
  BY <1>3, <1>4, <1>5, <1>6, <1>7 DEF Is
<1>9. BlockOf(M, a, b)
  <2>1. \A k \in a+1..b-1 : M[k].kind \notin Brackets BY <1>8 DEF Brackets
  <2>2. a \in 1..Len(M) /\ b \in 1..Len(M) BY <1>1
  <2>3. QED BY <1>1, <1>2, <2>1, <2>2 DEF BlockOf
<1>10. SelFits(M, a, b)
  <2> SUFFICES ASSUME NEW k \in a+1..b-1, M[k].val = 1
               PROVE  /\ M[k].kind = "sel" => Ahead(M, k+1, b, "sel", M[k].at, 0)
                      /\ M[k].kind = "ctrl" => Ahead(M, k+1, b, "ctrl", M[k].at, 0)
    BY <1>8 DEF SelFits
  <2>1. CASE \E i \in 1..n : k = a+i
    <3>1. PICK i \in 1..n : k = a+i BY <2>1
    <3>2. Is(M[k], "sel", l[i], 1) /\ Is(M[a+n+e+i], "sel", l[i], 0) BY <1>3, <3>1
    <3>3. a+n+e+i \in k+1..b-1 BY <1>1, <3>1
    <3>4. QED BY <3>2, <3>3 DEF Ahead, Is
  <2>2. CASE \E i \in 1..e : k = a+n+i
    <3>1. PICK i \in 1..e : k = a+n+i BY <2>2
    <3>2. M[k] = bits[i] BY <1>3, <3>1
    <3>3. i+1 \in 1..e /\ Is(bits[i+1], "ctrl", bits[i].at, 0) /\ bits[i].kind = "ctrl"
      BY <3>2 DEF BitsFit, e
    <3>4. a+n+(i+1) \in k+1..b-1 BY <1>1, <3>1, <3>3
    <3>5. M[a+n+(i+1)] = bits[i+1] BY <1>3, <3>3
    <3>6. QED BY <3>2, <3>3, <3>4, <3>5 DEF Ahead
  <2>3. CASE \E i \in 1..n : k = a+n+e+i
    BY <1>3, <2>3 DEF Is
  <2>4. QED BY <1>6, <2>1, <2>2, <2>3
<1>11. StartFits(M, a, b, x)
  <2> SUFFICES ASSUME NEW k \in a+1..b-1, Is(M[k], "ctrl", "START", 1)
               PROVE  /\ Behind(M, a, k, "ctrl", "START", 0)
                      /\ \A u \in Elements(l) : Behind(M, a, k, "sel", u, 1)
                      /\ \A u \in Units : Ahead(M, k, b, "sel", u, 0) => u \in Elements(l)
    BY DEF StartFits, l
  <2>1. PICK i \in 1..e : k = a+n+i BY <1>3, <1>6 DEF Is
  <2>2. i-1 \in 1..e /\ Is(bits[i-1], "ctrl", "START", 0)
    <3>1. Is(bits[i], "ctrl", "START", 1) BY <1>3, <2>1
    <3>2. QED BY <3>1 DEF BitsFit, e
  <2>3. a+n+(i-1) \in a+1..k-1 /\ a+n+(i-1) = k-1 BY <1>1, <2>1, <2>2
  <2>4. Is(M[k-1], "ctrl", "START", 0) BY <1>3, <2>2, <2>3
  <2>5. Behind(M, a, k, "ctrl", "START", 0)
    <3>1. k-1 \in a+1..k-1 BY <2>3
    <3>2. \A j \in (k-1)+1..k-1 : FALSE BY <1>1
    <3>3. QED BY <2>4, <3>1, <3>2 DEF Behind
  <2>6. ASSUME NEW u \in Elements(l) PROVE Behind(M, a, k, "sel", u, 1)
    <3>1. PICK h \in 1..n : u = l[h] BY <1>5
    <3>2. a+h \in a+1..k-1 /\ Is(M[a+h], "sel", u, 1) BY <1>1, <1>3, <2>1, <3>1
    <3>3. ASSUME NEW j \in (a+h)+1..k-1, M[j].kind = "sel" PROVE M[j].val = 1
      <4>1. j \in a+1..b-1 /\ j < a+n+i BY <1>1, <2>1, <3>1
      <4>2. CASE \E g \in 1..n : j = a+g BY <1>3, <4>2 DEF Is
      <4>3. CASE \E g \in 1..e : j = a+n+g BY <1>3, <1>7, <3>3, <4>3
      <4>4. CASE \E g \in 1..n : j = a+n+e+g
        <5>1. PICK g \in 1..n : j = a+n+e+g BY <4>4
        <5>2. FALSE BY <1>1, <4>1, <5>1
        <5>3. QED BY <5>2
      <4>5. QED BY <1>6, <4>1, <4>2, <4>3, <4>4
    <3>4. QED BY <3>2, <3>3 DEF Behind
  <2>7. ASSUME NEW u \in Units, Ahead(M, k, b, "sel", u, 0) PROVE u \in Elements(l)
    <3>1. PICK j \in k..b-1 : Is(M[j], "sel", u, 0) BY <2>7 DEF Ahead
    <3>2. j \in a+1..b-1 BY <1>1
    <3>3. QED BY <1>8, <3>1, <3>2 DEF Is
  <2>8. QED BY <2>5, <2>6, <2>7
<1>12. MaskFits(M, a, b, x) BY <1>2, <1>8 DEF MaskFits
<1>13. ModuleFits(M, a, b, x) BY <1>2, <1>8 DEF ModuleFits
<1>14. ReadFits(M, a, b, x)
  <2>1. ~SomeAhead(M, a+1, b, {"read", "leave"}) BY <1>8 DEF SomeAhead
  <2>2. QED BY <1>2, <1>8, <2>1 DEF ReadFits
<1>15. TriggerFits(M, a, b) BY <1>8 DEF TriggerFits
<1>16. QED BY <1>8, <1>9, <1>10, <1>11, <1>12, <1>13, <1>14, <1>15 DEF BlockFits, InsideKinds

(* A block whose steps are on none of the registers that the obligations   *)
(* are about: that of select_trigger_awg, and the one of initialize that   *)
(* deselects its units.                                                    *)
PlainSteps(M, a, b) ==
  \A k \in a+1..b-1 :
    \/ M[k].kind = "sel" /\ M[k].at \in Units /\ M[k].val = 0
    \/ M[k].kind = "trigger" /\ M[k].val \in AWGs \cup {None}

(* It has to deselect nothing and to leave no promise.                     *)
LEMMA PlainBlockFits ==
  ASSUME NEW M, NEW a, NEW b, NEW x, x.op # "modules",
         NEW what, Enclosed(M, a, b, what),
         what \notin {"enable", "disable", "construct", "modules"},
         PlainSteps(M, a, b)
  PROVE  /\ BlockOf(M, a, b) /\ BlockFits(M, a, b, x)
         /\ \A k \in a+1..b-1 : M[k].kind \in InsideKinds
<1>1. /\ a \in Nat /\ b \in Nat /\ Len(M) \in Nat /\ 0 < a /\ a < b /\ b <= Len(M)
  BY DEF Enclosed
<1>2. M[a].kind = "lock" /\ M[b].kind = "unlock" /\ M[b].at = what BY EnclosedBy
<1>3. BlockOf(M, a, b)
  <2>1. \A k \in a+1..b-1 : M[k].kind \notin Brackets BY DEF Brackets, PlainSteps
  <2>2. a \in 1..Len(M) /\ b \in 1..Len(M) BY <1>1
  <2>3. QED BY <1>1, <1>2, <2>1, <2>2 DEF BlockOf
<1>4. SelFits(M, a, b)
  <2>1. ASSUME NEW k \in a+1..b-1
        PROVE  M[k].kind # "ctrl" /\ (M[k].kind = "sel" => M[k].at \in Units /\ M[k].val = 0)
    BY DEF PlainSteps
  <2>2. QED BY <2>1 DEF SelFits
<1>5. StartFits(M, a, b, x) BY DEF StartFits, Is, PlainSteps
<1>6. MaskFits(M, a, b, x) BY <1>2 DEF MaskFits, PlainSteps
<1>7. ModuleFits(M, a, b, x) BY <1>2 DEF ModuleFits, PlainSteps
<1>8. ReadFits(M, a, b, x)
  <2>1. \A k \in a+1..b-1 : M[k].kind \notin {"read", "leave"} BY DEF PlainSteps
  <2>2. ~SomeAhead(M, a+1, b, {"read", "leave"}) BY <2>1 DEF SomeAhead
  <2>3. QED BY <1>2, <2>1, <2>2 DEF ReadFits
<1>9. TriggerFits(M, a, b) BY DEF TriggerFits, PlainSteps
<1>10. QED BY <1>3, <1>4, <1>5, <1>6, <1>7, <1>8, <1>9 DEF BlockFits, InsideKinds, PlainSteps

(* The blocks of enable_start_trigger and disable_start_trigger. *)
LEMMA MaskBlockFits ==
  ASSUME NEW M, NEW a, NEW b, NEW x, x.units \in Seq(Units), x.op # "modules",
         NEW what \in {"enable", "disable"}, Enclosed(M, a, b, what),
         b = a + Len(x.units) + 1,
         \A i \in 1..Len(x.units) : Is(M[a+i], "mask", x.units[i], MaskVal(what))
  PROVE  /\ BlockOf(M, a, b) /\ BlockFits(M, a, b, x)
         /\ \A k \in a+1..b-1 : M[k].kind \in InsideKinds
<1> DEFINE l == x.units
           n == Len(l)
<1>1. /\ a \in Nat /\ b \in Nat /\ Len(M) \in Nat /\ 0 < a /\ a < b /\ b <= Len(M)
      /\ n \in Nat /\ b = a + n + 1
  BY DEF Enclosed
<1>2. M[a].kind = "lock" /\ M[b].kind = "unlock" /\ M[b].at = what BY EnclosedBy
<1>3. \A u : u \in Elements(l) <=> \E i \in 1..n : u = l[i] BY DEF Elements
<1>4. ASSUME NEW k \in a+1..b-1
      PROVE  M[k].kind = "mask" /\ M[k].at \in Elements(l) /\ M[k].val = MaskVal(what)
  <2>1. k-a \in 1..n /\ a + (k-a) = k BY <1>1
  <2>2. Is(M[k], "mask", l[k-a], MaskVal(what)) BY <2>1
  <2>3. QED BY <1>3, <2>1, <2>2 DEF Is
<1>5. BlockOf(M, a, b)
  <2>1. \A k \in a+1..b-1 : M[k].kind \notin Brackets BY <1>4 DEF Brackets
  <2>2. a \in 1..Len(M) /\ b \in 1..Len(M) BY <1>1
  <2>3. QED BY <1>1, <1>2, <2>1, <2>2 DEF BlockOf
<1>6. SelFits(M, a, b) BY <1>4 DEF SelFits
<1>7. StartFits(M, a, b, x) BY <1>4 DEF StartFits, Is
<1>8. MaskFits(M, a, b, x)
  <2>1. ASSUME NEW u \in Elements(l) PROVE Ahead(M, a+1, b, "mask", u, MaskVal(what))
    <3>1. PICK i \in 1..n : u = l[i] BY <1>3
    <3>2. a+i \in a+1..b-1 BY <1>1
    <3>3. QED BY <3>1, <3>2 DEF Ahead
  <2>2. QED BY <1>2, <1>4, <2>1 DEF MaskFits
<1>9. ModuleFits(M, a, b, x) BY <1>2, <1>4 DEF ModuleFits
<1>10. ReadFits(M, a, b, x)
  <2>1. ~SomeAhead(M, a+1, b, {"read", "leave"}) BY <1>4 DEF SomeAhead
  <2>2. QED BY <1>2, <1>4, <2>1 DEF ReadFits
<1>11. TriggerFits(M, a, b) BY <1>4 DEF TriggerFits
<1>12. QED BY <1>4, <1>5, <1>6, <1>7, <1>8, <1>9, <1>10, <1>11 DEF BlockFits, InsideKinds

(* The block of construct_capture_module. *)
ConstructBlock(M, a, b, x) ==
  LET n == Len(x.units)
      e == Len(AllUnits)
  IN
  /\ Enclosed(M, a, b, "construct") /\ b = a + e + e + n + 1
  /\ \A i \in 1..e : M[a+i].kind = "read" /\ M[a+i].at = AllUnits[i]
  /\ \A i \in 1..e : Is(M[a+e+i], "leave", AllUnits[i], x.module)
  /\ \A i \in 1..n : Is(M[a+e+e+i], "assign", x.units[i], x.module)

(* It reads all units, then takes every unit out of the module, then puts  *)
(* those of the call into it.                                              *)
LEMMA ConstructBlockFits ==
  ASSUME NEW M, NEW a, NEW b, NEW x, x.units \in Seq(Units), x.op # "modules",
         ConstructBlock(M, a, b, x)
  PROVE  /\ BlockOf(M, a, b) /\ BlockFits(M, a, b, x)
         /\ \A k \in a+1..b-1 : M[k].kind \in InsideKinds
<1> DEFINE l == x.units
           n == Len(l)
           e == Len(AllUnits)
<1>1. /\ a \in Nat /\ b \in Nat /\ Len(M) \in Nat /\ 0 < a /\ a < b /\ b <= Len(M)
      /\ n \in Nat /\ e \in Nat /\ b = a + e + e + n + 1
  <2>1. Enclosed(M, a, b, "construct") /\ b = a + e + e + n + 1 BY DEF ConstructBlock
  <2>2. n \in Nat OBVIOUS
  <2>3. e \in Nat BY CaptureControlAssumption
  <2>4. QED BY <2>1, <2>2, <2>3 DEF Enclosed
<1>2. M[a].kind = "lock" /\ M[b].kind = "unlock" /\ M[b].at = "construct"
  BY EnclosedBy DEF ConstructBlock
<1>3. \A u : u \in Elements(l) <=> \E i \in 1..n : u = l[i] BY DEF Elements
<1>4. /\ \A i \in 1..e : AllUnits[i] \in Units
      /\ \A u \in Units : \E i \in 1..e : AllUnits[i] = u
  BY CaptureControlAssumption
<1>5. /\ \A i \in 1..e : M[a+i].kind = "read" /\ M[a+i].at = AllUnits[i]
      /\ \A i \in 1..e : Is(M[a+e+i], "leave", AllUnits[i], x.module)
      /\ \A i \in 1..n : Is(M[a+e+e+i], "assign", l[i], x.module)
  BY DEF ConstructBlock
<1> HIDE DEF l, n, e
<1>6. ASSUME NEW k \in a+1..b-1
      PROVE  \/ k <= a+e /\ M[k].kind = "read"
             \/ /\ k > a+e /\ k <= a+e+e
                /\ M[k].kind = "leave" /\ M[k].at \in Units /\ M[k].val = x.module
             \/ /\ k > a+e+e
                /\ M[k].kind = "assign" /\ M[k].at \in Elements(l) /\ M[k].val = x.module
  <2>1. k \in Int /\ a < k /\ k < b BY <1>1
  <2>2. CASE k <= a+e
    <3>1. k-a \in 1..e /\ k = a + (k-a) BY <1>1, <2>1, <2>2
    <3>2. QED BY <1>5, <2>2, <3>1
  <2>3. CASE k > a+e /\ k <= a+e+e
    <3>1. k-a-e \in 1..e /\ k = a+e+(k-a-e) BY <1>1, <2>1, <2>3
    <3>2. Is(M[k], "leave", AllUnits[k-a-e], x.module) BY <1>5, <3>1
    <3>3. QED BY <1>4, <2>3, <3>1, <3>2 DEF Is
  <2>4. CASE k > a+e+e
    <3>1. k-a-e-e \in 1..n /\ k = a+e+e+(k-a-e-e) BY <1>1, <2>1, <2>4
    <3>2. Is(M[k], "assign", l[k-a-e-e], x.module) BY <1>5, <3>1
    <3>3. QED BY <1>3, <2>4, <3>1, <3>2 DEF Is
  <2>5. QED BY <1>1, <2>1, <2>2, <2>3, <2>4
<1>7. BlockOf(M, a, b)
  <2>1. \A k \in a+1..b-1 : M[k].kind \notin Brackets BY <1>6 DEF Brackets
  <2>2. a \in 1..Len(M) /\ b \in 1..Len(M) BY <1>1
  <2>3. QED BY <1>1, <1>2, <2>1, <2>2 DEF BlockOf
<1>8. SelFits(M, a, b)
  <2>1. \A k \in a+1..b-1 : M[k].kind \notin {"sel", "ctrl"} BY <1>6
  <2>2. QED BY <2>1 DEF SelFits
<1>9. StartFits(M, a, b, x)
  <2>1. \A k \in a+1..b-1 : M[k].kind # "ctrl" BY <1>6
  <2>2. QED BY <2>1 DEF StartFits, Is
<1>10. MaskFits(M, a, b, x)
  <2>1. \A k \in a+1..b-1 : M[k].kind # "mask" BY <1>6
  <2>2. QED BY <1>2, <2>1 DEF MaskFits
<1>11. ModuleFits(M, a, b, x)
  <2>1. ASSUME NEW u \in Elements(l) PROVE Ahead(M, a+1, b, "assign", u, x.module)
    <3>1. PICK i \in 1..n : u = l[i] BY <1>3
    <3>2. a+e+e+i \in a+1..b-1 BY <1>1
    <3>3. QED BY <1>5, <3>1, <3>2 DEF Ahead
  <2>2. ASSUME NEW u \in Units PROVE Ahead(M, a+1, b, "leave", u, x.module)
    <3>1. PICK i \in 1..e : AllUnits[i] = u BY <1>4
    <3>2. a+e+i \in a+1..b-1 BY <1>1
    <3>3. QED BY <1>5, <3>1, <3>2 DEF Ahead
  <2>3. ASSUME NEW k \in a+1..b-1, M[k].kind = "assign"
        PROVE  /\ M[k].at \in Elements(l) /\ M[k].val = x.module
               /\ ~SomeAhead(M, k+1, b, {"read", "leave"})
    <3>1. k > a+e+e /\ M[k].at \in Elements(l) /\ M[k].val = x.module BY <1>6, <2>3
    <3>2. ASSUME NEW j \in k+1..b-1 PROVE M[j].kind = "assign"
      <4>1. j \in Int /\ k \in Int /\ k < j /\ j <= b-1 /\ a+e+e < k BY <1>1, <3>1
      <4>2. j \in a+1..b-1 /\ ~(j <= a+e) /\ ~(j <= a+e+e) BY <1>1, <4>1
      <4>3. QED BY <1>6, <4>2
    <3>3. QED BY <3>1, <3>2 DEF SomeAhead
  <2>4. ASSUME NEW k \in a+1..b-1, M[k].kind = "leave"
        PROVE  /\ M[k].at \in Units /\ M[k].val = x.module
               /\ ~SomeAhead(M, k+1, b, {"read"})
    <3>1. k > a+e /\ M[k].at \in Units /\ M[k].val = x.module BY <1>6, <2>4
    <3>2. ASSUME NEW j \in k+1..b-1 PROVE M[j].kind # "read"
      <4>1. j \in a+1..b-1 /\ ~(j <= a+e) BY <1>1, <3>1
      <4>2. QED BY <1>6, <4>1
    <3>3. QED BY <3>1, <3>2 DEF SomeAhead
  <2>5. QED BY <1>2, <2>1, <2>2, <2>3, <2>4 DEF ModuleFits, l
<1>12. ReadFits(M, a, b, x)
  <2>1. \A i \in 1..e : a + i < b BY <1>1
  <2>2. \A k \in a+1..b-1 : M[k].kind = "read" => k - a \in 1..e BY <1>1, <1>6
  <2>3. QED BY <1>5, <2>1, <2>2 DEF ReadFits, e
<1>13. TriggerFits(M, a, b)
  <2>1. \A k \in a+1..b-1 : M[k].kind # "trigger" BY <1>6
  <2>2. QED BY <2>1 DEF TriggerFits
<1>14. \A k \in a+1..b-1 : M[k].kind \in InsideKinds BY <1>6 DEF InsideKinds
<1>15. QED BY <1>7, <1>8, <1>9, <1>10, <1>11, <1>12, <1>13, <1>14 DEF BlockFits

(* The block of get_unit_to_module. *)
LEMMA ReadBlockFits ==
  ASSUME NEW M, NEW a, NEW b, NEW x, Enclosed(M, a, b, "modules"),
         b = a + Len(AllUnits) + 1,
         \A i \in 1..Len(AllUnits) : M[a+i].kind = "read" /\ M[a+i].at = AllUnits[i]
  PROVE  /\ BlockOf(M, a, b) /\ BlockFits(M, a, b, x)
         /\ \A k \in a+1..b-1 : M[k].kind \in InsideKinds
<1> DEFINE e == Len(AllUnits)
<1>1. /\ a \in Nat /\ b \in Nat /\ Len(M) \in Nat /\ 0 < a /\ a < b /\ b <= Len(M)
      /\ e \in Nat /\ b = a + e + 1
  BY CaptureControlAssumption DEF Enclosed
<1>2. M[a].kind = "lock" /\ M[b].kind = "unlock" /\ M[b].at = "modules" BY EnclosedBy
<1>3. ASSUME NEW k \in a+1..b-1 PROVE M[k].kind = "read"
  <2>1. k-a \in 1..e /\ a + (k-a) = k BY <1>1
  <2>2. QED BY <2>1
<1>4. BlockOf(M, a, b)
  <2>1. \A k \in a+1..b-1 : M[k].kind \notin Brackets BY <1>3 DEF Brackets
  <2>2. a \in 1..Len(M) /\ b \in 1..Len(M) BY <1>1
  <2>3. QED BY <1>1, <1>2, <2>1, <2>2 DEF BlockOf
<1>5. SelFits(M, a, b) BY <1>3 DEF SelFits
<1>6. StartFits(M, a, b, x) BY <1>3 DEF StartFits, Is
<1>7. MaskFits(M, a, b, x) BY <1>2, <1>3 DEF MaskFits
<1>8. ModuleFits(M, a, b, x) BY <1>2, <1>3 DEF ModuleFits
<1>9. ReadFits(M, a, b, x)
  <2>1. \A i \in 1..e : a + i < b BY <1>1
  <2>2. \A k \in a+1..b-1 : k - a \in 1..e BY <1>1
  <2>3. QED BY <1>2, <2>1, <2>2 DEF ReadFits
<1>10. TriggerFits(M, a, b) BY <1>3 DEF TriggerFits
<1>11. QED BY <1>3, <1>4, <1>5, <1>6, <1>7, <1>8, <1>9, <1>10 DEF BlockFits, InsideKinds

-----------------------------------------------------------------------------
(* The methods. *)
LEMMA StepsTyped ==
  /\ Lock \in StepType
  /\ \A what \in Labels : Unlock(what) \in StepType
  /\ \A bit \in CtrlBits, v \in {0, 1} : Ctrl(bit, v) \in StepType
<1>1. ASSUME NEW kind \in StepKinds,
             NEW at \in Units \cup CtrlBits \cup Modules \cup {None} \cup Labels,
             NEW val \in {0, 1, None} \cup Modules \cup AWGs
      PROVE  Step(kind, at, val) \in StepType
  BY DEF Step, StepType
<1>2. "lock" \in StepKinds /\ "unlock" \in StepKinds /\ "ctrl" \in StepKinds
  BY DEF StepKinds, Brackets, InsideKinds
<1>3. QED BY <1>1, <1>2, Zenon DEF Lock, Unlock, Ctrl

(* The fields of a step.                                                   *)
LEMMA StepIs ==
  ASSUME NEW kind, NEW at, NEW val
  PROVE  Is(Step(kind, at, val), kind, at, val)
BY DEF Is, Step

(* The length of a sequence.                                               *)
LEMMA LenIsNat ==
  ASSUME NEW S, NEW s \in Seq(S)
  PROVE  Len(s) \in Nat
OBVIOUS

(* Putting a method together: where its parts are in it. *)
OnePart(M, p, s, q) ==
  /\ Len(M) = Len(s) + 2
  /\ M[1] = p /\ M[Len(s) + 2] = q
  /\ \A i \in 1..Len(s) : M[1+i] = s[i]

ThreeParts(M, p, s1, s2, s3, q) ==
  /\ Len(M) = Len(s1) + Len(s2) + Len(s3) + 2
  /\ M[1] = p /\ M[Len(s1) + Len(s2) + Len(s3) + 2] = q
  /\ \A i \in 1..Len(s1) : M[1+i] = s1[i]
  /\ \A i \in 1..Len(s2) : M[1+Len(s1)+i] = s2[i]
  /\ \A i \in 1..Len(s3) : M[1+Len(s1)+Len(s2)+i] = s3[i]

(* A method of one block with one loop, put together, ...                  *)
LEMMA LockedPart ==
  ASSUME NEW S, NEW p \in S, NEW q \in S, NEW s \in Seq(S)
  PROVE  /\ <<p>> \o s \o <<q>> \in Seq(S)
         /\ OnePart(<<p>> \o s \o <<q>>, p, s, q)
BY DEF OnePart

(* ... and one with three lists of steps in its block.                     *)
LEMMA LockedThreeParts ==
  ASSUME NEW S, NEW p \in S, NEW q \in S,
         NEW s1 \in Seq(S), NEW s2 \in Seq(S), NEW s3 \in Seq(S)
  PROVE  /\ <<p>> \o s1 \o s2 \o s3 \o <<q>> \in Seq(S)
         /\ ThreeParts(<<p>> \o s1 \o s2 \o s3 \o <<q>>, p, s1, s2, s3, q)
BY SMTT(30) DEF ThreeParts

(* A method that is one block from its first step to its last. *)
LEMMA OneBlockFits ==
  ASSUME NEW M, NEW x, Len(M) \in Nat, BlockOf(M, 1, Len(M)), BlockFits(M, 1, Len(M), x),
         \A k \in 1+1..Len(M)-1 : M[k].kind \in InsideKinds
  PROVE  MethodFits(M, x)
<1>1. 1 < Len(M) /\ M[1].kind = "lock" /\ M[Len(M)].kind = "unlock" BY DEF BlockOf
<1>2. ASSUME NEW k \in 1..Len(M), k # 1, k # Len(M)
      PROVE  M[k].kind \in InsideKinds /\ M[k].kind \notin Brackets
  <2>1. k \in 1+1..Len(M)-1 BY <1>1, <1>2
  <2>2. QED BY <2>1 DEF InsideKinds, Brackets
<1>3. ASSUME NEW k \in 1..Len(M)
      PROVE  /\ M[k].kind \in Brackets \cup InsideKinds \cup {"zero"}
             /\ M[k].kind = "lock" <=> k = 1
             /\ M[k].kind = "unlock" <=> k = Len(M)
  BY <1>1, <1>2 DEF Brackets
<1>4. ASSUME NEW k \in 1..Len(M), M[k].kind \in InsideKinds PROVE 1 < k /\ k < Len(M)
  <2>1. k # 1 /\ k # Len(M) BY <1>1, <1>4 DEF InsideKinds
  <2>2. QED BY <1>1, <2>1
<1>5. 1 \in 1..Len(M) /\ Len(M) \in 1..Len(M) BY <1>1
<1>6. ASSUME NEW a \in 1..Len(M), NEW b \in 1..Len(M), BlockOf(M, a, b)
      PROVE  BlockFits(M, a, b, x)
  <2>1. a = 1 /\ b = Len(M) BY <1>3, <1>6 DEF BlockOf
  <2>2. QED BY <2>1
<1>7. ASSUME NEW k \in 1..Len(M)
      PROVE  /\ M[k].kind = "lock" => \E b \in 1..Len(M) : BlockOf(M, k, b)
             /\ M[k].kind = "unlock" => \E a \in 1..Len(M) : BlockOf(M, a, k)
             /\ M[k].kind \in InsideKinds =>
                  \E a, b \in 1..Len(M) : BlockOf(M, a, b) /\ a < k /\ k < b
  BY <1>3, <1>4, <1>5
<1>8. QED BY <1>1, <1>3, <1>6, <1>7 DEF MethodFits

(* start_capture_units, reset_capture_units, clear_capture_stop_flags. *)
LEMMA SelectMethodFits ==
  ASSUME NEW x, x.units \in Seq(Units), x.op # "modules",
         NEW bits \in Seq(StepType), BitsFit(bits),
         NEW what \in Labels, what \notin {"enable", "disable", "construct", "modules"},
         NEW M, M = <<Lock>> \o SelectAll(x.units) \o bits \o DeselectAll(x.units) \o <<Unlock(what)>>
  PROVE  SelectBlock(M, 1, Len(M), what, x.units, bits) /\ Len(M) \in Nat /\ MethodFits(M, x)
<1> DEFINE l == x.units
           up == SelectAll(l)
           down == DeselectAll(l)
           end == Unlock(what)
<1>1. UnrolledTo(l, up, "sel", 1) /\ UnrolledTo(l, down, "sel", 0)
  BY SelectAllSteps, DeselectAllSteps
<1>2. up \in Seq(StepType) /\ down \in Seq(StepType) /\ Len(up) = Len(l) /\ Len(down) = Len(l)
  BY <1>1 DEF UnrolledTo
<1>3. Lock \in StepType /\ end \in StepType BY StepsTyped
<1>4. M = <<Lock>> \o up \o bits \o down \o <<end>> OBVIOUS
<1>5. Len(l) \in Nat /\ Len(bits) \in Nat BY LenIsNat
<1> HIDE DEF l, up, down, end
<1>6. /\ Len(M) = Len(up) + Len(bits) + Len(down) + 2
      /\ M[1] = Lock /\ M[Len(up) + Len(bits) + Len(down) + 2] = end
      /\ \A i \in 1..Len(up) : M[1+i] = up[i]
      /\ \A i \in 1..Len(bits) : M[1+Len(up)+i] = bits[i]
      /\ \A i \in 1..Len(down) : M[1+Len(up)+Len(bits)+i] = down[i]
  <2>1. ThreeParts(<<Lock>> \o up \o bits \o down \o <<end>>, Lock, up, bits, down, end)
    BY <1>2, <1>3, LockedThreeParts, Zenon
  <2>2. QED BY <1>4, <2>1 DEF ThreeParts
<1>7. Len(M) \in Nat /\ Len(M) = 1 + Len(l) + Len(bits) + Len(l) + 1 BY <1>2, <1>5, <1>6
<1>8. Enclosed(M, 1, Len(M), what)
  <2>1. M[Len(M)] = end BY <1>6
  <2>2. 0 < 1 /\ 1 < Len(M) /\ Len(M) <= Len(M) BY <1>5, <1>7
  <2>3. QED BY <1>6, <1>7, <2>1, <2>2 DEF Enclosed, end
<1>9. /\ \A i \in 1..Len(l) : Is(M[1+i], "sel", l[i], 1)
      /\ \A i \in 1..Len(bits) : M[1+Len(l)+i] = bits[i]
      /\ \A i \in 1..Len(l) : Is(M[1+Len(l)+Len(bits)+i], "sel", l[i], 0)
  <2>1. ASSUME NEW i \in 1..Len(l)
        PROVE  up[i] = Step("sel", l[i], 1) /\ down[i] = Step("sel", l[i], 0)
    BY <1>1 DEF UnrolledTo
  <2>2. ASSUME NEW i \in 1..Len(l)
        PROVE  M[1+i] = Step("sel", l[i], 1) /\ M[1+Len(l)+Len(bits)+i] = Step("sel", l[i], 0)
    BY <1>2, <1>6, <2>1
  <2>3. \A i \in 1..Len(bits) : M[1+Len(l)+i] = bits[i] BY <1>2, <1>6
  <2>4. QED BY <2>2, <2>3, StepIs
<1>10. SelectBlock(M, 1, Len(M), what, l, bits) BY <1>7, <1>8, <1>9 DEF SelectBlock
<1>11. QED BY <1>7, <1>10, SelectBlockFits, OneBlockFits DEF l

(* start_capture_units raises START after lowering it, the others raise    *)
(* their bit; each lowers it again.                                        *)
LEMMA SelectMethodsFit ==
  ASSUME NEW x, x.units \in Seq(Units), x.op \in {"start", "reset", "clear"}
  PROVE  MethodFits(Method(x), x)
<1>0. "" \in Labels /\ "" \notin {"enable", "disable", "construct", "modules"} BY DEF Labels
<1>1. CASE x.op = "start"
  <2> DEFINE bits == <<Ctrl("START", 0), Ctrl("START", 1), Ctrl("START", 0)>>
  <2>1. bits \in Seq(StepType) BY StepsTyped DEF CtrlBits
  <2>2. Len(bits) = 3 OBVIOUS
  <2>3. /\ Is(bits[1], "ctrl", "START", 0) /\ Is(bits[2], "ctrl", "START", 1)
        /\ Is(bits[3], "ctrl", "START", 0)
    BY StepIs DEF Ctrl
  <2> HIDE DEF bits
  <2>4. BitsFit(bits)
    <3>1. \A i \in 1..Len(bits) : i = 1 \/ i = 2 \/ i = 3 BY <2>2
    <3>2. QED BY <2>2, <2>3, <3>1 DEF BitsFit, Is, CtrlBits
  <2>5. Method(x) = StartCaptureUnits(x.units) BY <1>1 DEF Method
  <2>6. Method(x) = <<Lock>> \o SelectAll(x.units) \o bits \o DeselectAll(x.units) \o <<Unlock("")>>
    BY <2>5 DEF StartCaptureUnits, bits
  <2>7. QED BY <1>0, <1>1, <2>1, <2>4, <2>6, SelectMethodFits
<1>2. CASE x.op = "reset"
  <2> DEFINE bits == <<Ctrl("RESET", 1), Ctrl("RESET", 0)>>
  <2>1. bits \in Seq(StepType) BY StepsTyped DEF CtrlBits
  <2>2. Len(bits) = 2 OBVIOUS
  <2>3. Is(bits[1], "ctrl", "RESET", 1) /\ Is(bits[2], "ctrl", "RESET", 0) BY StepIs DEF Ctrl
  <2> HIDE DEF bits
  <2>4. BitsFit(bits)
    <3>1. \A i \in 1..Len(bits) : i = 1 \/ i = 2 BY <2>2
    <3>2. QED BY <2>2, <2>3, <3>1 DEF BitsFit, Is, CtrlBits
  <2>5. Method(x) = ResetCaptureUnits(x.units) BY <1>2 DEF Method
  <2>6. Method(x) = <<Lock>> \o SelectAll(x.units) \o bits \o DeselectAll(x.units) \o <<Unlock("")>>
    BY <2>5 DEF ResetCaptureUnits, bits
  <2>7. QED BY <1>0, <1>2, <2>1, <2>4, <2>6, SelectMethodFits
<1>3. CASE x.op = "clear"
  <2> DEFINE bits == <<Ctrl("DONE_CLR", 0), Ctrl("DONE_CLR", 1), Ctrl("DONE_CLR", 0)>>
  <2>1. bits \in Seq(StepType) BY StepsTyped DEF CtrlBits
  <2>2. Len(bits) = 3 OBVIOUS
  <2>3. /\ Is(bits[1], "ctrl", "DONE_CLR", 0) /\ Is(bits[2], "ctrl", "DONE_CLR", 1)
        /\ Is(bits[3], "ctrl", "DONE_CLR", 0)
    BY StepIs DEF Ctrl
  <2> HIDE DEF bits
  <2>4. BitsFit(bits)
    <3>1. \A i \in 1..Len(bits) : i = 1 \/ i = 2 \/ i = 3 BY <2>2
    <3>2. QED BY <2>2, <2>3, <3>1 DEF BitsFit, Is, CtrlBits
  <2>5. Method(x) = ClearCaptureStopFlags(x.units) BY <1>3 DEF Method
  <2>6. Method(x) = <<Lock>> \o SelectAll(x.units) \o bits \o DeselectAll(x.units) \o <<Unlock("")>>
    BY <2>5 DEF ClearCaptureStopFlags, bits
  <2>7. QED BY <1>0, <1>3, <2>1, <2>4, <2>6, SelectMethodFits
<1>4. QED BY <1>1, <1>2, <1>3

(* enable_start_trigger and disable_start_trigger. *)
MaskMethod(l, what) == <<Lock>> \o MaskAll(l, MaskVal(what)) \o <<Unlock(what)>>

(* Its steps. *)
LEMMA MaskPart ==
  ASSUME NEW l \in Seq(Units), NEW what \in {"enable", "disable"},
         NEW D, D = MaskMethod(l, what)
  PROVE  /\ D \in Seq(StepType) /\ Len(D) = Len(l) + 2
         /\ D[1] = Lock /\ D[Len(l) + 2] = Unlock(what)
         /\ \A i \in 1..Len(l) : Is(D[1+i], "mask", l[i], MaskVal(what))
<1> DEFINE s == MaskAll(l, MaskVal(what))
           end == Unlock(what)
<1>1. MaskVal(what) \in {0, 1} BY DEF MaskVal
<1>2. UnrolledTo(l, s, "mask", MaskVal(what)) BY <1>1, MaskSteps
<1>3. Lock \in StepType /\ end \in StepType BY StepsTyped DEF Labels
<1>4. D = <<Lock>> \o s \o <<end>> BY DEF MaskMethod
<1> HIDE DEF s, end
<1>5. s \in Seq(StepType) /\ Len(s) = Len(l) BY <1>2 DEF UnrolledTo
<1>6. <<Lock>> \o s \o <<end>> \in Seq(StepType) /\ OnePart(<<Lock>> \o s \o <<end>>, Lock, s, end)
  BY <1>3, <1>5, LockedPart, Zenon
<1>7. \A i \in 1..Len(l) : s[i] = Step("mask", l[i], MaskVal(what)) BY <1>2 DEF UnrolledTo
<1>8. D \in Seq(StepType) /\ OnePart(D, Lock, s, end) BY <1>4, <1>6
<1>9. \A i \in 1..Len(l) : D[1+i] = s[i] BY <1>5, <1>8 DEF OnePart
<1>10. \A i \in 1..Len(l) : Is(D[1+i], "mask", l[i], MaskVal(what)) BY <1>7, <1>9, StepIs
<1>11. QED BY <1>5, <1>8, <1>10 DEF OnePart, end

(* enable_start_trigger and disable_start_trigger.                         *)
LEMMA MaskMethodsFit ==
  ASSUME NEW x, x.units \in Seq(Units), x.op \in {"enable", "disable"}
  PROVE  MethodFits(Method(x), x)
<1> DEFINE what == x.op
           M == Method(x)
           n == Len(x.units)
<1>1. M = MaskMethod(x.units, what)
  <2>1. CASE what = "enable"
    <3>1. M = EnableStartTrigger(x.units) BY <2>1 DEF Method
    <3>2. MaskVal(what) = 1 BY <2>1 DEF MaskVal
    <3>3. QED BY <2>1, <3>1, <3>2 DEF EnableStartTrigger, MaskMethod
  <2>2. CASE what = "disable"
    <3>1. M = DisableStartTrigger(x.units) BY <2>2 DEF Method
    <3>2. MaskVal(what) = 0 BY <2>2 DEF MaskVal
    <3>3. QED BY <2>2, <3>1, <3>2 DEF DisableStartTrigger, MaskMethod
  <2>3. QED BY <2>1, <2>2
<1>2. n \in Nat BY LenIsNat
<1>3. what \in {"enable", "disable"} OBVIOUS
<1> HIDE DEF M, n
<1>4. /\ Len(M) = n + 2 /\ M[1] = Lock /\ M[n + 2] = Unlock(what)
      /\ \A i \in 1..n : Is(M[1+i], "mask", x.units[i], MaskVal(what))
  <2> HIDE DEF what
  <2>1. /\ Len(M) = Len(x.units) + 2 /\ M[1] = Lock /\ M[Len(x.units) + 2] = Unlock(what)
        /\ \A i \in 1..Len(x.units) : Is(M[1+i], "mask", x.units[i], MaskVal(what))
    BY <1>1, <1>3, MaskPart
  <2>2. QED BY <2>1 DEF n
<1>5. Enclosed(M, 1, Len(M), what) BY <1>2, <1>4 DEF Enclosed
<1>6. Len(M) = 1 + n + 1 BY <1>2, <1>4
<1>7. /\ BlockOf(M, 1, Len(M)) /\ BlockFits(M, 1, Len(M), x)
      /\ \A k \in 1+1..Len(M)-1 : M[k].kind \in InsideKinds
  BY <1>3, <1>4, <1>5, <1>6, MaskBlockFits DEF n
<1>8. Len(M) \in Nat BY <1>2, <1>4
<1>9. QED BY <1>7, <1>8, OneBlockFits DEF M

(* select_trigger_awg. *)
LEMMA TriggerMethodFits ==
  ASSUME NEW x, x.op = "trigger", x.awg \in AWGs \cup {None}
  PROVE  MethodFits(Method(x), x)
<1> DEFINE M == Method(x)
           none == ""
<1>1. M = <<Lock, Trigger(x.module, x.awg), Unlock(none)>> BY DEF Method, SelectTriggerAwg
<1>2. none \notin {"enable", "disable", "construct", "modules"} OBVIOUS
<1> HIDE DEF M, none
<1>3. /\ Len(M) = 3 /\ M[1] = Lock /\ M[2] = Trigger(x.module, x.awg) /\ M[3] = Unlock(none)
  BY <1>1
<1>4. M[2].kind = "trigger" /\ M[2].val \in AWGs \cup {None}
  <2>1. Is(M[2], "trigger", x.module, x.awg) BY <1>3, StepIs DEF Trigger
  <2>2. QED BY <2>1 DEF Is
<1>5. Enclosed(M, 1, Len(M), none) BY <1>3 DEF Enclosed
<1>6. PlainSteps(M, 1, Len(M))
  <2>1. \A k \in 1+1..Len(M)-1 : k = 2 BY <1>3
  <2>2. QED BY <1>4, <2>1 DEF PlainSteps
<1>7. /\ BlockOf(M, 1, Len(M)) /\ BlockFits(M, 1, Len(M), x)
      /\ \A k \in 1+1..Len(M)-1 : M[k].kind \in InsideKinds
  BY <1>2, <1>5, <1>6, PlainBlockFits
<1>8. Len(M) \in Nat BY <1>3
<1>9. QED BY <1>7, <1>8, OneBlockFits DEF M

(* construct_capture_module. *)
LEMMA ConstructParts ==
  ASSUME NEW S, NEW p \in S, NEW q \in S,
         NEW s1 \in Seq(S), NEW s2 \in Seq(S), NEW s3 \in Seq(S)
  PROVE  ThreeParts(<<p>> \o (s1 \o s2) \o s3 \o <<q>>, p, s1, s2, s3, q)
BY SMTT(30) DEF ThreeParts

(* Its one block is that of ConstructBlockFits.                            *)
LEMMA ConstructMethodFits ==
  ASSUME NEW x, x.op = "construct", x.units \in Seq(Units), x.module \in Modules \cup {None}
  PROVE  MethodFits(Method(x), x)
<1> DEFINE M == Method(x)
           l == x.units
           m == x.module
           n == Len(l)
           e == Len(AllUnits)
           s1 == ReadModules
           s2 == ForEach(AllUnits, LAMBDA u : Leave(u, m))
           s3 == ForEach(l, LAMBDA u : Assign(u, m))
           end == Unlock("construct")
<1>1. M = <<Lock>> \o (s1 \o s2) \o s3 \o <<end>>
  BY DEF Method, ConstructCaptureModule, ClearModule
<1>2. /\ UnrolledTo(AllUnits, s1, "read", None) /\ UnrolledTo(AllUnits, s2, "leave", m)
      /\ UnrolledTo(l, s3, "assign", m)
  BY ReadSteps, LeaveSteps, AssignSteps
<1>3. Lock \in StepType /\ end \in StepType BY StepsTyped DEF Labels
<1>4. n \in Nat /\ e \in Nat BY LenIsNat, CaptureControlAssumption
<1> HIDE DEF M, l, m, n, e, s1, s2, s3, end
<1>5. /\ s1 \in Seq(StepType) /\ s2 \in Seq(StepType) /\ s3 \in Seq(StepType)
      /\ Len(s1) = e /\ Len(s2) = e /\ Len(s3) = n
  BY <1>2 DEF UnrolledTo, n, e
<1>6. ThreeParts(M, Lock, s1, s2, s3, end)
  <2>1. ThreeParts(<<Lock>> \o (s1 \o s2) \o s3 \o <<end>>, Lock, s1, s2, s3, end)
    BY <1>3, <1>5, ConstructParts, Zenon
  <2>2. QED BY <1>1, <2>1
<1>7. Len(M) = 1 + e + e + n + 1 /\ Len(M) \in Nat BY <1>4, <1>5, <1>6 DEF ThreeParts
<1>8. Enclosed(M, 1, Len(M), "construct")
  <2>1. M[1] = Lock /\ M[Len(M)] = end BY <1>6 DEF ThreeParts
  <2>2. 0 < 1 /\ 1 < Len(M) /\ Len(M) <= Len(M) BY <1>4, <1>7
  <2>3. QED BY <1>7, <2>1, <2>2 DEF Enclosed, end
<1>9. /\ \A i \in 1..e : M[1+i] = Step("read", AllUnits[i], None)
      /\ \A i \in 1..e : M[1+e+i] = Step("leave", AllUnits[i], m)
      /\ \A i \in 1..n : M[1+e+e+i] = Step("assign", l[i], m)
  <2>1. /\ \A i \in 1..e : M[1+i] = s1[i]
        /\ \A i \in 1..e : M[1+e+i] = s2[i]
        /\ \A i \in 1..n : M[1+e+e+i] = s3[i]
    BY <1>5, <1>6 DEF ThreeParts
  <2>2. QED BY <1>2, <2>1 DEF UnrolledTo, n, e
<1>10. ConstructBlock(M, 1, Len(M), x)
  <2>1. \A i \in 1..e : Is(M[1+i], "read", AllUnits[i], None) BY <1>9, StepIs
  <2>2. \A i \in 1..e : M[1+i].kind = "read" /\ M[1+i].at = AllUnits[i] BY <2>1 DEF Is
  <2>3. \A i \in 1..e : Is(M[1+e+i], "leave", AllUnits[i], m) BY <1>9, StepIs
  <2>4. \A i \in 1..n : Is(M[1+e+e+i], "assign", l[i], m) BY <1>9, StepIs
  <2>5. QED BY <1>7, <1>8, <2>2, <2>3, <2>4 DEF ConstructBlock, n, e, l, m
<1>11. x.op # "modules" OBVIOUS
<1>12. /\ BlockOf(M, 1, Len(M)) /\ BlockFits(M, 1, Len(M), x)
       /\ \A k \in 1+1..Len(M)-1 : M[k].kind \in InsideKinds
  BY <1>10, <1>11, ConstructBlockFits
<1>13. QED BY <1>7, <1>12, OneBlockFits DEF M

(* get_unit_to_module. *)
LEMMA ReadMethodFits ==
  ASSUME NEW x, x.op = "modules"
  PROVE  MethodFits(Method(x), x)
<1> DEFINE M == Method(x)
           e == Len(AllUnits)
           s == ReadModules
           end == Unlock("modules")
<1>1. M = <<Lock>> \o s \o <<end>> BY DEF Method, GetUnitToModule
<1>2. UnrolledTo(AllUnits, s, "read", None) BY ReadSteps
<1>3. Lock \in StepType /\ end \in StepType BY StepsTyped DEF Labels
<1>4. e \in Nat BY CaptureControlAssumption, LenIsNat
<1> HIDE DEF M, e, s, end
<1>5. s \in Seq(StepType) /\ Len(s) = e /\ \A i \in 1..e : s[i] = Step("read", AllUnits[i], None)
  BY <1>2 DEF UnrolledTo, e
<1>6. OnePart(M, Lock, s, end)
  <2>1. OnePart(<<Lock>> \o s \o <<end>>, Lock, s, end) BY <1>3, <1>5, LockedPart, Zenon
  <2>2. QED BY <1>1, <2>1
<1>7. Len(M) = 1 + e + 1 /\ Len(M) \in Nat BY <1>4, <1>5, <1>6 DEF OnePart
<1>8. Enclosed(M, 1, Len(M), "modules")
  <2>1. M[1] = Lock /\ M[Len(M)] = end BY <1>6 DEF OnePart
  <2>2. 0 < 1 /\ 1 < Len(M) /\ Len(M) <= Len(M) BY <1>4, <1>7
  <2>3. QED BY <1>7, <2>1, <2>2 DEF Enclosed, end
<1>9. \A i \in 1..e : M[1+i].kind = "read" /\ M[1+i].at = AllUnits[i]
  <2>1. \A i \in 1..e : M[1+i] = s[i] BY <1>5, <1>6 DEF OnePart
  <2>2. \A i \in 1..e : Is(M[1+i], "read", AllUnits[i], None) BY <1>5, <2>1, StepIs
  <2>3. QED BY <2>2 DEF Is
<1>10. /\ BlockOf(M, 1, Len(M)) /\ BlockFits(M, 1, Len(M), x)
       /\ \A k \in 1+1..Len(M)-1 : M[k].kind \in InsideKinds
  BY <1>7, <1>8, <1>9, ReadBlockFits DEF e
<1>11. QED BY <1>7, <1>10, OneBlockFits DEF M

(* initialize: three blocks, and between the second and the third a write  *)
(* to CTRL of each unit.                                                   *)
InitializeParts(M, D, s2, s3, R, p, q) ==
  /\ Len(M) = Len(D) + Len(s2) + Len(s3) + Len(R) + 2
  /\ \A i \in 1..Len(D) : M[i] = D[i]
  /\ M[Len(D)+1] = p
  /\ \A i \in 1..Len(s2) : M[Len(D)+1+i] = s2[i]
  /\ M[Len(D)+1+Len(s2)+1] = q
  /\ \A i \in 1..Len(s3) : M[Len(D)+Len(s2)+2+i] = s3[i]
  /\ \A i \in 1..Len(R) : M[Len(D)+Len(s2)+Len(s3)+2+i] = R[i]

(* The steps of initialize by their places.                                *)
LEMMA InitializeInParts ==
  ASSUME NEW S, NEW p \in S, NEW q \in S,
         NEW D \in Seq(S), NEW s2 \in Seq(S), NEW s3 \in Seq(S), NEW R \in Seq(S)
  PROVE  InitializeParts(D \o <<p>> \o s2 \o <<q>> \o s3 \o R, D, s2, s3, R, p, q)
BY SMTT(60) DEF InitializeParts

(* A method of three blocks, with nothing between the first two and writes *)
(* to CTRL of single units between the others.                             *)
LEMMA ThreeBlocksFit ==
  ASSUME NEW M, NEW x, Len(M) \in Nat,
         NEW b1 \in Nat, NEW a2 \in Nat, NEW b2 \in Nat, NEW a3 \in Nat,
         a2 = b1 + 1, b2 < a3,
         BlockOf(M, 1, b1), BlockOf(M, a2, b2), BlockOf(M, a3, Len(M)),
         BlockFits(M, 1, b1, x), BlockFits(M, a2, b2, x), BlockFits(M, a3, Len(M), x),
         \A k \in 1+1..b1-1 : M[k].kind \in InsideKinds,
         \A k \in a2+1..b2-1 : M[k].kind \in InsideKinds,
         \A k \in a3+1..Len(M)-1 : M[k].kind \in InsideKinds,
         \A k \in b2+1..a3-1 : M[k].kind = "zero"
  PROVE  MethodFits(M, x)
<1>1. /\ 1 < b1 /\ a2 < b2 /\ a3 < Len(M)
      /\ M[1].kind = "lock" /\ M[a2].kind = "lock" /\ M[a3].kind = "lock"
      /\ M[b1].kind = "unlock" /\ M[b2].kind = "unlock" /\ M[Len(M)].kind = "unlock"
  BY DEF BlockOf
<1>2. ASSUME NEW k \in 1..Len(M)
      PROVE  \/ k \in {1, a2, a3}
             \/ k \in {b1, b2, Len(M)}
             \/ k \in 1+1..b1-1 \/ k \in a2+1..b2-1 \/ k \in a3+1..Len(M)-1
             \/ k \in b2+1..a3-1
  BY <1>1
<1>3. ASSUME NEW k \in 1..Len(M)
      PROVE  /\ M[k].kind \in Brackets \cup InsideKinds \cup {"zero"}
             /\ M[k].kind = "lock" => k \in {1, a2, a3}
             /\ M[k].kind = "unlock" => k \in {b1, b2, Len(M)}
             /\ M[k].kind \in InsideKinds =>
                  k \in 1+1..b1-1 \/ k \in a2+1..b2-1 \/ k \in a3+1..Len(M)-1
  BY <1>1, <1>2 DEF Brackets, InsideKinds
<1>4. /\ 1 \in 1..Len(M) /\ b1 \in 1..Len(M) /\ a2 \in 1..Len(M) /\ b2 \in 1..Len(M)
      /\ a3 \in 1..Len(M) /\ Len(M) \in 1..Len(M)
  BY <1>1
<1>5. ASSUME NEW a \in 1..Len(M), NEW b \in 1..Len(M), BlockOf(M, a, b)
      PROVE  BlockFits(M, a, b, x)
  <2>1. a \in {1, a2, a3} /\ b \in {b1, b2, Len(M)} /\ a < b BY <1>3, <1>5 DEF BlockOf
  <2>2. \A k \in a+1..b-1 : M[k].kind # "unlock" BY <1>5 DEF BlockOf, Brackets
  <2>3. ~(b1 \in a+1..b-1) /\ ~(b2 \in a+1..b-1) BY <1>1, <2>2
  <2>4. CASE a = 1
    <3>1. b = b1 BY <1>1, <2>1, <2>3, <2>4
    <3>2. QED BY <2>4, <3>1
  <2>5. CASE a = a2
    <3>1. b = b2 BY <1>1, <2>1, <2>3, <2>5
    <3>2. QED BY <2>5, <3>1
  <2>6. CASE a = a3
    <3>1. b = Len(M) BY <1>1, <2>1, <2>6
    <3>2. QED BY <2>6, <3>1
  <2>7. QED BY <2>1, <2>4, <2>5, <2>6
<1>6. ASSUME NEW k \in 1..Len(M), M[k].kind = "lock"
      PROVE  \E b \in 1..Len(M) : BlockOf(M, k, b)
  <2>1. k = 1 \/ k = a2 \/ k = a3 BY <1>3, <1>6
  <2>2. QED BY <1>4, <2>1
<1>7. ASSUME NEW k \in 1..Len(M), M[k].kind = "unlock"
      PROVE  \E a \in 1..Len(M) : BlockOf(M, a, k)
  <2>1. k = b1 \/ k = b2 \/ k = Len(M) BY <1>3, <1>7
  <2>2. QED BY <1>4, <2>1
<1>8. ASSUME NEW k \in 1..Len(M), M[k].kind \in InsideKinds
      PROVE  \E a, b \in 1..Len(M) : BlockOf(M, a, b) /\ a < k /\ k < b
  <2>1. k \in 1+1..b1-1 \/ k \in a2+1..b2-1 \/ k \in a3+1..Len(M)-1 BY <1>3, <1>8
  <2>2. (1 < k /\ k < b1) \/ (a2 < k /\ k < b2) \/ (a3 < k /\ k < Len(M)) BY <1>1, <2>1
  <2>3. QED BY <1>4, <2>2
<1>9. Len(M) > 0 BY <1>1
<1>10. QED BY <1>3, <1>5, <1>6, <1>7, <1>8, <1>9 DEF MethodFits

(* initialize: the masks, the selection, the CTRL of each unit, and the    *)
(* reset.                                                                  *)
LEMMA InitializeMethodFits ==
  ASSUME NEW x, x.op = "initialize", x.units \in Seq(Units)
  PROVE  MethodFits(Method(x), x)
<1> DEFINE l == x.units
           n == Len(l)
           M == Method(x)
           D == DisableStartTrigger(l)
           s2 == DeselectAll(l)
           s3 == ForEach(l, LAMBDA u : ZeroCtrl(u))
           R == ResetCaptureUnits(l)
           none == ""
           end == Unlock(none)
           bits == <<Ctrl("RESET", 1), Ctrl("RESET", 0)>>
<1>1. M = D \o <<Lock>> \o s2 \o <<end>> \o s3 \o R BY DEF Method, Initialize
<1>2. none \in Labels /\ none \notin {"enable", "disable", "construct", "modules"} BY DEF Labels
<1>3. n \in Nat BY LenIsNat
<1>4. /\ D \in Seq(StepType) /\ Len(D) = n + 2 /\ D[1] = Lock /\ D[n+2] = Unlock("disable")
      /\ \A i \in 1..n : Is(D[1+i], "mask", l[i], MaskVal("disable"))
  <2>1. MaskVal("disable") = 0 BY DEF MaskVal
  <2>2. D = MaskMethod(l, "disable") BY <2>1 DEF DisableStartTrigger, MaskMethod
  <2>3. "disable" \in {"enable", "disable"} OBVIOUS
  <2>4. QED BY <2>2, <2>3, MaskPart
<1>5. R = <<Lock>> \o SelectAll(l) \o bits \o DeselectAll(l) \o <<Unlock(none)>>
  BY DEF ResetCaptureUnits
<1>6. bits \in Seq(StepType) BY StepsTyped DEF CtrlBits
<1>7. Len(bits) = 2 /\ BitsFit(bits)
  <2>1. Len(bits) = 2 OBVIOUS
  <2>2. Is(bits[1], "ctrl", "RESET", 1) /\ Is(bits[2], "ctrl", "RESET", 0) BY StepIs DEF Ctrl
  <2> HIDE DEF bits
  <2>3. \A i \in 1..Len(bits) : i = 1 \/ i = 2 BY <2>1
  <2>4. BitsFit(bits) BY <2>1, <2>2, <2>3 DEF BitsFit, Is, CtrlBits
  <2>5. QED BY <2>1, <2>4
<1>8. /\ UnrolledTo(l, SelectAll(l), "sel", 1) /\ UnrolledTo(l, s2, "sel", 0)
      /\ UnrolledTo(l, s3, "zero", 0)
  BY SelectAllSteps, DeselectAllSteps, ZeroSteps
<1>9. x.op # "modules" OBVIOUS
<1>10. Lock \in StepType /\ end \in StepType BY <1>2, StepsTyped
<1> HIDE DEF l, n, M, D, s2, s3, R, none, bits
<1>11. R \in Seq(StepType) /\ SelectBlock(R, 1, Len(R), none, l, bits) /\ Len(R) \in Nat
  <2>1. SelectAll(l) \in Seq(StepType) /\ DeselectAll(l) \in Seq(StepType) BY <1>8 DEF UnrolledTo, s2
  <2>2. <<Lock>> \o SelectAll(l) \o bits \o DeselectAll(l) \o <<Unlock(none)>> \in Seq(StepType)
    BY <1>6, <1>10, <2>1, LockedThreeParts, Zenon
  <2>3. SelectBlock(R, 1, Len(R), none, l, bits)
    BY <1>2, <1>5, <1>6, <1>7, <1>9, SelectMethodFits DEF l
  <2>4. R \in Seq(StepType) BY <1>5, <2>2
  <2>5. QED BY <2>3, <2>4, LenIsNat
<1>12. Len(R) = n + n + 4
  <2>1. Len(R) = 1 + n + 2 + n + 1 BY <1>7, <1>11 DEF SelectBlock, n
  <2>2. QED BY <1>3, <2>1
<1>13. /\ s2 \in Seq(StepType) /\ s3 \in Seq(StepType) /\ Len(s2) = n /\ Len(s3) = n
  BY <1>8 DEF UnrolledTo, n
<1>14. InitializeParts(M, D, s2, s3, R, Lock, end)
  <2>1. D \in Seq(StepType) BY <1>4
  <2>2. R \in Seq(StepType) BY <1>11
  <2>3. InitializeParts(D \o <<Lock>> \o s2 \o <<end>> \o s3 \o R, D, s2, s3, R, Lock, end)
    BY <1>10, <1>13, <2>1, <2>2, InitializeInParts, Zenon
  <2>4. QED BY <1>1, <2>3
<1> HIDE DEF end
<1> DEFINE b1 == n + 2
           a2 == n + 3
           b2 == n + n + 4
           a3 == n + n + n + 5
<1>15. /\ Len(M) = n + n + n + n + n + 8 /\ Len(M) \in Nat
       /\ b1 \in Nat /\ a2 \in Nat /\ b2 \in Nat /\ a3 \in Nat /\ a2 = b1 + 1 /\ b2 < a3
  BY <1>3, <1>4, <1>12, <1>13, <1>14 DEF InitializeParts
<1>16. /\ \A i \in 1..Len(D) : M[i] = D[i]
       /\ M[a2] = Lock /\ M[b2] = end
       /\ \A i \in 1..n : M[a2+i] = s2[i]
       /\ \A i \in 1..n : M[b2+i] = s3[i]
       /\ \A i \in 1..Len(R) : M[b2+n+i] = R[i]
  <2>1. Len(D)+1 = a2 /\ Len(D)+1+n+1 = b2 /\ Len(D)+n+2 = b2 /\ Len(D)+n+n+2 = b2+n
    BY <1>3, <1>4
  <2>2. /\ \A i \in 1..Len(D) : M[i] = D[i]
        /\ M[Len(D)+1] = Lock
        /\ \A i \in 1..n : M[Len(D)+1+i] = s2[i]
        /\ M[Len(D)+1+n+1] = end
        /\ \A i \in 1..n : M[Len(D)+n+2+i] = s3[i]
        /\ \A i \in 1..Len(R) : M[Len(D)+n+n+2+i] = R[i]
    BY <1>13, <1>14 DEF InitializeParts
  <2> HIDE DEF a2, b2
  <2>3. QED BY <2>1, <2>2
<1>17. /\ BlockOf(M, 1, b1) /\ BlockFits(M, 1, b1, x)
       /\ \A k \in 1+1..b1-1 : M[k].kind \in InsideKinds
  <2>1. M[1] = Lock /\ M[b1] = Unlock("disable")
    <3>1. 1 \in 1..Len(D) /\ n+2 \in 1..Len(D) BY <1>3, <1>4
    <3>2. QED BY <1>4, <1>16, <3>1
  <2>2. 0 < 1 /\ 1 < b1 /\ b1 <= Len(M) BY <1>3, <1>15
  <2>3. Enclosed(M, 1, b1, "disable") BY <1>15, <2>1, <2>2 DEF Enclosed
  <2>4. ASSUME NEW i \in 1..n PROVE Is(M[1+i], "mask", l[i], MaskVal("disable"))
    <3>1. 1+i \in 1..Len(D) BY <1>3, <1>4
    <3>2. QED BY <1>4, <1>16, <3>1
  <2>5. b1 = 1 + n + 1 BY <1>3
  <2>6. "disable" \in {"enable", "disable"} OBVIOUS
  <2> HIDE DEF b1
  <2>7. QED BY <1>9, <2>3, <2>4, <2>5, <2>6, MaskBlockFits DEF l, n
<1>18. /\ BlockOf(M, a2, b2) /\ BlockFits(M, a2, b2, x)
       /\ \A k \in a2+1..b2-1 : M[k].kind \in InsideKinds
  <2>1. 0 < a2 /\ a2 < b2 /\ b2 <= Len(M) BY <1>3, <1>15
  <2>2. Enclosed(M, a2, b2, none) BY <1>15, <1>16, <2>1 DEF Enclosed, end
  <2>3. PlainSteps(M, a2, b2)
    <3>1. ASSUME NEW k \in a2+1..b2-1
          PROVE  M[k].kind = "sel" /\ M[k].at \in Units /\ M[k].val = 0
      <4>1. k - a2 \in 1..n /\ a2 + (k - a2) = k BY <1>3
      <4>2. M[k] = s2[k - a2] BY <1>16, <4>1
      <4>3. s2[k - a2] = Step("sel", l[k - a2], 0) BY <1>8, <4>1 DEF UnrolledTo, n
      <4>4. Is(M[k], "sel", l[k - a2], 0) BY <4>2, <4>3, StepIs
      <4>5. l[k - a2] \in Units BY <4>1 DEF l, n
      <4>6. QED BY <4>4, <4>5 DEF Is
    <3>2. QED BY <3>1 DEF PlainSteps
  <2> HIDE DEF a2, b2
  <2>4. QED BY <1>2, <1>9, <2>2, <2>3, PlainBlockFits
<1>19. /\ BlockOf(M, a3, Len(M)) /\ BlockFits(M, a3, Len(M), x)
       /\ \A k \in a3+1..Len(M)-1 : M[k].kind \in InsideKinds
  <2>1. \A i \in 1..Len(R) : M[b2+n+i] = R[i] BY <1>16
  <2>2. a3 = b2 + n + 1 /\ Len(M) = b2 + n + Len(R) BY <1>3, <1>12, <1>15
  <2>3. /\ Enclosed(R, 1, Len(R), none) /\ Len(R) = 1 + n + 2 + n + 1
        /\ \A i \in 1..n : Is(R[1+i], "sel", l[i], 1)
        /\ \A i \in 1..2 : R[1+n+i] = bits[i]
        /\ \A i \in 1..n : Is(R[1+n+2+i], "sel", l[i], 0)
    BY <1>7, <1>11 DEF SelectBlock, n
  <2>4. M[a3] = Lock /\ M[Len(M)] = Unlock(none)
    <3>1. 1 \in 1..Len(R) /\ Len(R) \in 1..Len(R) BY <1>3, <1>12
    <3>2. M[b2+n+1] = R[1] /\ M[b2+n+Len(R)] = R[Len(R)] BY <2>1, <3>1
    <3>3. QED BY <2>2, <2>3, <3>2 DEF Enclosed
  <2>5. Enclosed(M, a3, Len(M), none)
    <3>1. 0 < a3 /\ a3 < Len(M) /\ Len(M) <= Len(M) BY <1>3, <1>15
    <3>2. QED BY <1>15, <2>4, <3>1 DEF Enclosed
  <2>6. /\ \A i \in 1..n : Is(M[a3+i], "sel", l[i], 1)
        /\ \A i \in 1..2 : M[a3+n+i] = bits[i]
        /\ \A i \in 1..n : Is(M[a3+n+2+i], "sel", l[i], 0)
    <3>1. ASSUME NEW i \in 1..n PROVE M[a3+i] = R[1+i] /\ M[a3+n+2+i] = R[1+n+2+i]
      <4>1. 1+i \in 1..Len(R) /\ 1+n+2+i \in 1..Len(R) BY <1>3, <1>12
      <4>2. b2+n+(1+i) = a3+i /\ b2+n+(1+n+2+i) = a3+n+2+i BY <1>3
      <4>3. QED BY <2>1, <4>1, <4>2
    <3>2. ASSUME NEW i \in 1..2 PROVE M[a3+n+i] = R[1+n+i]
      <4>1. 1+n+i \in 1..Len(R) BY <1>3, <1>12
      <4>2. b2+n+(1+n+i) = a3+n+i BY <1>3
      <4>3. QED BY <2>1, <4>1, <4>2
    <3>3. QED BY <2>3, <3>1, <3>2
  <2>7. Len(M) = a3 + n + 2 + n + 1 BY <1>3, <1>15
  <2> HIDE DEF a3, b2
  <2>8. SelectBlock(M, a3, Len(M), none, l, bits) BY <1>7, <2>5, <2>6, <2>7 DEF SelectBlock, n
  <2>9. QED BY <1>2, <1>7, <1>9, <2>8, SelectBlockFits DEF l
<1>20. \A k \in b2+1..a3-1 : M[k].kind = "zero"
  <2>1. ASSUME NEW k \in b2+1..a3-1 PROVE M[k].kind = "zero"
    <3>1. k - b2 \in 1..n /\ b2 + (k - b2) = k BY <1>3
    <3>2. M[k] = s3[k - b2] BY <1>16, <3>1
    <3>3. s3[k - b2] = Step("zero", l[k - b2], 0) BY <1>8, <3>1 DEF UnrolledTo, n
    <3>4. Is(M[k], "zero", l[k - b2], 0) BY <3>2, <3>3, StepIs
    <3>5. QED BY <3>4 DEF Is
  <2>2. QED BY <2>1
<1> HIDE DEF b1, a2, b2, a3
<1>21. QED BY <1>15, <1>17, <1>18, <1>19, <1>20, ThreeBlocksFit DEF M

(* Every call there is makes the steps that its method should have. *)
THEOREM MethodsFit ==
  \A c \in Clients : \A x \in Calls[c] : MethodFits(Method(x), x)
<1> SUFFICES ASSUME NEW c \in Clients, NEW x \in Calls[c] PROVE MethodFits(Method(x), x)
  OBVIOUS
<1>1. /\ x.op \in OpNames /\ x.units \in Seq(Units)
      /\ x.module \in Modules \cup {None} /\ x.awg \in AWGs \cup {None}
  BY CaptureControlAssumption
<1>2. \/ x.op \in {"start", "reset", "clear"} \/ x.op \in {"enable", "disable"}
      \/ x.op = "initialize" \/ x.op = "trigger" \/ x.op = "construct" \/ x.op = "modules"
  BY <1>1 DEF OpNames
<1>3. QED BY <1>1, <1>2, SelectMethodsFit, MaskMethodsFit, InitializeMethodFits,
             TriggerMethodFits, ConstructMethodFits, ReadMethodFits

-----------------------------------------------------------------------------
(* The invariant. *)
Inside(c, a, b) == Active(c) /\ BlockOf(Steps(c), a, b) /\ a < pc[c] /\ pc[c] <= b

HasLock(c) == Active(c) /\ \E a, b \in 1..Len(Steps(c)) : Inside(c, a, b)

LockIsBlock == \A c \in Clients : lockHolder = c <=> HasLock(c)

(* What a write_bits has read is still in the register. *)
ReadFresh ==
  \A c \in Clients : readVal[c] # <<>> =>
    /\ lockHolder = c
    /\ At(c, "sel") \/ At(c, "mask") \/ At(c, "ctrl")
    /\ At(c, "sel") => readVal[c] = <<targetSel>>
    /\ At(c, "mask") => readVal[c] = <<trigMask>>
    /\ At(c, "ctrl") => readVal[c] = <<masterCtrl>>

GotInside == \A c \in Clients : got[c] # <<>> => lockHolder = c

(* u is where the calls that ended have put it. *)
InPlace(u) == \A m \in Modules : modSel[u] = m <=> u \in wanted[m]

(* ... or where the call x will have put it. *)
InPlaceAfter(u, x) ==
  \A m \in Modules : modSel[u] = m <=>
    u \in (IF m = x.module THEN Elements(x.units) ELSE wanted[m] \ Elements(x.units))

MaskAfter(what, x) ==
  IF what = "enable" THEN armed \cup Elements(x.units)
  ELSE IF what = "disable" THEN armed \ Elements(x.units)
  ELSE armed

(* What the registers hold at each step of a block: what it has written,   *)
Written(c, a, b) ==
  /\ \A u \in Units, v \in {0, 1} :
       Behind(Steps(c), a, pc[c], "sel", u, v) => (u \in targetSel <=> v = 1)
  /\ \A bit \in CtrlBits, v \in {0, 1} :
       Behind(Steps(c), a, pc[c], "ctrl", bit, v) => (bit \in masterCtrl <=> v = 1)

(* what it will still clear,                                               *)
Cleared(c, a, b) ==
  /\ \A u \in targetSel : Ahead(Steps(c), pc[c], b, "sel", u, 0)
  /\ \A bit \in masterCtrl : Ahead(Steps(c), pc[c], b, "ctrl", bit, 0)

(* which units are masked as they will be at its end, or will be,          *)
Masked(c, a, b) ==
  LET what == Steps(c)[b].at IN
  \A u \in Units :
    \/ u \in trigMask <=> u \in MaskAfter(what, call[c])
    \/ Ahead(Steps(c), pc[c], b, "mask", u, MaskVal(what))

(* which are in the module they will be in at its end, or will be,         *)
Placed(c, a, b) ==
  LET M == Steps(c)
      x == call[c]
      ahead(kinds) == SomeAhead(M, pc[c], b, kinds)
  IN
  /\ M[b].at # "construct" \/ ahead({"read"}) => \A u \in Units : InPlace(u)
  /\ M[b].at = "construct" =>
       \A u \in Units :
         IF u \in Elements(x.units)
         THEN \/ Ahead(M, pc[c], b, "assign", u, x.module)
              \/ modSel[u] = x.module /\ ~ahead({"read", "leave"})
         ELSE \/ InPlace(u) /\ Ahead(M, pc[c], b, "leave", u, x.module)
              \/ InPlaceAfter(u, x)

(* and which modules it has read.                                          *)
ReadSoFar(c, a, b) ==
  LET M == Steps(c)
      made == pc[c] - a - 1
  IN
  SomeAhead(M, a+1, b, {"read", "leave"}) \/ M[b].at = "modules" =>
    Len(got[c]) = IF made <= Len(AllUnits) THEN made ELSE Len(AllUnits)

GotTrue(c) ==
  \A i \in 1..Len(got[c]) : \A m \in Modules : got[c][i] = m <=> AllUnits[i] \in wanted[m]

Progress(c, a, b) ==
  /\ Written(c, a, b) /\ ReadSoFar(c, a, b)
  /\ ~aborted => Cleared(c, a, b) /\ Masked(c, a, b) /\ Placed(c, a, b) /\ GotTrue(c)

InProgress ==
  \A c \in Clients : Active(c) => \A a, b \in 1..Len(Steps(c)) : Inside(c, a, b) => Progress(c, a, b)

AsPromised ==
  AllAsPromised =>
    /\ targetSel = {} /\ masterCtrl = {} /\ trigMask = armed
    /\ \A u \in Units : InPlace(u)

Inv ==
  TypeOK /\ LockIsBlock /\ ReadFresh /\ GotInside /\ InProgress /\ AsPromised

-----------------------------------------------------------------------------
(* A client in a call, and the method it is in. *)
LEMMA AtStep ==
  ASSUME ClientTypeOK, NEW c \in Clients, Active(c)
  PROVE  /\ call[c] \in Calls[c]
         /\ Steps(c) = Method(call[c]) /\ MethodFits(Steps(c), call[c])
         /\ Len(Steps(c)) \in Nat /\ pc[c] \in 1..Len(Steps(c)) /\ pc[c] \in Nat
         /\ Now(c) = Steps(c)[pc[c]]
         /\ call[c].units \in Seq(Units) /\ call[c].module \in Modules \cup {None}
         /\ Elements(call[c].units) \subseteq Units
<1>1. call[c] \in Calls[c] BY DEF ClientTypeOK, AtSomeStep, Active
<1>2. call[c] \in AllCalls BY <1>1 DEF AllCalls
<1>3. Steps(c) = Method(call[c]) BY <1>2 DEF Steps, Methods
<1>4. MethodFits(Steps(c), call[c]) BY <1>1, <1>3, MethodsFit
<1>5. Len(Steps(c)) \in Nat BY <1>4 DEF MethodFits
<1>6. pc[c] \in 1..Len(Steps(c)) /\ pc[c] \in Nat BY <1>3, <1>5 DEF ClientTypeOK, AtSomeStep
<1>7. call[c].units \in Seq(Units) /\ call[c].module \in Modules \cup {None}
  BY <1>1, CaptureControlAssumption
<1>8. Elements(call[c].units) \subseteq Units BY <1>7 DEF Elements
<1>9. QED BY <1>1, <1>3, <1>4, <1>5, <1>6, <1>7, <1>8 DEF Now

(* Two blocks do not overlap. *)
LEMMA OneBlockAtAStep ==
  ASSUME NEW M, Len(M) \in Nat, NEW k \in Nat,
         NEW a, NEW b, BlockOf(M, a, b), a < k, k <= b,
         NEW a2, NEW b2, BlockOf(M, a2, b2), a2 < k, k <= b2
  PROVE  a2 = a /\ b2 = b
<1>1. /\ a \in 1..Len(M) /\ b \in 1..Len(M) /\ a2 \in 1..Len(M) /\ b2 \in 1..Len(M)
      /\ M[a].kind = "lock" /\ M[a2].kind = "lock"
      /\ M[b].kind = "unlock" /\ M[b2].kind = "unlock"
  BY DEF BlockOf
<1>2. /\ \A i \in a+1..b-1 : M[i].kind # "lock" /\ M[i].kind # "unlock"
      /\ \A i \in a2+1..b2-1 : M[i].kind # "lock" /\ M[i].kind # "unlock"
  BY DEF BlockOf, Brackets
<1>3. ~(a2 \in a+1..b-1) /\ ~(a \in a2+1..b2-1) BY <1>1, <1>2
<1>4. a2 = a BY <1>1, <1>3
<1>5. ~(b2 \in a+1..b-1) /\ ~(b \in a2+1..b2-1) BY <1>1, <1>2
<1>6. QED BY <1>1, <1>4, <1>5

(* What is ahead and behind, one step on. *)
LEMMA AheadNext ==
  ASSUME NEW M, NEW k \in Nat, NEW b \in Nat, k < b, NEW kind, NEW at, NEW val
  PROVE  /\ Ahead(M, k, b, kind, at, val) => Is(M[k], kind, at, val) \/ Ahead(M, k+1, b, kind, at, val)
         /\ Ahead(M, k+1, b, kind, at, val) => Ahead(M, k, b, kind, at, val)
<1>1. \A j \in k..b-1 : j = k \/ j \in k+1..b-1 OBVIOUS
<1>2. \A j \in k+1..b-1 : j \in k..b-1 OBVIOUS
<1>3. QED BY <1>1, <1>2, Zenon DEF Ahead

(* The same for a step of some kinds.                                      *)
LEMMA SomeAheadNext ==
  ASSUME NEW M, NEW k \in Nat, NEW b \in Nat, k < b, NEW kinds
  PROVE  /\ SomeAhead(M, k+1, b, kinds) => SomeAhead(M, k, b, kinds)
         /\ M[k].kind \in kinds => SomeAhead(M, k, b, kinds)
<1>1. \A j \in k+1..b-1 : j \in k..b-1 OBVIOUS
<1>2. k \in k..b-1 OBVIOUS
<1>3. QED BY <1>1, <1>2, Zenon DEF SomeAhead

(* Nothing is ahead at the end of a block.                                 *)
LEMMA NothingAhead ==
  ASSUME NEW M, NEW b \in Nat
  PROVE  /\ \A kind, at, val : ~Ahead(M, b, b, kind, at, val)
         /\ \A kinds : ~SomeAhead(M, b, b, kinds)
BY DEF Ahead, SomeAhead

(* What is behind one step on was behind before, or is the step made.      *)
LEMMA BehindNext ==
  ASSUME NEW M, NEW a \in Nat, NEW k \in Nat, a < k, NEW kind, NEW at, NEW val,
         Behind(M, a, k+1, kind, at, val)
  PROVE  \/ Is(M[k], kind, at, val)
         \/ /\ Behind(M, a, k, kind, at, val)
            /\ M[k].kind = kind /\ M[k].at = at => M[k].val = val
<1>1. PICK j \in a+1..(k+1)-1 :
        /\ Is(M[j], kind, at, val)
        /\ \A i \in j+1..(k+1)-1 : M[i].kind = kind /\ M[i].at = at => M[i].val = val
  BY DEF Behind
<1>2. CASE j = k BY <1>1, <1>2
<1>3. CASE j # k
  <2>1. j \in a+1..k-1 /\ k \in j+1..(k+1)-1 BY <1>3
  <2>2. \A i \in j+1..k-1 : i \in j+1..(k+1)-1 OBVIOUS
  <2>3. QED BY <1>1, <2>1, <2>2 DEF Behind
<1>4. QED BY <1>2, <1>3

(* Nothing is behind at the start of a block.                              *)
LEMMA NothingBehind ==
  ASSUME NEW M, NEW a \in Nat
  PROVE  \A kind, at, val : ~Behind(M, a, a+1, kind, at, val)
BY DEF Behind

-----------------------------------------------------------------------------
(* A step of one client leaves the others where they are. *)
LEMMA StepStays ==
  ASSUME NEW d \in Clients, AtSomeStep(d),
         call'[d] = call[d], pc'[d] = pc[d], readVal'[d] = readVal[d], got'[d] = got[d]
  PROVE  AtSomeStep(d)'
BY DEF AtSomeStep, Active, Steps

(* A move of a client to its next step, or out of its method. *)
LEMMA ReturnMoves ==
  ASSUME ClientTypeOK, NEW c \in Clients, Return(c)
  PROVE  /\ ClientTypeOK' /\ ~Active(c)' /\ readVal'[c] = <<>> /\ got'[c] = <<>>
         /\ \A d \in Clients \ {c} :
              call'[d] = call[d] /\ pc'[d] = pc[d] /\ readVal'[d] = readVal[d] /\ got'[d] = got[d]
<1>0. /\ call \in [Clients -> AllCalls \cup {NoCall}]
      /\ pc \in [Clients -> Nat]
      /\ readVal \in [Clients -> Seq(RegisterValues)]
      /\ got \in [Clients -> Seq(Modules \cup {None})]
      /\ \A d \in Clients : AtSomeStep(d)
  BY DEF ClientTypeOK
<1>1. /\ call' \in [Clients -> AllCalls \cup {NoCall}]
      /\ pc' \in [Clients -> Nat]
      /\ readVal' \in [Clients -> Seq(RegisterValues)]
      /\ got' \in [Clients -> Seq(Modules \cup {None})]
  <2>1. call' \in [Clients -> AllCalls \cup {NoCall}] BY <1>0 DEF Return
  <2>2. pc' \in [Clients -> Nat] BY <1>0 DEF Return
  <2>3. readVal' \in [Clients -> Seq(RegisterValues)] BY <1>0 DEF Return
  <2>4. got' \in [Clients -> Seq(Modules \cup {None})] BY <1>0 DEF Return
  <2>5. QED BY <2>1, <2>2, <2>3, <2>4
<1>2. /\ call'[c] = NoCall /\ pc'[c] = 1 /\ readVal'[c] = <<>> /\ got'[c] = <<>>
      /\ \A d \in Clients \ {c} :
           call'[d] = call[d] /\ pc'[d] = pc[d] /\ readVal'[d] = readVal[d] /\ got'[d] = got[d]
  BY <1>0 DEF Return
<1>3. ASSUME NEW d \in Clients PROVE AtSomeStep(d)'
  <2>1. CASE d = c BY <1>2, <2>1 DEF Active, AtSomeStep, Steps
  <2>2. CASE d # c BY <1>0, <1>2, <2>2, StepStays
  <2>3. QED BY <2>1, <2>2
<1>4. ClientTypeOK' BY <1>1, <1>3 DEF ClientTypeOK
<1>5. QED BY <1>2, <1>4 DEF Active

Moved(c, modules) ==
  /\ call'[c] = call[c] /\ pc'[c] = pc[c] + 1 /\ got'[c] = modules
  /\ pc[c] < Len(Steps(c))

(* A move to the next step: the call ends after the last one.              *)
LEMMA AdvanceMoves ==
  ASSUME ClientTypeOK, NEW c \in Clients, Active(c),
         NEW modules \in Seq(Modules \cup {None}), Advance(c, modules)
  PROVE  /\ ClientTypeOK' /\ readVal'[c] = <<>>
         /\ \/ pc[c] = Len(Steps(c)) /\ ~Active(c)' /\ got'[c] = <<>>
            \/ Moved(c, modules) /\ Active(c)'
         /\ \A d \in Clients \ {c} :
              call'[d] = call[d] /\ pc'[d] = pc[d] /\ readVal'[d] = readVal[d] /\ got'[d] = got[d]
<1>1. /\ Steps(c) = Method(call[c]) /\ Len(Steps(c)) \in Nat
      /\ pc[c] \in 1..Len(Steps(c)) /\ pc[c] \in Nat
  BY AtStep
<1>2. CASE pc[c] = Len(Steps(c))
  <2>1. Return(c) BY <1>2 DEF Advance
  <2>2. QED BY <1>2, <2>1, ReturnMoves
<1>3. CASE pc[c] # Len(Steps(c))
  <2>1. /\ pc' = [pc EXCEPT ![c] = @ + 1]
        /\ readVal' = [readVal EXCEPT ![c] = <<>>]
        /\ got' = [got EXCEPT ![c] = modules]
        /\ call' = call
    BY <1>3 DEF Advance
  <2>2. /\ call \in [Clients -> AllCalls \cup {NoCall}]
        /\ pc \in [Clients -> Nat]
        /\ readVal \in [Clients -> Seq(RegisterValues)]
        /\ got \in [Clients -> Seq(Modules \cup {None})]
        /\ \A d \in Clients : AtSomeStep(d)
    BY DEF ClientTypeOK
  <2>3. /\ pc'[c] = pc[c] + 1 /\ readVal'[c] = <<>> /\ got'[c] = modules
        /\ \A d \in Clients \ {c} :
             pc'[d] = pc[d] /\ readVal'[d] = readVal[d] /\ got'[d] = got[d]
    BY <2>1, <2>2
  <2>4. pc[c] < Len(Steps(c)) /\ pc[c] + 1 \in 1..Len(Steps(c)) BY <1>1, <1>3
  <2>5. ASSUME NEW d \in Clients PROVE AtSomeStep(d)'
    <3>1. CASE d = c BY <1>1, <2>1, <2>2, <2>3, <2>4, <3>1 DEF Active, AtSomeStep, Steps
    <3>2. CASE d # c BY <2>1, <2>2, <2>3, <3>2, StepStays
    <3>3. QED BY <3>1, <3>2
  <2>6. ClientTypeOK'
    <3>1. call' \in [Clients -> AllCalls \cup {NoCall}] BY <2>1, <2>2
    <3>2. pc' \in [Clients -> Nat] BY <1>1, <2>1, <2>2
    <3>3. readVal' \in [Clients -> Seq(RegisterValues)] BY <2>1, <2>2
    <3>4. got' \in [Clients -> Seq(Modules \cup {None})] BY <2>1, <2>2
    <3>5. QED BY <2>5, <3>1, <3>2, <3>3, <3>4 DEF ClientTypeOK
  <2>7. Active(c)' BY <2>1 DEF Active
  <2>8. QED BY <2>1, <2>3, <2>4, <2>6, <2>7 DEF Moved
<1>4. QED BY <1>2, <1>3

(* A client that a step leaves where it is. *)
Stays(d) == call'[d] = call[d] /\ pc'[d] = pc[d] /\ got'[d] = got[d]

(* Such a client is in the block it was in.                                *)
LEMMA StaysInside ==
  ASSUME NEW d \in Clients, Stays(d)
  PROVE  /\ \A a, b : Inside(d, a, b)' <=> Inside(d, a, b)
         /\ HasLock(d)' <=> HasLock(d)
         /\ Active(d)' <=> Active(d)
         /\ \A kind : At(d, kind)' <=> At(d, kind)
         /\ Steps(d)' = Steps(d) /\ pc'[d] = pc[d] /\ call'[d] = call[d] /\ got'[d] = got[d]
<1>1. call'[d] = call[d] /\ pc'[d] = pc[d] /\ got'[d] = got[d] BY DEF Stays
<1>2. (Active(d)' <=> Active(d)) /\ Steps(d)' = Steps(d) BY <1>1 DEF Active, Steps
<1>3. \A a, b : Inside(d, a, b)' <=> Inside(d, a, b) BY <1>1, <1>2 DEF Inside
<1>4. HasLock(d)' <=> HasLock(d) BY <1>2, <1>3 DEF HasLock
<1>5. \A kind : At(d, kind)' <=> At(d, kind) BY <1>1, <1>2 DEF At, Now
<1>6. QED BY <1>1, <1>2, <1>3, <1>4, <1>5

(* A client in a block has the lock.                                       *)
LEMMA InsideHasLock ==
  ASSUME NEW c \in Clients, NEW a, NEW b, Inside(c, a, b)
  PROVE  HasLock(c) /\ a \in 1..Len(Steps(c)) /\ b \in 1..Len(Steps(c))
<1>1. Active(c) /\ BlockOf(Steps(c), a, b) BY DEF Inside
<1>2. a \in 1..Len(Steps(c)) /\ b \in 1..Len(Steps(c)) BY <1>1 DEF BlockOf
<1>3. QED BY <1>1, <1>2 DEF HasLock

(* A step other than to take or release the lock stays in its block, or    *)
(* outside of any.                                                         *)
LEMMA MovesInside ==
  ASSUME ClientTypeOK, NEW c \in Clients, Active(c), Now(c).kind \notin Brackets,
         NEW modules \in Seq(Modules \cup {None}), Advance(c, modules)
  PROVE  /\ HasLock(c)' <=> HasLock(c)
         /\ \A a, b : Inside(c, a, b)' <=> Inside(c, a, b)
         /\ HasLock(c) => Moved(c, modules) /\ Active(c)' /\ Steps(c)' = Steps(c)
<1> DEFINE M == Steps(c)
           k == pc[c]
<1>1. /\ MethodFits(M, call[c]) /\ Len(M) \in Nat /\ k \in 1..Len(M) /\ k \in Nat
      /\ Now(c) = M[k]
  BY AtStep
<1>2. \/ k = Len(M) /\ ~Active(c)' /\ got'[c] = <<>>
      \/ Moved(c, modules) /\ Active(c)'
  BY AdvanceMoves
<1>3. ASSUME NEW a, NEW b, Inside(c, a, b) PROVE k # b /\ k < Len(M)
  <2>1. BlockOf(M, a, b) /\ k <= b BY <1>3 DEF Inside
  <2>2. M[b].kind = "unlock" /\ b \in 1..Len(M) BY <2>1 DEF BlockOf
  <2>3. k # b BY <1>1, <2>2 DEF Brackets
  <2>4. QED BY <1>1, <2>1, <2>2, <2>3
<1>4. ASSUME NEW a, NEW b PROVE Inside(c, a, b)' <=> Inside(c, a, b)
  <2>1. CASE ~Active(c)'
    <3>1. k = Len(M) BY <1>2, <2>1
    <3>2. ~Inside(c, a, b) BY <1>1, <1>3, <3>1
    <3>3. QED BY <2>1, <3>2 DEF Inside
  <2>2. CASE Active(c)'
    <3>1. Moved(c, modules) BY <1>2, <2>2
    <3>2. pc'[c] = k + 1 /\ Steps(c)' = M BY <3>1 DEF Moved, Steps
    <3>3. ASSUME BlockOf(M, a, b) PROVE (a < k /\ k <= b) <=> (a < k+1 /\ k+1 <= b)
      <4>1. a \in 1..Len(M) /\ b \in 1..Len(M) /\ M[a].kind = "lock" /\ M[b].kind = "unlock"
        BY <3>3 DEF BlockOf
      <4>2. k # a /\ k # b BY <1>1, <4>1 DEF Brackets
      <4>3. QED BY <1>1, <4>1, <4>2
    <3>4. Inside(c, a, b)' <=> BlockOf(M, a, b) /\ a < k+1 /\ k+1 <= b
      BY <2>2, <3>2 DEF Inside
    <3>5. Inside(c, a, b) <=> BlockOf(M, a, b) /\ a < k /\ k <= b BY DEF Inside
    <3>6. QED BY <3>3, <3>4, <3>5
  <2>3. QED BY <2>1, <2>2
<1>5. HasLock(c) => Moved(c, modules) /\ Active(c)' /\ Steps(c)' = Steps(c)
  <2> SUFFICES ASSUME HasLock(c) PROVE Moved(c, modules) /\ Active(c)' /\ Steps(c)' = Steps(c)
    OBVIOUS
  <2>1. k < Len(M) BY <1>3 DEF HasLock
  <2>2. Moved(c, modules) /\ Active(c)' BY <1>1, <1>2, <2>1
  <2>3. QED BY <2>2 DEF Moved, Steps
<1>6. HasLock(c)' <=> HasLock(c)
  <2>1. ASSUME HasLock(c) PROVE HasLock(c)'
    <3>1. PICK a, b \in 1..Len(M) : Inside(c, a, b) BY <2>1 DEF HasLock
    <3>2. Inside(c, a, b)' BY <1>4, <3>1
    <3>3. QED BY <1>5, <2>1, <3>1, <3>2 DEF HasLock
  <2>2. ASSUME HasLock(c)' PROVE HasLock(c)
    <3>1. \E a, b : Inside(c, a, b)' BY <2>2 DEF HasLock
    <3>2. \E a, b : Inside(c, a, b) BY <1>4, <3>1
    <3>3. QED BY <3>2, InsideHasLock
  <2>3. QED BY <2>1, <2>2
<1>7. QED BY <1>4, <1>5, <1>6

-----------------------------------------------------------------------------
(* The steps inside a block, by what they do to the registers. *)
Move(c) ==
  \/ WriteRegister(c) \/ WriteZero(c) \/ WriteTrigger(c)
  \/ ReadModuleOfUnit(c) \/ LeaveModule(c) \/ AssignModule(c)

BitAfter(reg, s) == IF s.val = 1 THEN reg \cup {s.at} ELSE reg \ {s.at}

(* Was the unit of a step of __clear_capture_module read to be in the      *)
(* module?                                                                 *)
WasIn(c, s) == \E i \in DOMAIN AllUnits : AllUnits[i] = s.at /\ got[c][i] = s.val

ReadNext(c) == IF Now(c).kind = "read" THEN Append(got[c], modSel[Now(c).at]) ELSE got[c]

Effects(c) ==
  LET s == Now(c) IN
  /\ targetSel' = IF s.kind = "sel" THEN BitAfter(targetSel, s) ELSE targetSel
  /\ masterCtrl' = IF s.kind = "ctrl" THEN BitAfter(masterCtrl, s) ELSE masterCtrl
  /\ trigMask' = IF s.kind = "mask" THEN BitAfter(trigMask, s) ELSE trigMask
  /\ modSel' = IF s.kind = "assign" THEN [modSel EXCEPT ![s.at] = s.val]
               ELSE IF s.kind = "leave" /\ WasIn(c, s) THEN [modSel EXCEPT ![s.at] = None]
               ELSE modSel
  /\ lockHolder' = lockHolder /\ aborted' = aborted /\ armed' = armed /\ wanted' = wanted
  /\ Advance(c, ReadNext(c))

(* Each move has these effects; that of a write_bits because what it read  *)
(* is still in the register.                                               *)
LEMMA MoveEffects ==
  ASSUME ReadFresh, NEW c \in Clients, Move(c)
  PROVE  Active(c) /\ Now(c).kind \in InsideKinds \cup {"zero"} /\ Effects(c)
<1>1. CASE WriteRegister(c)
  <2>1. readVal[c] # <<>> /\ Active(c) BY <1>1 DEF WriteRegister, At
  <2>2. /\ Advance(c, got[c])
        /\ lockHolder' = lockHolder /\ aborted' = aborted /\ armed' = armed /\ wanted' = wanted
    BY <1>1 DEF WriteRegister, historyVars
  <2>3. CASE At(c, "sel") /\ WriteTargetSel(Replaced(c))
    <3>1. Now(c).kind = "sel" BY <2>3 DEF At
    <3>2. Head(readVal[c]) = targetSel BY <2>1, <2>3 DEF ReadFresh
    <3>3. Replaced(c) = BitAfter(targetSel, Now(c)) BY <3>2 DEF Replaced, BitAfter
    <3>4. QED BY <2>1, <2>2, <2>3, <3>1, <3>3 DEF Effects, WriteTargetSel, ReadNext, InsideKinds
  <2>4. CASE At(c, "mask") /\ WriteTrigMask(Replaced(c))
    <3>1. Now(c).kind = "mask" BY <2>4 DEF At
    <3>2. Head(readVal[c]) = trigMask BY <2>1, <2>4 DEF ReadFresh
    <3>3. Replaced(c) = BitAfter(trigMask, Now(c)) BY <3>2 DEF Replaced, BitAfter
    <3>4. QED BY <2>1, <2>2, <2>4, <3>1, <3>3 DEF Effects, WriteTrigMask, ReadNext, InsideKinds
  <2>5. CASE At(c, "ctrl") /\ WriteMasterCtrl(Replaced(c))
    <3>1. Now(c).kind = "ctrl" BY <2>5 DEF At
    <3>2. Head(readVal[c]) = masterCtrl BY <2>1, <2>5 DEF ReadFresh
    <3>3. Replaced(c) = BitAfter(masterCtrl, Now(c)) BY <3>2 DEF Replaced, BitAfter
    <3>4. QED BY <2>1, <2>2, <2>5, <3>1, <3>3 DEF Effects, WriteMasterCtrl, ReadNext, InsideKinds
  <2>6. QED BY <1>1, <2>3, <2>4, <2>5 DEF WriteRegister
<1>2. CASE WriteZero(c)
  <2>1. Now(c).kind = "zero" /\ Active(c) BY <1>2 DEF WriteZero, At
  <2>2. QED BY <1>2, <2>1 DEF WriteZero, Effects, WriteCtrl, ReadNext, historyVars
<1>3. CASE WriteTrigger(c)
  <2>1. Now(c).kind = "trigger" /\ Active(c) BY <1>3 DEF WriteTrigger, At
  <2>2. QED BY <1>3, <2>1 DEF WriteTrigger, Effects, WriteTrigSel, ReadNext, InsideKinds, historyVars
<1>4. CASE ReadModuleOfUnit(c)
  <2>1. Now(c).kind = "read" /\ Active(c) BY <1>4 DEF ReadModuleOfUnit, At
  <2>2. QED BY <1>4, <2>1 DEF ReadModuleOfUnit, Effects, ReadNext, InsideKinds, deviceVars, historyVars
<1>5. CASE LeaveModule(c)
  <2>1. Now(c).kind = "leave" /\ Active(c) BY <1>5 DEF LeaveModule, At
  <2>2. /\ targetSel' = targetSel /\ masterCtrl' = masterCtrl /\ trigMask' = trigMask
        /\ modSel' = IF WasIn(c, Now(c)) THEN [modSel EXCEPT ![Now(c).at] = None] ELSE modSel
    BY <1>5 DEF LeaveModule, WasIn, WriteModSel, deviceVars
  <2>3. QED BY <1>5, <2>1, <2>2 DEF LeaveModule, Effects, ReadNext, InsideKinds, historyVars
<1>6. CASE AssignModule(c)
  <2>1. Now(c).kind = "assign" /\ Active(c) BY <1>6 DEF AssignModule, At
  <2>2. QED BY <1>6, <2>1 DEF AssignModule, Effects, WriteModSel, ReadNext, InsideKinds, historyVars
<1>7. QED BY <1>1, <1>2, <1>3, <1>4, <1>5, <1>6 DEF Move

(* Where such a step is and goes to. *)
StepAt(c, a, b, k) ==
  /\ Inside(c, a, b) /\ k = pc[c]
  /\ a \in Nat /\ b \in Nat /\ k \in Nat /\ a < k /\ k < b /\ k \in a+1..b-1
  /\ Now(c) = Steps(c)[k] /\ BlockFits(Steps(c), a, b, call[c])
  /\ Inside(c, a, b)' /\ Steps(c)' = Steps(c) /\ call'[c] = call[c]
  /\ pc'[c] = k + 1 /\ got'[c] = ReadNext(c)

(* What it has read keeps its type.                                        *)
LEMMA ReadNextTyped ==
  ASSUME DeviceTypeOK, ClientTypeOK, NEW c \in Clients,
         Now(c).kind = "read" => Now(c).at \in Units
  PROVE  ReadNext(c) \in Seq(Modules \cup {None})
<1>1. got[c] \in Seq(Modules \cup {None}) BY DEF ClientTypeOK
<1>2. Now(c).kind = "read" => modSel[Now(c).at] \in Modules \cup {None} BY DEF DeviceTypeOK
<1>3. QED BY <1>1, <1>2 DEF ReadNext

(* A read in a block is one of its first, which read every unit in turn.   *)
LEMMA FirstReads ==
  ASSUME NEW M, NEW a \in Nat, NEW b \in Nat, NEW x, BlockFits(M, a, b, x),
         NEW k \in a+1..b-1, M[k].kind = "read"
  PROVE  k - a \in 1..Len(AllUnits) /\ M[k].at = AllUnits[k - a]
<1>1. ReadFits(M, a, b, x) BY DEF BlockFits
<1>2. k - a \in 1..Len(AllUnits) /\ a + (k - a) = k BY <1>1 DEF ReadFits
<1>3. SomeAhead(M, a+1, b, {"read", "leave"}) BY DEF SomeAhead
<1>4. \A i \in 1..Len(AllUnits) : M[a+i].at = AllUnits[i] BY <1>1, <1>3 DEF ReadFits
<1>5. QED BY <1>2, <1>4

(* A step of a block is followed by the next step of it.                   *)
LEMMA InsideStep ==
  ASSUME TypeOK, NEW c \in Clients, NEW a, NEW b, Inside(c, a, b),
         Now(c).kind \notin Brackets, Effects(c)
  PROVE  StepAt(c, a, b, pc[c])
<1> DEFINE M == Steps(c)
           k == pc[c]
<1>1. DeviceTypeOK /\ ClientTypeOK BY DEF TypeOK
<1>2. Active(c) /\ BlockOf(M, a, b) /\ a < k /\ k <= b BY DEF Inside
<1>3. /\ MethodFits(M, call[c]) /\ Len(M) \in Nat /\ k \in 1..Len(M) /\ k \in Nat
      /\ Now(c) = M[k] /\ Elements(call[c].units) \subseteq Units
  BY <1>1, <1>2, AtStep
<1>4. a \in 1..Len(M) /\ b \in 1..Len(M) /\ M[b].kind = "unlock" BY <1>2 DEF BlockOf
<1>5. a \in Nat /\ b \in Nat BY <1>3, <1>4
<1>6. k # b BY <1>3, <1>4 DEF Brackets
<1>7. k < b /\ k \in a+1..b-1 BY <1>2, <1>3, <1>5, <1>6
<1>8. BlockFits(M, a, b, call[c]) BY <1>2, <1>3, <1>4 DEF MethodFits
<1>9. ReadNext(c) \in Seq(Modules \cup {None})
  <2>1. Now(c).kind = "read" => Now(c).at \in Units
    <3>1. SUFFICES ASSUME M[k].kind = "read" PROVE M[k].at \in Units BY <1>3
    <3>2. k - a \in 1..Len(AllUnits) /\ M[k].at = AllUnits[k - a]
      BY <1>5, <1>7, <1>8, <3>1, FirstReads
    <3>3. QED BY <3>2, CaptureControlAssumption
  <2>2. QED BY <1>1, <2>1, ReadNextTyped
<1>10. HasLock(c) BY InsideHasLock
<1>11. Advance(c, ReadNext(c)) BY DEF Effects
<1>12. Moved(c, ReadNext(c)) /\ Steps(c)' = M /\ Inside(c, a, b)'
  BY <1>1, <1>2, <1>9, <1>10, <1>11, MovesInside
<1>13. QED BY <1>2, <1>3, <1>5, <1>7, <1>8, <1>12 DEF StepAt, Moved

-----------------------------------------------------------------------------
(* What such a step leaves true of its block: what it has written, ...     *)
LEMMA WrittenKept ==
  ASSUME NEW c \in Clients, NEW a, NEW b, NEW k, StepAt(c, a, b, k), Effects(c),
         Written(c, a, b)
  PROVE  Written(c, a, b)'
<1> DEFINE M == Steps(c)
<1>1. /\ a \in Nat /\ k \in Nat /\ a < k /\ Now(c) = M[k] /\ pc[c] = k
      /\ Steps(c)' = M /\ pc'[c] = k + 1
  BY DEF StepAt
<1>2. /\ targetSel' = IF M[k].kind = "sel" THEN BitAfter(targetSel, M[k]) ELSE targetSel
      /\ masterCtrl' = IF M[k].kind = "ctrl" THEN BitAfter(masterCtrl, M[k]) ELSE masterCtrl
  BY <1>1 DEF Effects
<1>3. ASSUME NEW u \in Units, NEW v \in {0, 1}, Behind(M, a, k+1, "sel", u, v)
      PROVE  u \in targetSel' <=> v = 1
  <2>1. CASE Is(M[k], "sel", u, v) BY <1>2, <2>1 DEF Is, BitAfter
  <2>2. CASE /\ Behind(M, a, k, "sel", u, v)
             /\ M[k].kind = "sel" /\ M[k].at = u => M[k].val = v
    <3>1. u \in targetSel <=> v = 1 BY <1>1, <2>2 DEF Written
    <3>2. QED BY <1>2, <2>2, <3>1 DEF BitAfter
  <2>3. \/ Is(M[k], "sel", u, v)
        \/ /\ Behind(M, a, k, "sel", u, v)
           /\ M[k].kind = "sel" /\ M[k].at = u => M[k].val = v
    <3> HIDE DEF M
    <3>1. QED BY <1>1, <1>3, BehindNext
  <2>4. QED BY <2>1, <2>2, <2>3
<1>4. ASSUME NEW bit \in CtrlBits, NEW v \in {0, 1}, Behind(M, a, k+1, "ctrl", bit, v)
      PROVE  bit \in masterCtrl' <=> v = 1
  <2>1. CASE Is(M[k], "ctrl", bit, v) BY <1>2, <2>1 DEF Is, BitAfter
  <2>2. CASE /\ Behind(M, a, k, "ctrl", bit, v)
             /\ M[k].kind = "ctrl" /\ M[k].at = bit => M[k].val = v
    <3>1. bit \in masterCtrl <=> v = 1 BY <1>1, <2>2 DEF Written
    <3>2. QED BY <1>2, <2>2, <3>1 DEF BitAfter
  <2>3. \/ Is(M[k], "ctrl", bit, v)
        \/ /\ Behind(M, a, k, "ctrl", bit, v)
           /\ M[k].kind = "ctrl" /\ M[k].at = bit => M[k].val = v
    <3> HIDE DEF M
    <3>1. QED BY <1>1, <1>4, BehindNext
  <2>4. QED BY <2>1, <2>2, <2>3
<1> HIDE DEF M
<1>5. QED BY <1>1, <1>3, <1>4 DEF Written

(* ... what it will still clear, ...                                       *)
LEMMA ClearedKept ==
  ASSUME NEW c \in Clients, NEW a, NEW b, NEW k, StepAt(c, a, b, k), Effects(c),
         TypeOK, Cleared(c, a, b)
  PROVE  Cleared(c, a, b)'
<1> DEFINE M == Steps(c)
<1>1. /\ b \in Nat /\ k \in Nat /\ k < b /\ k \in a+1..b-1 /\ Now(c) = M[k] /\ pc[c] = k
      /\ Steps(c)' = M /\ pc'[c] = k + 1 /\ SelFits(M, a, b)
  BY DEF StepAt, BlockFits
<1>2. /\ targetSel' = IF M[k].kind = "sel" THEN BitAfter(targetSel, M[k]) ELSE targetSel
      /\ masterCtrl' = IF M[k].kind = "ctrl" THEN BitAfter(masterCtrl, M[k]) ELSE masterCtrl
  BY <1>1 DEF Effects
<1>3. /\ M[k].kind = "sel" => /\ M[k].val \in {0, 1}
                              /\ M[k].val = 1 => Ahead(M, k+1, b, "sel", M[k].at, 0)
      /\ M[k].kind = "ctrl" => /\ M[k].val \in {0, 1}
                               /\ M[k].val = 1 => Ahead(M, k+1, b, "ctrl", M[k].at, 0)
  BY <1>1 DEF SelFits
<1>4. ASSUME NEW u \in targetSel' PROVE Ahead(M, k+1, b, "sel", u, 0)
  <2>1. CASE M[k].kind = "sel" /\ M[k].at = u BY <1>2, <1>3, <2>1 DEF BitAfter
  <2>2. CASE ~(M[k].kind = "sel" /\ M[k].at = u)
    <3>1. u \in targetSel BY <1>2, <2>2 DEF BitAfter
    <3>2. Ahead(M, k, b, "sel", u, 0) BY <1>1, <3>1 DEF Cleared
    <3>3. QED BY <1>1, <2>2, <3>2, AheadNext DEF Is
  <2>3. QED BY <2>1, <2>2
<1>5. ASSUME NEW bit \in masterCtrl' PROVE Ahead(M, k+1, b, "ctrl", bit, 0)
  <2>1. CASE M[k].kind = "ctrl" /\ M[k].at = bit BY <1>2, <1>3, <2>1 DEF BitAfter
  <2>2. CASE ~(M[k].kind = "ctrl" /\ M[k].at = bit)
    <3>1. bit \in masterCtrl BY <1>2, <2>2 DEF BitAfter
    <3>2. Ahead(M, k, b, "ctrl", bit, 0) BY <1>1, <3>1 DEF Cleared
    <3>3. QED BY <1>1, <2>2, <3>2, AheadNext DEF Is
  <2>3. QED BY <2>1, <2>2
<1> HIDE DEF M
<1>6. QED BY <1>1, <1>4, <1>5 DEF Cleared

(* ... the mask, ...                                                       *)
LEMMA MaskedKept ==
  ASSUME NEW c \in Clients, NEW a, NEW b, NEW k, StepAt(c, a, b, k), Effects(c),
         Masked(c, a, b)
  PROVE  Masked(c, a, b)'
<1> DEFINE M == Steps(c)
           x == call[c]
           what == M[b].at
<1>1. /\ b \in Nat /\ k \in Nat /\ k < b /\ k \in a+1..b-1 /\ Now(c) = M[k] /\ pc[c] = k
      /\ Steps(c)' = M /\ pc'[c] = k + 1 /\ call'[c] = x /\ MaskFits(M, a, b, x)
  BY DEF StepAt, BlockFits
<1>2. /\ trigMask' = IF M[k].kind = "mask" THEN BitAfter(trigMask, M[k]) ELSE trigMask
      /\ armed' = armed
  BY <1>1 DEF Effects
<1>3. MaskAfter(what, x)' = MaskAfter(what, x)
  <2>1. Steps(c)'[b].at = what BY <1>1
  <2>2. QED BY <1>1, <1>2, <2>1 DEF MaskAfter
<1>4. ASSUME NEW u \in Units
      PROVE  \/ u \in trigMask' <=> u \in MaskAfter(what, x)
             \/ Ahead(M, k+1, b, "mask", u, MaskVal(what))
  <2>1. CASE M[k].kind = "mask" /\ M[k].at = u
    <3>1. /\ u \in Elements(x.units) /\ what \in {"enable", "disable"}
          /\ M[k].val = MaskVal(what)
      BY <1>1, <2>1 DEF MaskFits
    <3>2. u \in trigMask' <=> MaskVal(what) = 1 BY <1>2, <2>1, <3>1 DEF BitAfter
    <3>3. QED BY <3>1, <3>2 DEF MaskVal, MaskAfter
  <2>2. CASE ~(M[k].kind = "mask" /\ M[k].at = u)
    <3>1. \/ u \in trigMask <=> u \in MaskAfter(what, x)
          \/ Ahead(M, k, b, "mask", u, MaskVal(what))
      BY <1>1 DEF Masked
    <3>2. u \in trigMask' <=> u \in trigMask BY <1>2, <2>2 DEF BitAfter
    <3>3. ~Is(M[k], "mask", u, MaskVal(what)) BY <2>2 DEF Is
    <3>4. QED BY <1>1, <3>1, <3>2, <3>3, AheadNext
  <2>3. QED BY <2>1, <2>2
<1>5. \A u : Ahead(Steps(c), pc[c], b, "mask", u, MaskVal(Steps(c)[b].at))'
               <=> Ahead(M, k+1, b, "mask", u, MaskVal(what))
  BY <1>1
<1> HIDE DEF M
<1>6. QED BY <1>3, <1>4, <1>5 DEF Masked, M

(* ... the modules it has read, ...                                        *)
LEMMA ReadSoFarKept ==
  ASSUME NEW c \in Clients, NEW a, NEW b, NEW k, StepAt(c, a, b, k), TypeOK,
         ReadSoFar(c, a, b)
  PROVE  ReadSoFar(c, a, b)'
<1> DEFINE M == Steps(c)
           e == Len(AllUnits)
           reads == SomeAhead(M, a+1, b, {"read", "leave"}) \/ M[b].at = "modules"
<1>1. /\ a \in Nat /\ b \in Nat /\ k \in Nat /\ a < k /\ k < b /\ k \in a+1..b-1
      /\ Now(c) = M[k] /\ pc[c] = k
      /\ Steps(c)' = M /\ pc'[c] = k + 1 /\ got'[c] = ReadNext(c)
      /\ BlockFits(M, a, b, call[c])
  BY DEF StepAt
<1>2. e \in Nat BY CaptureControlAssumption
<1>3. ASSUME reads PROVE Len(got'[c]) = IF k - a <= e THEN k - a ELSE e
  <2>1. Len(got[c]) = IF k - a - 1 <= e THEN k - a - 1 ELSE e
    BY <1>1, <1>3 DEF ReadSoFar
  <2>2. got[c] \in Seq(Modules \cup {None}) BY DEF TypeOK, ClientTypeOK
  <2>3. CASE M[k].kind = "read"
    <3>1. k - a \in 1..e BY <1>1, <2>3, FirstReads
    <3>2. Len(got'[c]) = Len(got[c]) + 1 BY <1>1, <2>2, <2>3 DEF ReadNext
    <3>3. QED BY <1>1, <1>2, <2>1, <3>1, <3>2
  <2>4. CASE M[k].kind # "read"
    <3>1. got'[c] = got[c] BY <1>1, <2>4 DEF ReadNext
    <3>2. \A i \in 1..e : M[a+i].kind = "read" BY <1>1, <1>3 DEF BlockFits, ReadFits
    <3>3. ~(k - a \in 1..e)
      <4>1. a + (k - a) = k BY <1>1
      <4>2. QED BY <2>4, <3>2, <4>1
    <3>4. QED BY <1>1, <1>2, <2>1, <3>1, <3>3
  <2>5. QED BY <2>3, <2>4
<1>4. (k + 1) - a - 1 = k - a BY <1>1
<1> HIDE DEF M, e
<1>5. QED BY <1>1, <1>3, <1>4 DEF ReadSoFar, e

(* ... that they are those of the calls that have ended, ...               *)
LEMMA GotTrueKept ==
  ASSUME NEW c \in Clients, NEW a, NEW b, NEW k, StepAt(c, a, b, k), Effects(c),
         TypeOK, ReadSoFar(c, a, b), Placed(c, a, b), GotTrue(c)
  PROVE  GotTrue(c)'
<1> DEFINE M == Steps(c)
<1>1. /\ a \in Nat /\ b \in Nat /\ k \in Nat /\ a < k /\ k < b /\ k \in a+1..b-1
      /\ Now(c) = M[k] /\ pc[c] = k /\ got'[c] = ReadNext(c)
      /\ BlockFits(M, a, b, call[c])
  BY DEF StepAt
<1>2. wanted' = wanted BY DEF Effects
<1>3. got[c] \in Seq(Modules \cup {None}) BY DEF TypeOK, ClientTypeOK
<1>4. CASE M[k].kind = "read"
  <2>1. k - a \in 1..Len(AllUnits) /\ M[k].at = AllUnits[k - a] BY <1>1, <1>4, FirstReads
  <2>2. AllUnits[k - a] \in Units /\ Len(AllUnits) \in Nat BY <2>1, CaptureControlAssumption
  <2>3. SomeAhead(M, a+1, b, {"read", "leave"}) /\ SomeAhead(M, k, b, {"read"})
    BY <1>1, <1>4 DEF SomeAhead
  <2>4. Len(got[c]) = k - a - 1
    <3>1. Len(got[c]) = IF pc[c] - a - 1 <= Len(AllUnits) THEN pc[c] - a - 1 ELSE Len(AllUnits)
      BY <2>3 DEF ReadSoFar
    <3>2. pc[c] = k /\ k - a - 1 <= Len(AllUnits) BY <1>1, <2>1, <2>2
    <3>3. QED BY <3>1, <3>2
  <2>5. InPlace(AllUnits[k - a]) BY <1>1, <2>2, <2>3 DEF Placed
  <2>6. got'[c] = Append(got[c], modSel[AllUnits[k - a]]) BY <1>1, <1>4, <2>1 DEF ReadNext
  <2>7. modSel[AllUnits[k - a]] \in Modules \cup {None} BY <2>2 DEF TypeOK, DeviceTypeOK
  <2>8. /\ Len(got'[c]) = k - a
        /\ got'[c][k - a] = modSel[AllUnits[k - a]]
        /\ \A i \in 1..k - a : i # k - a => i \in 1..Len(got[c]) /\ got'[c][i] = got[c][i]
    BY <1>1, <1>3, <2>4, <2>6, <2>7
  <2>9. ASSUME NEW i \in 1..k - a, NEW m \in Modules
        PROVE  got'[c][i] = m <=> AllUnits[i] \in wanted[m]
    <3>1. CASE i = k - a BY <2>5, <2>8, <3>1 DEF InPlace
    <3>2. CASE i # k - a BY <2>8, <3>2 DEF GotTrue
    <3>3. QED BY <3>1, <3>2
  <2>10. QED BY <1>2, <2>8, <2>9 DEF GotTrue
<1>5. CASE M[k].kind # "read"
  <2>1. got'[c] = got[c] BY <1>1, <1>5 DEF ReadNext
  <2>2. QED BY <1>2, <2>1 DEF GotTrue
<1>6. QED BY <1>4, <1>5

(* ... and where each unit is.                                             *)
LEMMA LeftModule ==
  ASSUME NEW c \in Clients, NEW x, NEW u \in Units, NEW s, s.at = u, s.val = x.module,
         GotTrue(c), Len(got[c]) = Len(AllUnits), u \notin Elements(x.units),
         InPlace(u) \/ InPlaceAfter(u, x), x' = x,
         modSel \in [Units -> Modules \cup {None}], wanted' = wanted,
         modSel' = IF WasIn(c, s) THEN [modSel EXCEPT ![u] = None] ELSE modSel
  PROVE  InPlaceAfter(u, x)'
<1>1. /\ DOMAIN AllUnits = 1..Len(AllUnits) /\ None \notin Modules
      /\ \E i \in DOMAIN AllUnits : AllUnits[i] = u
  BY CaptureControlAssumption
<1>2. \A i \in DOMAIN AllUnits : \A m \in Modules : got[c][i] = m <=> AllUnits[i] \in wanted[m]
  BY <1>1 DEF GotTrue
<1>3. CASE WasIn(c, s)
  <2>1. \A m \in Modules : x.module = m <=> u \in wanted[m] BY <1>2, <1>3 DEF WasIn
  <2>2. modSel'[u] = None BY <1>3
  <2>3. QED BY <1>1, <2>1, <2>2 DEF InPlaceAfter
<1>4. CASE ~WasIn(c, s)
  <2>1. \A m \in Modules : x.module = m => u \notin wanted[m] BY <1>1, <1>2, <1>4 DEF WasIn
  <2>2. modSel' = modSel BY <1>4
  <2>3. CASE InPlaceAfter(u, x) BY <2>2, <2>3 DEF InPlaceAfter
  <2>4. CASE InPlace(u) BY <2>1, <2>2, <2>4 DEF InPlace, InPlaceAfter
  <2>5. QED BY <2>3, <2>4
<1>5. QED BY <1>3, <1>4

(* A unit whose module is not written is where it was.                     *)
LEMMA SameModule ==
  ASSUME NEW u, NEW x, modSel'[u] = modSel[u], wanted' = wanted, x' = x
  PROVE  (InPlace(u)' <=> InPlace(u)) /\ (InPlaceAfter(u, x)' <=> InPlaceAfter(u, x))
BY DEF InPlace, InPlaceAfter

(* What Placed says of a unit while a construct_capture_module is at its   *)
(* step k.                                                                 *)
PlacedAt(u, M, k, b, x) ==
  IF u \in Elements(x.units)
  THEN \/ Ahead(M, k, b, "assign", u, x.module)
       \/ modSel[u] = x.module /\ ~SomeAhead(M, k, b, {"read", "leave"})
  ELSE \/ InPlace(u) /\ Ahead(M, k, b, "leave", u, x.module)
       \/ InPlaceAfter(u, x)

(* A step that does not write the module of u.                             *)
LEMMA PlacedNext ==
  ASSUME NEW u, NEW M, NEW k \in Nat, NEW b \in Nat, k < b, NEW x,
         PlacedAt(u, M, k, b, x),
         M[k].kind = "assign" => M[k].at # u, M[k].kind = "leave" => M[k].at # u,
         modSel'[u] = modSel[u], wanted' = wanted, M' = M, x' = x
  PROVE  PlacedAt(u, M, k+1, b, x)'
<1>1. (InPlace(u)' <=> InPlace(u)) /\ (InPlaceAfter(u, x)' <=> InPlaceAfter(u, x))
  BY SameModule
<1>2. ~Is(M[k], "assign", u, x.module) /\ ~Is(M[k], "leave", u, x.module) BY DEF Is
<1>3. /\ Ahead(M, k, b, "assign", u, x.module) => Ahead(M, k+1, b, "assign", u, x.module)
      /\ Ahead(M, k, b, "leave", u, x.module) => Ahead(M, k+1, b, "leave", u, x.module)
  BY <1>2, AheadNext
<1>4. SomeAhead(M, k+1, b, {"read", "leave"}) => SomeAhead(M, k, b, {"read", "leave"})
  BY SomeAheadNext
<1>5. QED BY <1>1, <1>3, <1>4 DEF PlacedAt

(* Every step of construct_capture_module, and of the blocks that have     *)
(* nothing to do with modules.                                             *)
LEMMA PlacedKept ==
  ASSUME NEW c \in Clients, NEW a, NEW b, NEW k, StepAt(c, a, b, k), Effects(c),
         TypeOK, ReadSoFar(c, a, b), GotTrue(c), Placed(c, a, b)
  PROVE  Placed(c, a, b)'
<1> DEFINE M == Steps(c)
           x == call[c]
           s == M[k]
<1>1. /\ a \in Nat /\ b \in Nat /\ k \in Nat /\ a < k /\ k < b /\ k \in a+1..b-1
      /\ Now(c) = s /\ pc[c] = k
      /\ Steps(c)' = M /\ pc'[c] = k + 1 /\ call'[c] = x
      /\ BlockFits(M, a, b, x) /\ ModuleFits(M, a, b, x)
  BY DEF StepAt, BlockFits
<1>2. /\ modSel' = IF s.kind = "assign" THEN [modSel EXCEPT ![s.at] = s.val]
                   ELSE IF s.kind = "leave" /\ WasIn(c, s) THEN [modSel EXCEPT ![s.at] = None]
                   ELSE modSel
      /\ wanted' = wanted
  BY <1>1 DEF Effects
<1>3. modSel \in [Units -> Modules \cup {None}] BY DEF TypeOK, DeviceTypeOK
<1>4. /\ M[b].at # "construct" \/ SomeAhead(M, k, b, {"read"}) => \A u \in Units : InPlace(u)
      /\ M[b].at = "construct" => \A u \in Units : PlacedAt(u, M, k, b, x)
  BY <1>1 DEF Placed, PlacedAt
<1>5. M[b].at # "construct" \/ SomeAhead(M, k+1, b, {"read"}) => \A u \in Units : InPlace(u)'
  <2>1. SUFFICES ASSUME M[b].at # "construct" \/ SomeAhead(M, k+1, b, {"read"}), NEW u \in Units
                 PROVE  InPlace(u)'
    OBVIOUS
  <2>2. s.kind \notin {"assign", "leave"}
    <3>1. s.kind = "assign" =>
            M[b].at = "construct" /\ ~SomeAhead(M, k+1, b, {"read", "leave"})
      BY <1>1 DEF ModuleFits
    <3>2. SomeAhead(M, k+1, b, {"read"}) => SomeAhead(M, k+1, b, {"read", "leave"})
      BY DEF SomeAhead
    <3>3. s.kind = "leave" => M[b].at = "construct" /\ ~SomeAhead(M, k+1, b, {"read"})
      BY <1>1 DEF ModuleFits
    <3>4. QED BY <2>1, <3>1, <3>2, <3>3
  <2>3. modSel' = modSel BY <1>2, <2>2
  <2>4. SomeAhead(M, k+1, b, {"read"}) => SomeAhead(M, k, b, {"read"}) BY <1>1, SomeAheadNext
  <2>5. InPlace(u) BY <1>4, <2>1, <2>4
  <2>6. QED BY <1>2, <2>3, <2>5 DEF InPlace
<1>6. ASSUME M[b].at = "construct", NEW u \in Units PROVE PlacedAt(u, M, k+1, b, x)'
  <2>1. PlacedAt(u, M, k, b, x) BY <1>4, <1>6
  <2>2. CASE ~(s.kind \in {"assign", "leave"} /\ s.at = u)
    <3>1. modSel'[u] = modSel[u] BY <1>2, <1>3, <2>2
    <3>2. M' = M /\ x' = x BY <1>1
    <3>3. (s.kind = "assign" => s.at # u) /\ (s.kind = "leave" => s.at # u) BY <2>2
    <3> HIDE DEF M, x
    <3>4. QED BY <1>1, <1>2, <2>1, <3>1, <3>2, <3>3, PlacedNext
  <2>3. CASE s.kind = "assign" /\ s.at = u
    <3>1. /\ u \in Elements(x.units) /\ s.val = x.module
          /\ ~SomeAhead(M, k+1, b, {"read", "leave"})
      BY <1>1, <2>3 DEF ModuleFits
    <3>2. modSel'[u] = x.module BY <1>2, <1>3, <2>3, <3>1
    <3>3. M' = M /\ x' = x BY <1>1
    <3> HIDE DEF M, x
    <3>4. QED BY <3>1, <3>2, <3>3 DEF PlacedAt
  <2>4. CASE s.kind = "leave" /\ s.at = u
    <3>1. s.val = x.module BY <1>1, <2>4 DEF ModuleFits
    <3>2. SomeAhead(M, k, b, {"read", "leave"}) BY <1>1, <2>4, SomeAheadNext
    <3>3. M' = M /\ x' = x BY <1>1
    <3>4. CASE u \in Elements(x.units)
      <4>1. Ahead(M, k, b, "assign", u, x.module) BY <2>1, <3>2, <3>4 DEF PlacedAt
      <4>2. ~Is(s, "assign", u, x.module) BY <2>4 DEF Is
      <4>3. Ahead(M, k+1, b, "assign", u, x.module) BY <1>1, <4>1, <4>2, AheadNext
      <4> HIDE DEF M, x
      <4>4. QED BY <3>3, <3>4, <4>3 DEF PlacedAt
    <3>5. CASE u \notin Elements(x.units)
      <4>1. SomeAhead(M, a+1, b, {"read", "leave"}) BY <1>1, <2>4 DEF SomeAhead
      <4>2. \A i \in 1..Len(AllUnits) : M[a+i].kind = "read"
        BY <1>1, <4>1 DEF BlockFits, ReadFits
      <4>3. ~(k - a \in 1..Len(AllUnits))
        <5>1. a + (k - a) = k BY <1>1
        <5>2. QED BY <2>4, <4>2, <5>1
      <4>4. Len(got[c]) = IF k - a - 1 <= Len(AllUnits) THEN k - a - 1 ELSE Len(AllUnits)
        BY <1>1, <4>1 DEF ReadSoFar
      <4>5. Len(AllUnits) \in Nat BY CaptureControlAssumption
      <4>6. Len(got[c]) = Len(AllUnits) BY <1>1, <4>3, <4>4, <4>5
      <4>7. InPlace(u) \/ InPlaceAfter(u, x) BY <2>1, <3>5 DEF PlacedAt
      <4>8. modSel' = IF WasIn(c, s) THEN [modSel EXCEPT ![u] = None] ELSE modSel
        BY <1>2, <2>4
      <4> HIDE DEF M, x
      <4>9. InPlaceAfter(u, x)'
        BY <1>2, <1>3, <2>4, <3>1, <3>3, <3>5, <4>6, <4>7, <4>8, LeftModule
      <4>10. QED BY <3>3, <3>5, <4>9 DEF PlacedAt
    <3>6. QED BY <3>4, <3>5
  <2>5. QED BY <2>2, <2>3, <2>4
<1>7. Placed(c, a, b)' <=>
        /\ M[b].at # "construct" \/ SomeAhead(M, k+1, b, {"read"}) => \A u \in Units : InPlace(u)'
        /\ M[b].at = "construct" => \A u \in Units : PlacedAt(u, M, k+1, b, x)'
  <2>1. Steps(c)' = M /\ pc'[c] = k + 1 /\ call'[c] = x BY <1>1
  <2>2. QED BY <2>1 DEF Placed, PlacedAt
<1>8. QED BY <1>5, <1>6, <1>7

-----------------------------------------------------------------------------
(* What the step of a client in a call has for arguments.                  *)
LEMMA StepTyped ==
  ASSUME ClientTypeOK, NEW c \in Clients, Active(c)
  PROVE  LET s == Now(c) IN
         /\ s.kind \in {"sel", "mask", "read"} => s.at \in Units
         /\ s.kind = "ctrl" => s.at \in CtrlBits
         /\ s.kind = "assign" => s.val \in Modules \cup {None}
         /\ s.kind = "trigger" => s.val \in AWGs \cup {None}
         /\ s.kind \in InsideKinds => HasLock(c)
<1> DEFINE M == Steps(c)
           k == pc[c]
           x == call[c]
<1>1. /\ MethodFits(M, x) /\ Len(M) \in Nat /\ k \in 1..Len(M) /\ k \in Nat /\ Now(c) = M[k]
      /\ x.module \in Modules \cup {None} /\ Elements(x.units) \subseteq Units
  BY AtStep
<1>2. SUFFICES ASSUME M[k].kind \in InsideKinds
               PROVE  /\ M[k].kind \in {"sel", "mask", "read"} => M[k].at \in Units
                      /\ M[k].kind = "ctrl" => M[k].at \in CtrlBits
                      /\ M[k].kind = "assign" => M[k].val \in Modules \cup {None}
                      /\ M[k].kind = "trigger" => M[k].val \in AWGs \cup {None}
                      /\ HasLock(c)
  <2>1. {"sel", "mask", "read", "ctrl", "assign", "trigger"} \subseteq InsideKinds BY DEF InsideKinds
  <2> HIDE DEF M, k
  <2>2. QED BY <1>1, <2>1
<1>3. PICK a \in 1..Len(M), b \in 1..Len(M) : BlockOf(M, a, b) /\ a < k /\ k < b
  BY <1>1, <1>2 DEF MethodFits
<1>4. a \in Nat /\ b \in Nat /\ k \in a+1..b-1 /\ k <= b BY <1>1, <1>3
<1>5. BlockFits(M, a, b, x) BY <1>1, <1>3 DEF MethodFits
<1>6. HasLock(c) BY <1>3, <1>4 DEF HasLock, Inside
<1>7. /\ M[k].kind = "sel" => M[k].at \in Units
      /\ M[k].kind = "ctrl" => M[k].at \in CtrlBits
  BY <1>4, <1>5 DEF BlockFits, SelFits
<1>8. M[k].kind = "mask" => M[k].at \in Units BY <1>1, <1>4, <1>5 DEF BlockFits, MaskFits
<1>9. M[k].kind = "assign" => M[k].val \in Modules \cup {None}
  BY <1>1, <1>4, <1>5 DEF BlockFits, ModuleFits
<1>10. M[k].kind = "trigger" => M[k].val \in AWGs \cup {None}
  BY <1>4, <1>5 DEF BlockFits, TriggerFits
<1>11. M[k].kind = "read" => M[k].at \in Units
  <2>1. M[k].kind = "read" => k - a \in 1..Len(AllUnits) /\ M[k].at = AllUnits[k - a]
    BY <1>4, <1>5, FirstReads
  <2>2. QED BY <2>1, CaptureControlAssumption
<1>12. QED BY <1>6, <1>7, <1>8, <1>9, <1>10, <1>11

(* A write to CTRL leaves a unit in one of its states.                     *)
LEMMA OnCtrlTyped ==
  ASSUME NEW old, NEW new, NEW s \in States
  PROVE  OnCtrl(old, new, s) \in States
BY DEF OnCtrl, DoneClr, Start, Terminate, Reset, States

(* The registers and the states of the units keep their types.             *)
LEMMA MoveKeepsDevice ==
  ASSUME TypeOK, ReadFresh, NEW c \in Clients, Move(c)
  PROVE  DeviceTypeOK'
<1> DEFINE s == Now(c)
<1>1. /\ targetSel \subseteq Units /\ trigMask \subseteq Units
      /\ masterCtrl \subseteq CtrlBits
      /\ ctrl \in [Units -> SUBSET CtrlBits]
      /\ trigSel \in [Modules -> AWGs \cup {None}]
      /\ modSel \in [Units -> Modules \cup {None}]
      /\ state \in [Units -> States]
  BY DEF TypeOK, DeviceTypeOK
<1>2. Active(c) /\ Effects(c) BY MoveEffects
<1>3. /\ s.kind \in {"sel", "mask", "read"} => s.at \in Units
      /\ s.kind = "ctrl" => s.at \in CtrlBits
      /\ s.kind = "assign" => s.val \in Modules \cup {None}
      /\ s.kind = "trigger" => s.val \in AWGs \cup {None}
  BY <1>2, StepTyped DEF TypeOK
<1>4. targetSel' \subseteq Units /\ trigMask' \subseteq Units /\ masterCtrl' \subseteq CtrlBits
  BY <1>1, <1>2, <1>3 DEF Effects, BitAfter
<1>5. modSel' \in [Units -> Modules \cup {None}] BY <1>1, <1>2, <1>3 DEF Effects
<1>6. ctrl' \in [Units -> SUBSET CtrlBits] /\ state' \in [Units -> States]
  <2>1. CASE WriteRegister(c)
    <3>1. CASE \E v : WriteMasterCtrl(v)
      <4>1. PICK v : WriteMasterCtrl(v) BY <3>1
      <4>2. \A u \in Units : OnCtrl(masterCtrl, v, state[u]) \in States BY <1>1, OnCtrlTyped
      <4>3. QED BY <1>1, <4>1, <4>2 DEF WriteMasterCtrl
    <3>2. CASE ~\E v : WriteMasterCtrl(v)
      BY <1>1, <2>1, <3>2 DEF WriteRegister, WriteTargetSel, WriteTrigMask
    <3>3. QED BY <3>1, <3>2
  <2>2. CASE WriteZero(c)
    <3>1. /\ ctrl' = [ctrl EXCEPT ![s.at] = {}]
          /\ state' = [state EXCEPT ![s.at] = OnCtrl(ctrl[s.at], {}, state[s.at])]
      BY <2>2 DEF WriteZero, WriteCtrl
    <3>2. s.at \in Units => OnCtrl(ctrl[s.at], {}, state[s.at]) \in States BY <1>1, OnCtrlTyped
    <3> HIDE DEF s
    <3>3. QED BY <1>1, <3>1, <3>2
  <2>3. CASE WriteTrigger(c) BY <1>1, <2>3 DEF WriteTrigger, WriteTrigSel
  <2>4. CASE ReadModuleOfUnit(c) BY <1>1, <2>4 DEF ReadModuleOfUnit, deviceVars
  <2>5. CASE LeaveModule(c) BY <1>1, <2>5 DEF LeaveModule, WriteModSel, deviceVars
  <2>6. CASE AssignModule(c) BY <1>1, <2>6 DEF AssignModule, WriteModSel
  <2>7. QED BY <2>1, <2>2, <2>3, <2>4, <2>5, <2>6 DEF Move
<1>7. trigSel' \in [Modules -> AWGs \cup {None}]
  <2>1. CASE WriteRegister(c)
    BY <1>1, <2>1 DEF WriteRegister, WriteTargetSel, WriteTrigMask, WriteMasterCtrl
  <2>2. CASE WriteZero(c) BY <1>1, <2>2 DEF WriteZero, WriteCtrl
  <2>3. CASE WriteTrigger(c)
    <3>1. s.kind = "trigger" BY <2>3 DEF WriteTrigger, At
    <3>2. trigSel' = [trigSel EXCEPT ![s.at] = s.val] BY <2>3 DEF WriteTrigger, WriteTrigSel
    <3> HIDE DEF s
    <3>3. QED BY <1>1, <1>3, <3>1, <3>2
  <2>4. CASE ReadModuleOfUnit(c) BY <1>1, <2>4 DEF ReadModuleOfUnit, deviceVars
  <2>5. CASE LeaveModule(c) BY <1>1, <2>5 DEF LeaveModule, WriteModSel, deviceVars
  <2>6. CASE AssignModule(c) BY <1>1, <2>6 DEF AssignModule, WriteModSel
  <2>7. QED BY <2>1, <2>2, <2>3, <2>4, <2>5, <2>6 DEF Move
<1>8. QED BY <1>4, <1>5, <1>6, <1>7 DEF DeviceTypeOK

(* So do the clients.                                                      *)
LEMMA MoveKeepsTypes ==
  ASSUME TypeOK, ReadFresh, NEW c \in Clients, Move(c)
  PROVE  TypeOK'
<1>1. Active(c) /\ Effects(c) BY MoveEffects
<1>2. DeviceTypeOK' BY MoveKeepsDevice
<1>3. DeviceTypeOK /\ ClientTypeOK BY DEF TypeOK
<1>4. ReadNext(c) \in Seq(Modules \cup {None})
  <2>1. Now(c).kind = "read" => Now(c).at \in Units BY <1>1, <1>3, StepTyped
  <2>2. QED BY <1>3, <2>1, ReadNextTyped
<1>5. Advance(c, ReadNext(c)) BY <1>1 DEF Effects
<1>6. ClientTypeOK' BY <1>1, <1>3, <1>4, <1>5, AdvanceMoves
<1>7. lockHolder' = lockHolder /\ aborted' = aborted /\ armed' = armed /\ wanted' = wanted
  BY <1>1 DEF Effects
<1>8. QED BY <1>2, <1>6, <1>7 DEF TypeOK

-----------------------------------------------------------------------------
(* A client that stays where it is, while the registers do too.            *)
SameRegisters ==
  /\ targetSel' = targetSel /\ masterCtrl' = masterCtrl
  /\ trigMask' = trigMask /\ modSel' = modSel
  /\ aborted' = aborted /\ armed' = armed /\ wanted' = wanted

(* What a block has done and will do, ...                                  *)
LEMMA ProgressStays ==
  ASSUME NEW d \in Clients, Stays(d), SameRegisters, NEW a, NEW b, Progress(d, a, b)
  PROVE  Progress(d, a, b)'
<1>1. Steps(d)' = Steps(d) /\ pc'[d] = pc[d] /\ call'[d] = call[d] /\ got'[d] = got[d]
  BY StaysInside
<1>2. /\ targetSel' = targetSel /\ masterCtrl' = masterCtrl
      /\ trigMask' = trigMask /\ modSel' = modSel
      /\ aborted' = aborted /\ armed' = armed /\ wanted' = wanted
  BY DEF SameRegisters
<1>3. Written(d, a, b)' <=> Written(d, a, b) BY <1>1, <1>2 DEF Written
<1>4. Cleared(d, a, b)' <=> Cleared(d, a, b) BY <1>1, <1>2 DEF Cleared
<1>5. Masked(d, a, b)' <=> Masked(d, a, b) BY <1>1, <1>2 DEF Masked, MaskAfter
<1>6. /\ \A u : InPlace(u)' <=> InPlace(u)
      /\ \A u : InPlaceAfter(u, call[d])' <=> InPlaceAfter(u, call[d])
  BY <1>1, <1>2 DEF InPlace, InPlaceAfter
<1>7. Placed(d, a, b)' <=> Placed(d, a, b) BY <1>1, <1>2, <1>6 DEF Placed
<1>8. ReadSoFar(d, a, b)' <=> ReadSoFar(d, a, b) BY <1>1 DEF ReadSoFar
<1>9. GotTrue(d)' <=> GotTrue(d) BY <1>1, <1>2 DEF GotTrue
<1>10. QED BY <1>2, <1>3, <1>4, <1>5, <1>7, <1>8, <1>9 DEF Progress

(* What the invariant says of one client.                                  *)
ProgressOf(c) ==
  Active(c) => \A a, b \in 1..Len(Steps(c)) : Inside(c, a, b) => Progress(c, a, b)

(* ... and all of it for the block the client is in.                       *)
LEMMA ProgressOfStays ==
  ASSUME NEW d \in Clients, Stays(d), SameRegisters, ProgressOf(d)
  PROVE  ProgressOf(d)'
<1>1. SUFFICES ASSUME NEW a, NEW b, Inside(d, a, b)' PROVE Progress(d, a, b)'
  BY DEF ProgressOf
<1>2. Inside(d, a, b) BY <1>1, StaysInside
<1>3. Active(d) /\ a \in 1..Len(Steps(d)) /\ b \in 1..Len(Steps(d))
  BY <1>2, InsideHasLock DEF Inside
<1>4. Progress(d, a, b) BY <1>2, <1>3 DEF ProgressOf
<1>5. QED BY <1>4, ProgressStays

(* A client without the lock is in no block.                               *)
LEMMA NoProgress ==
  ASSUME NEW d \in Clients, ~HasLock(d)
  PROVE  ProgressOf(d)
BY DEF ProgressOf, HasLock

(* All that the invariant says of one client.                              *)
FreshOf(c) ==
  readVal[c] # <<>> =>
    /\ lockHolder = c
    /\ At(c, "sel") \/ At(c, "mask") \/ At(c, "ctrl")
    /\ At(c, "sel") => readVal[c] = <<targetSel>>
    /\ At(c, "mask") => readVal[c] = <<trigMask>>
    /\ At(c, "ctrl") => readVal[c] = <<masterCtrl>>

InvOf(c) ==
  /\ lockHolder = c <=> HasLock(c)
  /\ FreshOf(c)
  /\ got[c] # <<>> => lockHolder = c
  /\ ProgressOf(c)

(* The invariant, client by client, ...                                    *)
LEMMA InvSaysInvOf ==
  Inv => TypeOK /\ AsPromised /\ \A c \in Clients : InvOf(c)
BY DEF Inv, InvOf, FreshOf, ProgressOf, LockIsBlock, ReadFresh, GotInside, InProgress

(* ... and the invariant after a step.                                     *)
LEMMA InvOfGivesInv ==
  ASSUME TypeOK', AsPromised', \A c \in Clients : InvOf(c)'
  PROVE  Inv'
BY DEF Inv, InvOf, FreshOf, ProgressOf, LockIsBlock, ReadFresh, GotInside, InProgress

(* The step of one client, by what it must do for the others: either it    *)
(* has the lock, so that they have not, or it leaves the registers alone.  *)
LEMMA OthersKeep ==
  ASSUME NEW c \in Clients, \A d \in Clients : InvOf(d),
         \A d \in Clients \ {c} : Stays(d) /\ readVal'[d] = readVal[d],
         lockHolder = c \/ SameRegisters,
         \A d \in Clients \ {c} : lockHolder' = d <=> lockHolder = d
  PROVE  \A d \in Clients \ {c} : InvOf(d)'
<1>1. SUFFICES ASSUME NEW d \in Clients \ {c} PROVE InvOf(d)'
  OBVIOUS
<1>2. /\ lockHolder = d <=> HasLock(d)
      /\ FreshOf(d) /\ (got[d] # <<>> => lockHolder = d) /\ ProgressOf(d)
  BY DEF InvOf
<1>3. /\ HasLock(d)' <=> HasLock(d)
      /\ \A kind : At(d, kind)' <=> At(d, kind)
      /\ got'[d] = got[d] /\ readVal'[d] = readVal[d]
  BY StaysInside
<1>4. lockHolder' = d <=> lockHolder = d OBVIOUS
<1>5. ProgressOf(d)'
  <2>1. CASE lockHolder = c
    <3>1. ~HasLock(d)' BY <1>2, <1>3, <2>1
    <3>2. QED BY <3>1 DEF ProgressOf, HasLock
  <2>2. CASE SameRegisters BY <1>2, <2>2, ProgressOfStays
  <2>3. QED BY <2>1, <2>2
<1>6. FreshOf(d)'
  <2>1. SUFFICES ASSUME readVal[d] # <<>> PROVE FreshOf(d)' BY <1>3 DEF FreshOf
  <2>2. /\ lockHolder = d
        /\ At(d, "sel") \/ At(d, "mask") \/ At(d, "ctrl")
        /\ At(d, "sel") => readVal[d] = <<targetSel>>
        /\ At(d, "mask") => readVal[d] = <<trigMask>>
        /\ At(d, "ctrl") => readVal[d] = <<masterCtrl>>
    BY <1>2, <2>1 DEF FreshOf
  <2>3. targetSel' = targetSel /\ trigMask' = trigMask /\ masterCtrl' = masterCtrl
    BY <2>2 DEF SameRegisters
  <2>4. QED BY <1>3, <1>4, <2>2, <2>3 DEF FreshOf
<1>7. QED BY <1>2, <1>3, <1>4, <1>5, <1>6 DEF InvOf

(* What is promised stays true while nobody has the lock and the registers *)
(* stay.                                                                   *)
LEMMA PromisedStays ==
  ASSUME AsPromised, AllAsPromised, SameRegisters
  PROVE  AsPromised'
<1>1. /\ targetSel = {} /\ masterCtrl = {} /\ trigMask = armed
      /\ \A u \in Units : InPlace(u)
  BY DEF AsPromised
<1>2. \A u : InPlace(u)' <=> InPlace(u) BY DEF SameRegisters, InPlace
<1>3. QED BY <1>1, <1>2 DEF SameRegisters, AsPromised

(* A move inside the block.                                                *)
LEMMA MoveKeepsProgress ==
  ASSUME TypeOK, LockIsBlock, ReadFresh, InProgress, NEW c \in Clients, Move(c)
  PROVE  /\ HasLock(c)' <=> HasLock(c)
         /\ \A d \in Clients \ {c} : Stays(d) /\ readVal'[d] = readVal[d]
         /\ HasLock(c) \/ SameRegisters
         /\ ProgressOf(c)'
<1>1. /\ Active(c) /\ Effects(c) /\ Now(c).kind \in InsideKinds \cup {"zero"}
      /\ Now(c).kind \notin Brackets
  BY MoveEffects DEF Brackets, InsideKinds
<1>2. DeviceTypeOK /\ ClientTypeOK BY DEF TypeOK
<1>3. ReadNext(c) \in Seq(Modules \cup {None})
  <2>1. Now(c).kind = "read" => Now(c).at \in Units BY <1>1, <1>2, StepTyped
  <2>2. QED BY <1>2, <2>1, ReadNextTyped
<1>4. Advance(c, ReadNext(c)) BY <1>1 DEF Effects
<1>5. /\ HasLock(c)' <=> HasLock(c)
      /\ \A a, b : Inside(c, a, b)' <=> Inside(c, a, b)
  BY <1>1, <1>2, <1>3, <1>4, MovesInside
<1>6. \A d \in Clients \ {c} : Stays(d) /\ readVal'[d] = readVal[d]
  BY <1>1, <1>2, <1>3, <1>4, AdvanceMoves DEF Stays
<1>7. HasLock(c) \/ SameRegisters
  <2>1. CASE Now(c).kind \in InsideKinds BY <1>1, <1>2, <2>1, StepTyped
  <2>2. CASE Now(c).kind = "zero" BY <1>1, <2>2 DEF Effects, SameRegisters
  <2>3. QED BY <1>1, <2>1, <2>2
<1>8. ASSUME NEW a, NEW b, Inside(c, a, b) PROVE Progress(c, a, b)'
  <2>1. StepAt(c, a, b, pc[c]) BY <1>1, <1>8, InsideStep
  <2>2. HasLock(c) /\ a \in 1..Len(Steps(c)) /\ b \in 1..Len(Steps(c)) BY <1>8, InsideHasLock
  <2>3. Progress(c, a, b) BY <1>1, <1>8, <2>2 DEF InProgress
  <2>4. Written(c, a, b)' BY <1>1, <2>1, <2>3, WrittenKept DEF Progress
  <2>5. ReadSoFar(c, a, b)' BY <2>1, <2>3, ReadSoFarKept DEF Progress
  <2>6. ASSUME ~aborted'
        PROVE  Cleared(c, a, b)' /\ Masked(c, a, b)' /\ Placed(c, a, b)' /\ GotTrue(c)'
    <3>1. ~aborted BY <1>1, <2>6 DEF Effects
    <3>2. /\ ReadSoFar(c, a, b) /\ Cleared(c, a, b) /\ Masked(c, a, b)
          /\ Placed(c, a, b) /\ GotTrue(c)
      BY <2>3, <3>1 DEF Progress
    <3>3. Cleared(c, a, b)' BY <1>1, <2>1, <3>2, ClearedKept
    <3>4. Masked(c, a, b)' BY <1>1, <2>1, <3>2, MaskedKept
    <3>5. Placed(c, a, b)' BY <1>1, <2>1, <3>2, PlacedKept
    <3>6. GotTrue(c)' BY <1>1, <2>1, <3>2, GotTrueKept
    <3>7. QED BY <3>3, <3>4, <3>5, <3>6
  <2>7. QED BY <2>4, <2>5, <2>6 DEF Progress
<1>9. ProgressOf(c)'
  <2>1. SUFFICES ASSUME NEW a, NEW b, Inside(c, a, b)' PROVE Progress(c, a, b)'
    BY DEF ProgressOf
  <2>2. QED BY <1>5, <1>8, <2>1
<1>10. QED BY <1>5, <1>6, <1>7, <1>9

(* So is the lock, what has been read, and what is promised.               *)
LEMMA MoveKeepsInv ==
  ASSUME Inv, NEW c \in Clients, Move(c)
  PROVE  Inv'
<1>1. /\ TypeOK /\ LockIsBlock /\ ReadFresh /\ GotInside /\ InProgress /\ AsPromised
      /\ \A d \in Clients : InvOf(d)
  BY InvSaysInvOf DEF Inv
<1>2. Active(c) /\ Effects(c) BY <1>1, MoveEffects
<1>3. /\ HasLock(c)' <=> HasLock(c)
      /\ \A d \in Clients \ {c} : Stays(d) /\ readVal'[d] = readVal[d]
      /\ HasLock(c) \/ SameRegisters
      /\ ProgressOf(c)'
  BY <1>1, MoveKeepsProgress
<1>4. lockHolder' = lockHolder BY <1>2 DEF Effects
<1>5. lockHolder = c <=> HasLock(c) BY <1>1 DEF LockIsBlock
<1>6. TypeOK' BY <1>1, MoveKeepsTypes
<1>7. \A d \in Clients \ {c} : InvOf(d)' BY <1>1, <1>3, <1>4, <1>5, OthersKeep
<1>8. DeviceTypeOK /\ ClientTypeOK BY <1>1 DEF TypeOK
<1>9. /\ readVal'[c] = <<>>
      /\ got'[c] # <<>> => got'[c] = ReadNext(c)
  <2>1. Now(c).kind = "read" => Now(c).at \in Units BY <1>2, <1>8, StepTyped
  <2>2. ReadNext(c) \in Seq(Modules \cup {None}) BY <1>8, <2>1, ReadNextTyped
  <2>3. Advance(c, ReadNext(c)) BY <1>2 DEF Effects
  <2>4. QED BY <1>2, <1>8, <2>2, <2>3, AdvanceMoves DEF Moved
<1>10. got'[c] # <<>> => lockHolder' = c
  <2>1. SUFFICES ASSUME ReadNext(c) # <<>> PROVE lockHolder = c BY <1>4, <1>9
  <2>2. CASE Now(c).kind = "read"
    <3>1. "read" \in InsideKinds BY DEF InsideKinds
    <3>2. HasLock(c) BY <1>2, <1>8, <2>2, <3>1, StepTyped
    <3>3. QED BY <1>5, <3>2
  <2>3. CASE Now(c).kind # "read"
    <3>1. got[c] # <<>> BY <2>1, <2>3 DEF ReadNext
    <3>2. QED BY <1>1, <3>1 DEF GotInside
  <2>4. QED BY <2>2, <2>3
<1>11. InvOf(c)'
  <2>1. FreshOf(c)' BY <1>9 DEF FreshOf
  <2>2. QED BY <1>3, <1>4, <1>5, <1>10, <2>1 DEF InvOf
<1>12. AsPromised'
  <2>1. CASE AllAsPromised
    <3>1. SameRegisters BY <1>3, <1>5, <2>1, CaptureControlAssumption DEF AllAsPromised
    <3>2. QED BY <1>1, <2>1, <3>1, PromisedStays
  <2>2. CASE ~AllAsPromised
    <3>1. ~AllAsPromised' BY <1>2, <2>2 DEF AllAsPromised, Effects
    <3>2. QED BY <3>1 DEF AsPromised
  <2>3. QED BY <2>1, <2>2
<1>13. \A d \in Clients : InvOf(d)' BY <1>7, <1>11
<1>14. QED BY <1>6, <1>12, <1>13, InvOfGivesInv

-----------------------------------------------------------------------------
(* The steps that take the lock or release it, and those that touch        *)
(* neither the registers nor the lock.                                     *)
LEMMA EnterKeepsInv ==
  ASSUME Inv, NEW c \in Clients, EnterLock(c)
  PROVE  Inv'
<1> DEFINE M == Steps(c)
           k == pc[c]
           x == call[c]
<1>1. TypeOK /\ AsPromised /\ ClientTypeOK /\ \A d \in Clients : InvOf(d)
  BY InvSaysInvOf DEF Inv, TypeOK
<1>2. /\ Active(c) /\ Now(c).kind = "lock" /\ lockHolder = NoClient /\ lockHolder' = c
      /\ Advance(c, got[c]) /\ UNCHANGED <<deviceVars, aborted, historyVars>>
  BY DEF EnterLock, At
<1>3. SameRegisters BY <1>2 DEF SameRegisters, deviceVars, historyVars
<1>4. /\ MethodFits(M, x) /\ Len(M) \in Nat /\ k \in 1..Len(M) /\ k \in Nat /\ Now(c) = M[k]
      /\ Elements(x.units) \subseteq Units
  BY <1>1, <1>2, AtStep
<1>5. PICK a \in 1..Len(M), b \in 1..Len(M) : a = k /\ BlockOf(M, a, b)
  BY <1>2, <1>4 DEF MethodFits
<1>6. a \in Nat /\ b \in Nat /\ a < b /\ k < Len(M) /\ BlockFits(M, a, b, x)
  <2>1. a < b BY <1>5 DEF BlockOf
  <2>2. BlockFits(M, a, b, x) BY <1>4, <1>5 DEF MethodFits
  <2>3. QED BY <1>4, <1>5, <2>1, <2>2
<1>7. \A d \in Clients : got[d] = <<>>
  <2>1. \A d \in Clients : lockHolder # d BY <1>2, CaptureControlAssumption
  <2>2. QED BY <1>1, <2>1 DEF InvOf
<1>8. /\ ClientTypeOK' /\ readVal'[c] = <<>> /\ Moved(c, got[c]) /\ Active(c)'
      /\ \A d \in Clients \ {c} : Stays(d) /\ readVal'[d] = readVal[d]
  <2>1. got[c] \in Seq(Modules \cup {None}) BY <1>1 DEF ClientTypeOK
  <2>2. QED BY <1>1, <1>2, <1>4, <1>6, <2>1, AdvanceMoves DEF Stays
<1>9. Steps(c)' = M /\ pc'[c] = a + 1 /\ call'[c] = x /\ got'[c] = <<>>
  BY <1>5, <1>7, <1>8 DEF Moved, Steps
<1>10. TypeOK'
  <2>1. DeviceTypeOK' BY <1>1, <1>2 DEF TypeOK, DeviceTypeOK, deviceVars
  <2>2. QED BY <1>1, <1>2, <1>8, <2>1 DEF TypeOK, historyVars
<1>11. \A d \in Clients \ {c} : InvOf(d)'
  <2>1. \A d \in Clients \ {c} : lockHolder' = d <=> lockHolder = d
    BY <1>2, CaptureControlAssumption
  <2>2. QED BY <1>1, <1>3, <1>8, <2>1, OthersKeep
<1>12. Inside(c, a, b)'
  <2>1. a < a + 1 /\ a + 1 <= b BY <1>4, <1>6
  <2>2. QED BY <1>5, <1>8, <1>9, <2>1 DEF Inside
<1>13. HasLock(c)' BY <1>4, <1>5, <1>8, <1>9, <1>12 DEF HasLock
<1>14. Written(c, a, b)'
  <2>1. \A kind, at, val : ~Behind(M, a, a+1, kind, at, val) BY <1>4, NothingBehind
  <2> HIDE DEF M
  <2>2. QED BY <1>9, <2>1 DEF Written
<1>15. ReadSoFar(c, a, b)'
  <2>1. Len(got'[c]) = 0 BY <1>9
  <2>2. pc'[c] - a - 1 = 0 BY <1>4, <1>9
  <2>3. Len(AllUnits) \in Nat BY CaptureControlAssumption
  <2> HIDE DEF M
  <2>4. QED BY <2>1, <2>2, <2>3 DEF ReadSoFar
<1>16. ASSUME ~aborted'
       PROVE  Cleared(c, a, b)' /\ Masked(c, a, b)' /\ Placed(c, a, b)' /\ GotTrue(c)'
  <2>1. /\ targetSel' = {} /\ masterCtrl' = {} /\ trigMask' = armed'
        /\ \A u \in Units : InPlace(u)'
    <3>1. AllAsPromised BY <1>2, <1>16 DEF AllAsPromised
    <3>2. /\ targetSel = {} /\ masterCtrl = {} /\ trigMask = armed
          /\ \A u \in Units : InPlace(u)
      BY <1>1, <3>1 DEF AsPromised
    <3>3. \A u : InPlace(u)' <=> InPlace(u) BY <1>3 DEF SameRegisters, InPlace
    <3>4. QED BY <1>3, <3>2, <3>3 DEF SameRegisters
  <2>2. Cleared(c, a, b)' BY <2>1 DEF Cleared
  <2>3. GotTrue(c)'
    <3>1. Len(got'[c]) = 0 BY <1>9
    <3>2. QED BY <3>1 DEF GotTrue
  <2>4. Masked(c, a, b)'
    <3>1. M[b].at \in {"enable", "disable"} =>
            \A u \in Elements(x.units) : Ahead(M, a+1, b, "mask", u, MaskVal(M[b].at))
      BY <1>6 DEF BlockFits, MaskFits
    <3>2. \A u \in Units : u \notin Elements(x.units) \/ M[b].at \notin {"enable", "disable"} =>
            (u \in trigMask' <=> u \in MaskAfter(M[b].at, x)')
      <4>1. MaskAfter(M[b].at, x)' = IF M[b].at = "enable" THEN armed' \cup Elements(x.units)
                                     ELSE IF M[b].at = "disable" THEN armed' \ Elements(x.units)
                                     ELSE armed'
        BY <1>9 DEF MaskAfter
      <4> HIDE DEF M, x
      <4>2. QED BY <2>1, <4>1
    <3>3. /\ Steps(c)'[b].at = M[b].at
          /\ \A u : Ahead(Steps(c), pc[c], b, "mask", u, MaskVal(Steps(c)[b].at))'
                      <=> Ahead(M, a+1, b, "mask", u, MaskVal(M[b].at))
          /\ MaskAfter(Steps(c)[b].at, call[c])' = MaskAfter(M[b].at, x)'
      BY <1>9
    <3>4. \A u \in Units :
            \/ (u \in trigMask <=> u \in MaskAfter(Steps(c)[b].at, call[c]))'
            \/ Ahead(Steps(c), pc[c], b, "mask", u, MaskVal(Steps(c)[b].at))'
      BY <3>1, <3>2, <3>3
    <3>5. QED BY <3>4 DEF Masked
  <2>5. Placed(c, a, b)'
    <3>1. M[b].at = "construct" =>
            /\ \A u \in Elements(x.units) : Ahead(M, a+1, b, "assign", u, x.module)
            /\ \A u \in Units : Ahead(M, a+1, b, "leave", u, x.module)
      BY <1>6 DEF BlockFits, ModuleFits
    <3> HIDE DEF M, x
    <3>2. QED BY <1>9, <2>1, <3>1 DEF Placed
  <2>6. QED BY <2>2, <2>3, <2>4, <2>5
<1>17. ProgressOf(c)'
  <2>1. Progress(c, a, b)' BY <1>14, <1>15, <1>16 DEF Progress
  <2>2. SUFFICES ASSUME NEW a2, NEW b2, Inside(c, a2, b2)' PROVE Progress(c, a2, b2)'
    BY DEF ProgressOf
  <2>3. a2 = a /\ b2 = b
    <3>1. BlockOf(M, a2, b2) /\ a2 < a + 1 /\ a + 1 <= b2 BY <1>9, <2>2 DEF Inside
    <3>2. k + 1 \in Nat /\ a < a + 1 /\ a + 1 <= b BY <1>4, <1>6
    <3> HIDE DEF M
    <3>3. QED BY <1>4, <1>5, <3>1, <3>2, OneBlockAtAStep
  <2>4. QED BY <2>1, <2>3
<1>18. InvOf(c)'
  <2>1. FreshOf(c)' BY <1>8 DEF FreshOf
  <2>2. QED BY <1>2, <1>9, <1>13, <1>17, <2>1 DEF InvOf
<1>19. AsPromised' BY <1>2, CaptureControlAssumption DEF AsPromised, AllAsPromised
<1>20. \A d \in Clients : InvOf(d)' BY <1>11, <1>18
<1>21. QED BY <1>10, <1>19, <1>20, InvOfGivesInv

(* The end of a block makes what the registers hold the promise: nothing   *)
(* is ahead any more.                                                      *)
LEMMA LeaveKeepsInv ==
  ASSUME Inv, NEW c \in Clients, LeaveLock(c)
  PROVE  Inv'
<1> DEFINE M == Steps(c)
           k == pc[c]
           x == call[c]
<1>1. TypeOK /\ AsPromised /\ ClientTypeOK /\ \A d \in Clients : InvOf(d)
  BY InvSaysInvOf DEF Inv, TypeOK
<1>2. /\ Active(c) /\ Now(c).kind = "unlock" /\ lockHolder' = NoClient
      /\ Promise(Now(c).at, x) /\ Advance(c, <<>>) /\ UNCHANGED <<deviceVars, aborted>>
  BY DEF LeaveLock, At
<1>3. /\ MethodFits(M, x) /\ Len(M) \in Nat /\ k \in 1..Len(M) /\ k \in Nat /\ Now(c) = M[k]
      /\ Elements(x.units) \subseteq Units
  BY <1>1, <1>2, AtStep
<1>4. PICK a \in 1..Len(M), b \in 1..Len(M) : b = k /\ BlockOf(M, a, b)
  BY <1>2, <1>3 DEF MethodFits
<1>5. a \in Nat /\ b \in Nat /\ a < b /\ M[b].kind = "unlock" BY <1>3, <1>4 DEF BlockOf
<1>6. Inside(c, a, b) /\ HasLock(c)
  <2>1. Inside(c, a, b) BY <1>2, <1>4, <1>5 DEF Inside
  <2>2. QED BY <2>1, InsideHasLock
<1>7. lockHolder = c /\ Progress(c, a, b) BY <1>1, <1>2, <1>4, <1>6 DEF InvOf, ProgressOf
<1>8. /\ ClientTypeOK' /\ readVal'[c] = <<>> /\ got'[c] = <<>>
      /\ ~Active(c)' \/ Moved(c, <<>>)
      /\ \A d \in Clients \ {c} : Stays(d) /\ readVal'[d] = readVal[d]
  <2>1. <<>> \in Seq(Modules \cup {None}) OBVIOUS
  <2>2. QED BY <1>1, <1>2, <2>1, AdvanceMoves DEF Stays, Moved
<1>9. /\ armed' \subseteq Units /\ wanted' \in [Modules -> SUBSET Units]
      /\ armed' = IF M[b].at = "enable" /\ ~aborted THEN armed \cup Elements(x.units)
                  ELSE IF M[b].at = "disable" /\ ~aborted THEN armed \ Elements(x.units)
                  ELSE armed
      /\ wanted' = IF M[b].at # "construct" \/ aborted THEN wanted
                   ELSE [m \in Modules |->
                          IF m = x.module THEN Elements(x.units)
                          ELSE wanted[m] \ Elements(x.units)]
  <2>1. Now(c).at = M[b].at BY <1>3, <1>4
  <2>2. /\ armed' = IF M[b].at = "enable" /\ ~aborted THEN armed \cup Elements(x.units)
                    ELSE IF M[b].at = "disable" /\ ~aborted THEN armed \ Elements(x.units)
                    ELSE armed
        /\ wanted' = IF M[b].at # "construct" \/ aborted THEN wanted
                     ELSE [m \in Modules |->
                            IF m = x.module THEN Elements(x.units)
                            ELSE wanted[m] \ Elements(x.units)]
    BY <1>2, <2>1 DEF Promise
  <2>3. armed \subseteq Units /\ wanted \in [Modules -> SUBSET Units] BY <1>1 DEF TypeOK
  <2> HIDE DEF M, x
  <2>4. QED BY <1>3, <2>2, <2>3
<1>10. TypeOK'
  <2>1. DeviceTypeOK' BY <1>1, <1>2 DEF TypeOK, DeviceTypeOK, deviceVars
  <2>2. QED BY <1>1, <1>2, <1>8, <1>9, <2>1 DEF TypeOK
<1>11. \A d \in Clients \ {c} : InvOf(d)'
  <2>1. \A d \in Clients \ {c} : lockHolder' = d <=> lockHolder = d
    BY <1>2, <1>7, CaptureControlAssumption
  <2>2. QED BY <1>1, <1>7, <1>8, <2>1, OthersKeep
<1>12. ~HasLock(c)'
  <2>1. SUFFICES ASSUME Moved(c, <<>>), NEW a2, NEW b2, Inside(c, a2, b2)' PROVE FALSE
    BY <1>8 DEF HasLock
  <2>2. Steps(c)' = M /\ pc'[c] = b + 1 BY <1>4, <2>1 DEF Moved, Steps
  <2>3. BlockOf(M, a2, b2) /\ a2 < b + 1 /\ b + 1 <= b2 BY <2>1, <2>2 DEF Inside
  <2>4. /\ a2 \in 1..Len(M) /\ b2 \in 1..Len(M) /\ M[a2].kind = "lock"
        /\ \A i \in a2+1..b2-1 : M[i].kind # "unlock"
    BY <2>3 DEF BlockOf, Brackets
  <2>5. a2 # b BY <1>5, <2>4
  <2>6. b \in a2+1..b2-1 BY <1>3, <1>5, <2>3, <2>4, <2>5
  <2>7. QED BY <1>5, <2>4, <2>6
<1>13. InvOf(c)'
  <2>1. FreshOf(c)' BY <1>8 DEF FreshOf
  <2>2. ProgressOf(c)' BY <1>12 DEF ProgressOf, HasLock
  <2>3. lockHolder' # c BY <1>2, CaptureControlAssumption
  <2>4. QED BY <1>8, <1>12, <2>1, <2>2, <2>3 DEF InvOf
<1>14. AsPromised'
  <2>1. SUFFICES ASSUME ~aborted
                 PROVE  /\ targetSel' = {} /\ masterCtrl' = {} /\ trigMask' = armed'
                        /\ \A u \in Units : InPlace(u)'
    BY <1>2 DEF AsPromised, AllAsPromised
  <2>2. Cleared(c, a, b) /\ Masked(c, a, b) /\ Placed(c, a, b) BY <1>7, <2>1 DEF Progress
  <2>3. /\ \A kind, at, val : ~Ahead(M, b, b, kind, at, val)
        /\ \A kinds : ~SomeAhead(M, b, b, kinds)
    BY <1>5, NothingAhead
  <2>4. /\ targetSel' = targetSel /\ masterCtrl' = masterCtrl
        /\ trigMask' = trigMask /\ modSel' = modSel
    BY <1>2 DEF deviceVars
  <2>5. targetSel = {} /\ masterCtrl = {}
    <3>1. /\ \A u \in targetSel : Ahead(M, b, b, "sel", u, 0)
          /\ \A bit \in masterCtrl : Ahead(M, b, b, "ctrl", bit, 0)
      BY <1>4, <2>2 DEF Cleared
    <3> HIDE DEF M
    <3>2. QED BY <2>3, <3>1
  <2>6. trigMask' = armed'
    <3>1. \A u \in Units : (u \in trigMask <=> u \in MaskAfter(M[b].at, x))
      BY <1>4, <2>2, <2>3 DEF Masked
    <3>2. MaskAfter(M[b].at, x) = armed' BY <1>9, <2>1 DEF MaskAfter
    <3>3. trigMask \subseteq Units BY <1>1 DEF TypeOK, DeviceTypeOK
    <3> HIDE DEF M, x
    <3>4. QED BY <1>9, <2>4, <3>1, <3>2, <3>3
  <2>7. ASSUME NEW u \in Units PROVE InPlace(u)'
    <3>1. CASE M[b].at # "construct"
      <4>1. InPlace(u) BY <1>4, <2>2, <3>1 DEF Placed
      <4>2. wanted' = wanted BY <1>9, <3>1
      <4>3. QED BY <2>4, <4>1, <4>2 DEF InPlace
    <3>2. CASE M[b].at = "construct"
      <4>1. \A m \in Modules : wanted'[m] = IF m = x.module THEN Elements(x.units)
                                             ELSE wanted[m] \ Elements(x.units)
        BY <1>9, <2>1, <3>2
      <4>2. IF u \in Elements(x.units) THEN modSel[u] = x.module ELSE InPlaceAfter(u, x)
        BY <1>4, <2>2, <2>3, <3>2 DEF Placed
      <4> HIDE DEF M, x
      <4>3. CASE u \in Elements(x.units)
        <5>1. modSel'[u] = x.module BY <2>4, <4>2, <4>3
        <5>2. QED BY <4>1, <4>3, <5>1 DEF InPlace
      <4>4. CASE u \notin Elements(x.units)
        <5>1. InPlaceAfter(u, x) BY <4>2, <4>4
        <5>2. QED BY <2>4, <4>1, <4>4, <5>1 DEF InPlace, InPlaceAfter
      <4>5. QED BY <4>3, <4>4
    <3>3. QED BY <3>1, <3>2
  <2>8. QED BY <2>4, <2>5, <2>6, <2>7
<1>15. \A d \in Clients : InvOf(d)' BY <1>11, <1>13
<1>16. QED BY <1>10, <1>14, <1>15, InvOfGivesInv

(* A call begins outside of any block.                                     *)
LEMMA CallKeepsInv ==
  ASSUME Inv, NEW c \in Clients, Call(c)
  PROVE  Inv'
<1>1. TypeOK /\ AsPromised /\ ClientTypeOK /\ \A d \in Clients : InvOf(d)
  BY InvSaysInvOf DEF Inv, TypeOK
<1>2. PICK x \in Calls[c] : call' = [call EXCEPT ![c] = x] BY DEF Call
<1>3. /\ ~Active(c)
      /\ UNCHANGED <<deviceVars, lockHolder, pc, readVal, got, aborted, historyVars>>
  BY DEF Call
<1>4. /\ call \in [Clients -> AllCalls \cup {NoCall}]
      /\ \A d \in Clients : AtSomeStep(d)
  BY <1>1 DEF ClientTypeOK
<1>5. x \in AllCalls /\ x # NoCall /\ MethodFits(Method(x), x)
  <2>1. x.op \in OpNames BY CaptureControlAssumption
  <2>2. x # NoCall BY <2>1 DEF OpNames, NoCall
  <2>3. QED BY <2>2, MethodsFit DEF AllCalls
<1>6. /\ call'[c] = x /\ call' \in [Clients -> AllCalls \cup {NoCall}]
      /\ \A d \in Clients \ {c} : Stays(d) /\ readVal'[d] = readVal[d]
  BY <1>2, <1>3, <1>4, <1>5 DEF Stays
<1>7. pc'[c] = 1 /\ readVal'[c] = <<>> /\ got'[c] = <<>> BY <1>3, <1>4 DEF AtSomeStep
<1>8. Active(c)' /\ Steps(c)' = Method(x) BY <1>5, <1>6 DEF Active, Steps, Methods
<1>9. \A d \in Clients : AtSomeStep(d)'
  <2>1. ASSUME NEW d \in Clients \ {c} PROVE AtSomeStep(d)'
    <3>1. Stays(d) /\ readVal'[d] = readVal[d] BY <1>6
    <3>2. QED BY <1>4, <3>1, StepStays DEF Stays
  <2>2. AtSomeStep(c)'
    <3>1. 1 \in 1..Len(Method(x)) BY <1>5 DEF MethodFits
    <3>2. QED BY <1>6, <1>7, <1>8, <3>1 DEF AtSomeStep
  <2>3. QED BY <2>1, <2>2
<1>10. TypeOK'
  <2>1. ClientTypeOK' BY <1>1, <1>3, <1>6, <1>9 DEF ClientTypeOK
  <2>2. DeviceTypeOK' BY <1>1, <1>3 DEF TypeOK, DeviceTypeOK, deviceVars
  <2>3. QED BY <1>1, <1>3, <2>1, <2>2 DEF TypeOK, historyVars
<1>11. SameRegisters BY <1>3 DEF SameRegisters, deviceVars, historyVars
<1>12. \A d \in Clients \ {c} : InvOf(d)' BY <1>1, <1>3, <1>6, <1>11, OthersKeep
<1>13. InvOf(c)'
  <2>1. ~HasLock(c)'
    <3>1. SUFFICES ASSUME NEW a, NEW b, Inside(c, a, b)' PROVE FALSE BY DEF HasLock
    <3>2. a < 1 /\ a \in 1..Len(Method(x)) BY <1>7, <1>8, <3>1 DEF Inside, BlockOf
    <3>3. QED BY <1>5, <3>2 DEF MethodFits
  <2>2. ProgressOf(c)' BY <2>1 DEF ProgressOf, HasLock
  <2>3. FreshOf(c)' BY <1>7 DEF FreshOf
  <2>4. lockHolder' # c BY <1>1, <1>3 DEF InvOf, HasLock
  <2>5. QED BY <1>7, <2>1, <2>2, <2>3, <2>4 DEF InvOf
<1>14. AsPromised'
  <2>1. AllAsPromised' <=> AllAsPromised BY <1>3 DEF AllAsPromised
  <2>2. CASE AllAsPromised BY <1>1, <1>11, <2>2, PromisedStays
  <2>3. CASE ~AllAsPromised BY <2>1, <2>3 DEF AsPromised
  <2>4. QED BY <2>2, <2>3
<1>15. \A d \in Clients : InvOf(d)' BY <1>12, <1>13
<1>16. QED BY <1>10, <1>14, <1>15, InvOfGivesInv

(* What write_bits reads is read under the lock.                           *)
LEMMA ReadRegisterKeepsInv ==
  ASSUME Inv, NEW c \in Clients, ReadRegister(c)
  PROVE  Inv'
<1>1. TypeOK /\ AsPromised /\ ClientTypeOK /\ \A d \in Clients : InvOf(d)
  BY InvSaysInvOf DEF Inv, TypeOK
<1>2. /\ Active(c) /\ Now(c).kind \in {"sel", "mask", "ctrl"}
      /\ At(c, "sel") \/ At(c, "mask") \/ At(c, "ctrl")
      /\ UNCHANGED <<deviceVars, lockHolder, call, pc, got, aborted, historyVars>>
  BY DEF ReadRegister, At
<1>3. /\ targetSel \subseteq Units /\ trigMask \subseteq Units /\ masterCtrl \subseteq CtrlBits
      /\ readVal \in [Clients -> Seq(RegisterValues)]
  BY <1>1 DEF TypeOK, DeviceTypeOK, ClientTypeOK
<1>4. PICK v : /\ readVal' = [readVal EXCEPT ![c] = <<v>>]
               /\ At(c, "sel") => v = targetSel
               /\ At(c, "mask") => v = trigMask
               /\ At(c, "ctrl") => v = masterCtrl
  <2>1. /\ At(c, "sel") => ~At(c, "mask") /\ ~At(c, "ctrl")
        /\ At(c, "mask") => ~At(c, "sel") /\ ~At(c, "ctrl")
        /\ At(c, "ctrl") => ~At(c, "sel") /\ ~At(c, "mask")
    BY DEF At
  <2>2. QED BY <1>2, <2>1 DEF ReadRegister
<1>5. \A d \in Clients : Stays(d) BY <1>2 DEF Stays
<1>6. \A d \in Clients \ {c} : readVal'[d] = readVal[d] BY <1>3, <1>4
<1>7. SameRegisters BY <1>2 DEF SameRegisters, deviceVars, historyVars
<1>8. ASSUME NEW d \in Clients PROVE AtSomeStep(d)'
  <2>1. AtSomeStep(d) BY <1>1 DEF ClientTypeOK
  <2>2. Stays(d) /\ Steps(d)' = Steps(d) /\ (Active(d)' <=> Active(d)) BY <1>5, StaysInside
  <2>3. CASE d = c BY <1>2, <2>1, <2>2, <2>3 DEF AtSomeStep, Stays
  <2>4. CASE d # c BY <1>6, <2>1, <2>2, <2>4, StepStays DEF Stays
  <2>5. QED BY <2>3, <2>4
<1>9. TypeOK'
  <2>1. v \in RegisterValues
    <3>1. v = targetSel \/ v = trigMask \/ v = masterCtrl BY <1>2, <1>4
    <3>2. v \subseteq Units \/ v \subseteq CtrlBits BY <1>3, <3>1
    <3>3. QED BY <3>2 DEF RegisterValues
  <2>2. <<v>> \in Seq(RegisterValues) BY <2>1
  <2>3. readVal' \in [Clients -> Seq(RegisterValues)] BY <1>3, <1>4, <2>2
  <2>4. ClientTypeOK' BY <1>1, <1>2, <1>8, <2>3 DEF ClientTypeOK
  <2>5. DeviceTypeOK' BY <1>1, <1>2 DEF TypeOK, DeviceTypeOK, deviceVars
  <2>6. QED BY <1>1, <1>2, <2>4, <2>5 DEF TypeOK, historyVars
<1>10. lockHolder = c
  <2>1. {"sel", "mask", "ctrl"} \subseteq InsideKinds BY DEF InsideKinds
  <2>2. HasLock(c) BY <1>1, <1>2, <2>1, StepTyped
  <2>3. QED BY <1>1, <2>2 DEF InvOf
<1>11. \A d \in Clients \ {c} : InvOf(d)' BY <1>1, <1>2, <1>5, <1>6, <1>7, OthersKeep
<1>12. InvOf(c)'
  <2>1. /\ lockHolder = c <=> HasLock(c)
        /\ got[c] # <<>> => lockHolder = c
        /\ ProgressOf(c)
    BY <1>1 DEF InvOf
  <2>2. /\ HasLock(c)' <=> HasLock(c)
        /\ \A kind : At(c, kind)' <=> At(c, kind)
        /\ got'[c] = got[c]
    BY <1>5, StaysInside
  <2>3. ProgressOf(c)' BY <1>5, <1>7, <2>1, ProgressOfStays
  <2>4. readVal'[c] = <<v>> BY <1>3, <1>4
  <2>5. FreshOf(c)' BY <1>2, <1>4, <1>7, <1>10, <2>2, <2>4 DEF FreshOf, SameRegisters
  <2>6. QED BY <1>2, <2>1, <2>2, <2>3, <2>5 DEF InvOf
<1>13. AsPromised' BY <1>2, <1>10, CaptureControlAssumption DEF AsPromised, AllAsPromised
<1>14. \A d \in Clients : InvOf(d)' BY <1>11, <1>12
<1>15. QED BY <1>9, <1>13, <1>14, InvOfGivesInv

(* A call cut short inside its block promises nothing any more; one cut    *)
(* short elsewhere has changed nothing that is promised.                   *)
LEMMA FailureKeepsInv ==
  ASSUME Inv, NEW c \in Clients, AccessFails(c)
  PROVE  Inv'
<1>1. TypeOK /\ AsPromised /\ ClientTypeOK /\ \A d \in Clients : InvOf(d)
  BY InvSaysInvOf DEF Inv, TypeOK
<1>2. /\ Return(c) /\ UNCHANGED deviceVars
      /\ lockHolder' = IF lockHolder = c THEN NoClient ELSE lockHolder
      /\ lockHolder = c => Retract
      /\ lockHolder # c => UNCHANGED <<aborted, historyVars>>
  BY DEF AccessFails
<1>3. /\ ClientTypeOK' /\ ~Active(c)' /\ readVal'[c] = <<>> /\ got'[c] = <<>>
      /\ \A d \in Clients \ {c} : Stays(d) /\ readVal'[d] = readVal[d]
  BY <1>1, <1>2, ReturnMoves DEF Stays
<1>4. lockHolder = c \/ SameRegisters BY <1>2 DEF SameRegisters, deviceVars, historyVars
<1>5. lockHolder' # c /\ \A d \in Clients \ {c} : lockHolder' = d <=> lockHolder = d
  BY <1>2, CaptureControlAssumption
<1>6. TypeOK'
  <2>1. DeviceTypeOK' BY <1>1, <1>2 DEF TypeOK, DeviceTypeOK, deviceVars
  <2>2. aborted' \in BOOLEAN /\ armed' \subseteq Units /\ wanted' \in [Modules -> SUBSET Units]
    BY <1>1, <1>2 DEF TypeOK, Retract, historyVars
  <2>3. QED BY <1>1, <1>2, <1>3, <2>1, <2>2 DEF TypeOK
<1>7. \A d \in Clients \ {c} : InvOf(d)' BY <1>1, <1>3, <1>4, <1>5, OthersKeep
<1>8. InvOf(c)'
  <2>1. ~HasLock(c)' BY <1>3 DEF HasLock
  <2>2. ProgressOf(c)' BY <2>1 DEF ProgressOf, HasLock
  <2>3. FreshOf(c)' BY <1>3 DEF FreshOf
  <2>4. QED BY <1>3, <1>5, <2>1, <2>2, <2>3 DEF InvOf
<1>9. AsPromised'
  <2>1. CASE lockHolder = c BY <1>2, <2>1 DEF Retract, AsPromised, AllAsPromised
  <2>2. CASE lockHolder # c
    <3>1. SameRegisters BY <1>4, <2>2
    <3>2. AllAsPromised' <=> AllAsPromised BY <1>2, <2>2 DEF AllAsPromised
    <3>3. CASE AllAsPromised BY <1>1, <3>1, <3>3, PromisedStays
    <3>4. CASE ~AllAsPromised BY <3>2, <3>4 DEF AsPromised
    <3>5. QED BY <3>3, <3>4
  <2>3. QED BY <2>1, <2>2
<1>10. \A d \in Clients : InvOf(d)' BY <1>7, <1>8
<1>11. QED BY <1>6, <1>9, <1>10, InvOfGivesInv

(* Neither does the device, nor time that passes.                          *)
LEMMA IdleKeepsInv ==
  ASSUME Inv, DeviceTypeOK', SameRegisters, ClientsUnchanged
  PROVE  Inv'
<1>1. TypeOK /\ AsPromised /\ ClientTypeOK /\ \A d \in Clients : InvOf(d)
  BY InvSaysInvOf DEF Inv, TypeOK
<1>2. UNCHANGED <<lockHolder, call, pc, readVal, got, aborted, historyVars>>
  BY DEF ClientsUnchanged
<1>3. \A d \in Clients : Stays(d) BY <1>2 DEF Stays
<1>4. TypeOK'
  <2>1. \A d \in Clients : AtSomeStep(d)' BY <1>1, <1>2, StepStays DEF ClientTypeOK
  <2>2. ClientTypeOK' BY <1>1, <1>2, <2>1 DEF ClientTypeOK
  <2>3. QED BY <1>1, <1>2, <2>2 DEF TypeOK, historyVars
<1>5. ASSUME NEW d \in Clients PROVE InvOf(d)'
  <2>1. /\ lockHolder = d <=> HasLock(d)
        /\ FreshOf(d) /\ (got[d] # <<>> => lockHolder = d) /\ ProgressOf(d)
    BY <1>1 DEF InvOf
  <2>2. /\ HasLock(d)' <=> HasLock(d)
        /\ \A kind : At(d, kind)' <=> At(d, kind)
    BY <1>3, StaysInside
  <2>3. ProgressOf(d)' BY <1>3, <2>1, ProgressOfStays
  <2>4. FreshOf(d)' BY <1>2, <2>1, <2>2 DEF FreshOf, SameRegisters
  <2>5. QED BY <1>2, <2>1, <2>2, <2>3, <2>4 DEF InvOf
<1>6. AsPromised'
  <2>1. AllAsPromised' <=> AllAsPromised BY <1>2 DEF AllAsPromised
  <2>2. CASE AllAsPromised BY <1>1, <2>2, PromisedStays
  <2>3. CASE ~AllAsPromised BY <2>1, <2>3 DEF AsPromised
  <2>4. QED BY <2>2, <2>3
<1>7. QED BY <1>4, <1>5, <1>6, InvOfGivesInv

(* A wave that starts units, a capture that ends.                          *)
LEMMA DeviceKeepsInv ==
  ASSUME Inv,
         (\E a \in AWGs : WaveGenerated(a)) \/ (\E u \in Units : CaptureEnds(u)) \/ UNCHANGED vars
  PROVE  Inv'
<1>1. /\ targetSel \subseteq Units /\ trigMask \subseteq Units
      /\ masterCtrl \subseteq CtrlBits
      /\ ctrl \in [Units -> SUBSET CtrlBits]
      /\ trigSel \in [Modules -> AWGs \cup {None}]
      /\ modSel \in [Units -> Modules \cup {None}]
      /\ state \in [Units -> States]
  BY DEF Inv, TypeOK, DeviceTypeOK
<1>2. CASE \E a \in AWGs : WaveGenerated(a)
  <2>1. PICK a \in AWGs : OnWaveGenerated({a}) /\ ClientsUnchanged BY <1>2 DEF WaveGenerated
  <2>2. "CAPTURE_WAVE" \in States BY DEF States
  <2>3. DeviceTypeOK' BY <1>1, <2>1, <2>2 DEF OnWaveGenerated, DeviceTypeOK
  <2>4. SameRegisters
    BY <2>1 DEF OnWaveGenerated, ClientsUnchanged, SameRegisters, historyVars
  <2>5. QED BY <2>1, <2>3, <2>4, IdleKeepsInv
<1>3. CASE \E u \in Units : CaptureEnds(u)
  <2>1. PICK u \in Units : EndCapture(u) /\ ClientsUnchanged BY <1>3 DEF CaptureEnds
  <2>2. "COMPLETE" \in States BY DEF States
  <2>3. DeviceTypeOK' BY <1>1, <2>1, <2>2 DEF EndCapture, DeviceTypeOK
  <2>4. SameRegisters BY <2>1 DEF EndCapture, ClientsUnchanged, SameRegisters, historyVars
  <2>5. QED BY <2>1, <2>3, <2>4, IdleKeepsInv
<1>4. CASE UNCHANGED vars
  <2>1. DeviceTypeOK' BY <1>1, <1>4 DEF vars, deviceVars, DeviceTypeOK
  <2>2. SameRegisters /\ ClientsUnchanged
    BY <1>4 DEF vars, deviceVars, historyVars, SameRegisters, ClientsUnchanged
  <2>3. QED BY <2>1, <2>2, IdleKeepsInv
<1>5. QED BY <1>2, <1>3, <1>4

-----------------------------------------------------------------------------
(* The invariant holds after power-on, ...                                 *)
LEMMA InitInv == Init => Inv
<1>1. SUFFICES ASSUME Init PROVE Inv OBVIOUS
<1>2. \A c \in Clients : /\ call[c] = NoCall /\ pc[c] = 1 /\ readVal[c] = <<>> /\ got[c] = <<>>
                         /\ ~Active(c) /\ ~HasLock(c) /\ lockHolder # c
  BY <1>1, CaptureControlAssumption DEF Init, Active, HasLock
<1>3. DeviceTypeOK
  BY <1>1, CaptureControlAssumption DEF Init, DeviceInit, DeviceTypeOK, States, CtrlBits
<1>4. ClientTypeOK
  <2>1. \A c \in Clients : AtSomeStep(c) BY <1>2 DEF AtSomeStep
  <2>2. /\ call \in [Clients -> AllCalls \cup {NoCall}]
        /\ pc \in [Clients -> Nat]
        /\ readVal \in [Clients -> Seq(RegisterValues)]
        /\ got \in [Clients -> Seq(Modules \cup {None})]
    BY <1>1 DEF Init
  <2>3. QED BY <2>1, <2>2 DEF ClientTypeOK
<1>5. TypeOK BY <1>1, <1>3, <1>4 DEF Init, TypeOK
<1>6. AsPromised
  <2>1. targetSel = {} /\ masterCtrl = {} /\ trigMask = armed BY <1>1 DEF Init, DeviceInit
  <2>2. \A u \in Units : InPlace(u) BY <1>1 DEF Init, DeviceInit, InPlace
  <2>3. QED BY <2>1, <2>2 DEF AsPromised
<1>7. QED BY <1>2, <1>5, <1>6 DEF Inv, LockIsBlock, ReadFresh, GotInside, InProgress

(* ... and every step keeps it.                                            *)
LEMMA NextInv ==
  ASSUME Inv, [Next]_vars
  PROVE  Inv'
<1>1. ASSUME NEW c \in Clients, ClientStep(c) PROVE Inv'
  <2>1. CASE Call(c) BY <2>1, CallKeepsInv
  <2>2. CASE EnterLock(c) BY <2>2, EnterKeepsInv
  <2>3. CASE LeaveLock(c) BY <2>3, LeaveKeepsInv
  <2>4. CASE ReadRegister(c) BY <2>4, ReadRegisterKeepsInv
  <2>5. CASE Move(c) BY <2>5, MoveKeepsInv
  <2>6. CASE AccessFails(c) BY <2>6, FailureKeepsInv
  <2>7. QED BY <1>1, <2>1, <2>2, <2>3, <2>4, <2>5, <2>6 DEF ClientStep, Move
<1>2. CASE (\E a \in AWGs : WaveGenerated(a)) \/ (\E u \in Units : CaptureEnds(u)) \/ UNCHANGED vars
  BY <1>2, DeviceKeepsInv
<1>3. QED BY <1>1, <1>2 DEF Next

(* The invariant of the shared registers (capturectrl.py:                  *)
(* __select_ctrl_target, enable_start_trigger, construct_capture_module    *)
(* and the others).                                                        *)
THEOREM Invariant == Spec => []Inv
<1>1. Init => Inv BY InitInv
<1>2. Inv /\ [Next]_vars => Inv' BY NextInv
<1>3. QED BY <1>1, <1>2, PTL DEF Spec

-----------------------------------------------------------------------------
(* Every variable of clients and device keeps its type, and a client in a  *)
(* call is at a step of its method.                                        *)
THEOREM TypeInvariant == Spec => []TypeOK
<1>1. Inv => TypeOK BY DEF Inv
<1>2. QED BY Invariant, <1>1, PTL

(* Between calls nothing is left selected and no bit of the master CTRL is *)
(* up (__select_ctrl_target ... __deselect_ctrl_target), whatever the      *)
(* clients call, as long as no call was cut short inside its block.        *)
THEOREM NothingLeftSelected == Spec => []CleanWhenFree
<1>1. Inv => CleanWhenFree BY DEF Inv, AsPromised, CleanWhenFree
<1>2. QED BY Invariant, <1>1, PTL

(* AWG_TRIG_MASK has the units that enable_start_trigger was called for,   *)
(* less those of disable_start_trigger and initialize: the read and the    *)
(* write of one client never undo a write of another.                      *)
THEOREM MaskIsAsAsked == Spec => []MaskAsAsked
<1>1. Inv => MaskAsAsked BY DEF Inv, AsPromised, MaskAsAsked
<1>2. QED BY Invariant, <1>1, PTL

(* Each module has the units that the calls of construct_capture_module    *)
(* have put into it.                                                       *)
THEOREM ModulesAreAsConstructed == Spec => []ModulesAsConstructed
<1>1. Inv => ModulesAsConstructed
  <2>1. SUFFICES ASSUME Inv, AllAsPromised, NEW m \in Modules
                 PROVE  {u \in Units : modSel[u] = m} = wanted[m]
    BY DEF ModulesAsConstructed
  <2>2. \A u \in Units : modSel[u] = m <=> u \in wanted[m]
    BY <2>1 DEF Inv, AsPromised, InPlace
  <2>3. wanted[m] \subseteq Units BY <2>1 DEF Inv, TypeOK
  <2>4. QED BY <2>2, <2>3
<1>2. QED BY Invariant, <1>1, PTL

(* get_unit_to_module returns every unit in the module that the calls of   *)
(* construct_capture_module have put it into.                              *)
THEOREM ModulesAreReadWhole == Spec => ModulesReadWhole
<1>1. ASSUME Inv, NEW c \in Clients, LeaveLock(c), call[c].op = "modules", ~aborted,
             NEW m \in Modules
      PROVE  {AllUnits[i] : i \in {j \in DOMAIN AllUnits : got[c][j] = m}} = wanted[m]
  <2> DEFINE M == Steps(c)
             k == pc[c]
             e == Len(AllUnits)
  <2>1. Active(c) /\ Now(c).kind = "unlock" BY <1>1 DEF LeaveLock, At
  <2>2. TypeOK /\ ClientTypeOK /\ InProgress BY <1>1 DEF Inv, TypeOK
  <2>3. MethodFits(M, call[c]) /\ Len(M) \in Nat /\ k \in 1..Len(M) /\ k \in Nat /\ Now(c) = M[k]
    BY <2>1, <2>2, AtStep
  <2>4. PICK a \in 1..Len(M) : BlockOf(M, a, k) BY <2>1, <2>3 DEF MethodFits
  <2>5. BlockFits(M, a, k, call[c]) BY <2>3, <2>4 DEF MethodFits
  <2>6. a \in Nat /\ a < k BY <2>3, <2>4 DEF BlockOf
  <2>7. Inside(c, a, k) BY <2>1, <2>3, <2>4, <2>6 DEF Inside
  <2>8. Progress(c, a, k) BY <2>1, <2>2, <2>3, <2>7 DEF InProgress
  <2>9. M[k].at = "modules" BY <1>1, <2>5 DEF BlockFits, ReadFits
  <2>10. \A i \in 1..e : a + i < k BY <2>5, <2>9 DEF BlockFits, ReadFits
  <2>11. DOMAIN AllUnits = 1..e /\ e \in Nat /\ \A u \in Units : \E i \in 1..e : AllUnits[i] = u
    BY CaptureControlAssumption
  <2>12. Len(got[c]) = IF k - a - 1 <= e THEN k - a - 1 ELSE e
    BY <2>8, <2>9 DEF Progress, ReadSoFar
  <2>13. Len(got[c]) = e
    <3>1. CASE e = 0 BY <2>3, <2>6, <2>12, <3>1
    <3>2. CASE e # 0
      <4>1. a + e < k BY <2>10, <2>11, <3>2
      <4>2. QED BY <2>3, <2>6, <2>11, <2>12, <4>1
    <3>3. QED BY <3>1, <3>2
  <2>14. \A i \in DOMAIN AllUnits : got[c][i] = m <=> AllUnits[i] \in wanted[m]
    BY <1>1, <2>8, <2>11, <2>13 DEF Progress, GotTrue
  <2>15. wanted[m] \subseteq Units BY <2>2 DEF TypeOK
  <2>16. QED BY <2>11, <2>14, <2>15
<1>2. Inv /\ [Next]_vars =>
        [\A c \in Clients :
           LeaveLock(c) /\ call[c].op = "modules" /\ ~aborted =>
             \A m \in Modules :
               {AllUnits[i] : i \in {j \in DOMAIN AllUnits : got[c][j] = m}} = wanted[m]]_vars
  BY <1>1
<1>3. QED BY Invariant, <1>2, PTL DEF Spec, ModulesReadWhole

(* The write of start_capture_units that raises START starts each unit of  *)
(* the call that can start, even if an earlier call was cut short, and     *)
(* starts no other unit unless one was.                                    *)
THEOREM ListedUnitsStart == Spec => StartsListed
<1>1. ASSUME Inv, NEW c \in Clients, WriteRegister(c), Now(c) = Ctrl("START", 1), NEW u \in Units
      PROVE  /\ u \in Elements(call[c].units) /\ CanStart(state[u])
                  => state'[u] = "CAPTURE_WAVE"
             /\ u \notin Elements(call[c].units) /\ ~aborted => state'[u] = state[u]
  <2> DEFINE M == Steps(c)
             k == pc[c]
             x == call[c]
  <2>1. /\ TypeOK /\ ClientTypeOK /\ InProgress /\ ReadFresh
        /\ state \in [Units -> States]
    BY <1>1 DEF Inv, TypeOK, DeviceTypeOK
  <2>2. Is(Now(c), "ctrl", "START", 1) BY <1>1, StepIs DEF Ctrl
  <2>3. Active(c) /\ At(c, "ctrl") /\ ~At(c, "sel") /\ ~At(c, "mask")
    BY <1>1, <2>2 DEF WriteRegister, At, Is
  <2>4. readVal[c] = <<masterCtrl>> BY <1>1, <2>1, <2>3 DEF ReadFresh, WriteRegister
  <2>5. WriteMasterCtrl(Replaced(c)) BY <1>1, <2>3 DEF WriteRegister
  <2>6. Replaced(c) = masterCtrl \cup {"START"} BY <2>2, <2>4 DEF Replaced, Is
  <2>7. state'[u] = IF u \in targetSel
                    THEN OnCtrl(masterCtrl, masterCtrl \cup {"START"}, state[u])
                    ELSE state[u]
    BY <2>5, <2>6 DEF WriteMasterCtrl
  <2>8. MethodFits(M, x) /\ Len(M) \in Nat /\ k \in 1..Len(M) /\ k \in Nat /\ Now(c) = M[k]
    BY <2>1, <2>3, AtStep
  <2>9. M[k].kind \in InsideKinds BY <2>2, <2>8 DEF Is, InsideKinds
  <2>10. PICK a \in 1..Len(M), b \in 1..Len(M) : BlockOf(M, a, b) /\ a < k /\ k < b
    BY <2>8, <2>9 DEF MethodFits
  <2>11. a \in Nat /\ b \in Nat /\ k \in a+1..b-1 /\ k <= b BY <2>8, <2>10
  <2>12. BlockFits(M, a, b, x) BY <2>8, <2>10 DEF MethodFits
  <2>13. Progress(c, a, b)
    <3>1. Inside(c, a, b) BY <2>3, <2>10, <2>11 DEF Inside
    <3>2. QED BY <2>1, <2>3, <2>10, <3>1 DEF InProgress
  <2>14. /\ Behind(M, a, k, "ctrl", "START", 0)
         /\ u \in Elements(x.units) => Behind(M, a, k, "sel", u, 1)
         /\ Ahead(M, k, b, "sel", u, 0) => u \in Elements(x.units)
    BY <2>2, <2>8, <2>11, <2>12 DEF BlockFits, StartFits
  <2>15. /\ "START" \notin masterCtrl
         /\ u \in Elements(x.units) => u \in targetSel
    <3>1. "START" \in CtrlBits BY DEF CtrlBits
    <3>2. QED BY <2>13, <2>14, <3>1 DEF Progress, Written
  <2>16. ~aborted /\ u \in targetSel => u \in Elements(x.units)
    BY <2>13, <2>14 DEF Progress, Cleared
  <2>17. CanStart(state[u])
           => OnCtrl(masterCtrl, masterCtrl \cup {"START"}, state[u]) = "CAPTURE_WAVE"
    BY <2>15 DEF OnCtrl, DoneClr, Start, Terminate, Reset, Rises, CanStart
  <2>18. QED BY <2>7, <2>15, <2>16, <2>17
<1>2. Inv /\ [Next]_vars =>
        [\A c \in Clients :
           WriteRegister(c) /\ Now(c) = Ctrl("START", 1) =>
             \A u \in Units :
               /\ u \in Elements(call[c].units) /\ CanStart(state[u])
                    => state'[u] = "CAPTURE_WAVE"
               /\ u \notin Elements(call[c].units) /\ ~aborted => state'[u] = state[u]]_vars
  BY <1>1
<1>3. QED BY Invariant, <1>2, PTL DEF Spec, StartsListed

(* The wave of an AWG starts the units whose trigger is enabled, in the    *)
(* modules that select_trigger_awg gave that AWG, and no others.           *)
THEOREM WaveStartsAskedUnits == Spec => WaveStartsAsked
<1>1. ASSUME Inv, NEW a \in AWGs, NEW u \in Units,
             WaveGenerated(a), AllAsPromised, CanStart(state[u])
      PROVE  state'[u] = "CAPTURE_WAVE"
               <=> u \in armed /\ \E m \in Modules : u \in wanted[m] /\ trigSel[m] = a
  <2>1. state'[u] = IF u \in Triggered({a}) THEN "CAPTURE_WAVE" ELSE state[u]
    BY <1>1 DEF WaveGenerated, OnWaveGenerated
  <2>2. state[u] # "CAPTURE_WAVE" BY <1>1 DEF CanStart
  <2>3. trigMask = armed /\ \A m \in Modules : modSel[u] = m <=> u \in wanted[m]
    BY <1>1 DEF Inv, AsPromised, InPlace
  <2>4. modSel[u] \in Modules \cup {None} /\ None \notin Modules
    BY <1>1, CaptureControlAssumption DEF Inv, TypeOK, DeviceTypeOK
  <2>5. u \in Triggered({a}) <=> u \in trigMask /\ modSel[u] # None /\ trigSel[modSel[u]] = a
    BY DEF Triggered
  <2>6. QED BY <2>1, <2>2, <2>3, <2>4, <2>5
<1>2. Inv /\ [Next]_vars =>
        [\A a \in AWGs, u \in Units :
           WaveGenerated(a) /\ AllAsPromised /\ CanStart(state[u]) =>
             (state'[u] = "CAPTURE_WAVE"
                <=> u \in armed /\ \E m \in Modules : u \in wanted[m] /\ trigSel[m] = a)]_vars
  BY <1>1
<1>3. QED BY Invariant, <1>2, PTL DEF Spec, WaveStartsAsked
=============================================================================
