--------------------------- MODULE EmulatorProofs ---------------------------
(***************************************************************************)
(* The emulator: a capture unit (CaptureUnit) and the memory (WaveRam).    *)
(* For any number of workers, parameter sets and captures, and resets,     *)
(* terminations and parameter writes at any time: when a capture that was  *)
(* started in a quiet unit and left alone is done, it is saved.  And for   *)
(* any transfers of any clients: the memory holds what was written to it.  *)
(***************************************************************************)
EXTENDS CaptureUnit, WaveRam, SequenceTheorems, TLAPS

-----------------------------------------------------------------------------
(* A capture unit: the capture that nobody disturbs. *)

Undisturbed == alone /\ intact

(* Then at most one capture is in the pool, and it is the latest: queued ..*)
QueueInv ==
  queue # <<>> =>
    /\ queue = <<latest>>
    /\ state = "CAPTURE_WAVE" /\ params = wanted
    /\ \A w \in Workers : task[w] = Free

(* ... or in the hands of one worker, which has the parameters it was      *)
(* started with.                                                           *)
TaskInv ==
  /\ \A w, v \in Workers : task[w] # Free /\ task[v] # Free => w = v
  /\ \A w \in Workers : task[w] # Free =>
       /\ state = "CAPTURE_WAVE"
       /\ task[w].id = latest /\ task[w].params = wanted
       /\ At(w, "saved") \/ At(w, "counted") => ram = [id |-> latest, params |-> wanted]
       /\ At(w, "counted") => samples = latest

Saved ==
  state = "COMPLETE" => ram = [id |-> latest, params |-> wanted] /\ samples = latest

Inv == TypeOK /\ (Undisturbed => QueueInv /\ TaskInv /\ Saved)

-----------------------------------------------------------------------------
(* Types.  One lemma for the register writes, one for the workers.         *)

LEMMA InitInv == Init => Inv
<1> SUFFICES ASSUME Init PROVE Inv OBVIOUS
<1> USE CaptureUnitAssumption DEF CaptureUnitAssumption, Init
<1>1. TypeOK
  <2>1. ram \in Captures /\ ram.id = 0 BY DEF Captures
  <2>2. queue \in Seq(1..latest) /\ task \in [Workers -> Tasks \cup {Free}] OBVIOUS
  <2>3. \A w \in Workers : task[w] = Free OBVIOUS
  <2>4. 0 \in 0..MaxCaptures /\ 0 \in 0..0 OBVIOUS
  <2>5. QED BY <2>1, <2>2, <2>3, <2>4 DEF TypeOK, States
<1>2. ~Undisturbed BY DEF Undisturbed
<1>3. QED BY <1>1, <1>2 DEF Inv

RegisterWrite == AssertReset \/ DeassertReset \/ Terminate \/ SetToIdle \/ SetParam

(* What the register writes leave alone, and what they do to a capture     *)
(* that is under way.                                                      *)
LEMMA RegisterWrites ==
  ASSUME TypeOK, RegisterWrite
  PROVE  /\ UNCHANGED <<queue, task, ram, samples, latest, wanted, failed>>
         /\ state' \in States /\ params' \in Params
         /\ intact' \in BOOLEAN /\ alone' \in BOOLEAN
         /\ Undisturbed' => Undisturbed /\ state # "CAPTURE_WAVE"
         /\ state' = "COMPLETE" => state \in {"CAPTURE_WAVE", "COMPLETE"}
<1>1. CASE AssertReset \/ Terminate
  <2>1. /\ UNCHANGED <<params, queue, task, ram, samples, latest, wanted, alone, failed>>
        /\ intact' = (intact /\ state # "CAPTURE_WAVE")
    BY <1>1 DEF AssertReset, Terminate, Interrupt
  <2>2. /\ state' \in States
        /\ state' = "COMPLETE" => state \in {"CAPTURE_WAVE", "COMPLETE"}
    BY <1>1 DEF AssertReset, Terminate, States
  <2>3. Undisturbed' => Undisturbed /\ state # "CAPTURE_WAVE" BY <2>1 DEF Undisturbed
  <2>4. QED BY <2>1, <2>2, <2>3 DEF TypeOK
<1>2. CASE DeassertReset \/ SetToIdle
  <2>1. /\ UNCHANGED <<params, queue, task, ram, samples, latest, wanted, intact, alone, failed>>
        /\ state' = "IDLE" /\ state # "CAPTURE_WAVE"
    BY <1>2 DEF DeassertReset, SetToIdle, history
  <2>2. Undisturbed' = Undisturbed BY <2>1 DEF Undisturbed
  <2>3. QED BY <2>1, <2>2 DEF TypeOK, States
<1>3. CASE SetParam
  BY <1>3 DEF TypeOK, SetParam, Undisturbed
<1>4. QED BY <1>1, <1>2, <1>3 DEF RegisterWrite

LEMMA RegisterWriteKeepsInv ==
  ASSUME Inv, RegisterWrite
  PROVE  Inv'
<1>1. TypeOK BY DEF Inv
<1>2. TypeOK' BY <1>1, RegisterWrites DEF TypeOK
<1>3. ASSUME Undisturbed' PROVE QueueInv' /\ TaskInv' /\ Saved'
  <2>1. Undisturbed /\ state # "CAPTURE_WAVE" BY <1>1, <1>3, RegisterWrites
  <2>2. queue = <<>> /\ \A w \in Workers : task[w] = Free
    BY <2>1 DEF Inv, QueueInv, TaskInv
  <2>3. UNCHANGED <<queue, task, ram, samples, latest, wanted>> BY <1>1, RegisterWrites
  <2>4. QueueInv' /\ TaskInv' BY <2>2, <2>3 DEF QueueInv, TaskInv
  <2>5. state' = "COMPLETE" => state = "COMPLETE" BY <1>1, <2>1, RegisterWrites
  <2>6. Saved' BY <2>1, <2>3, <2>5 DEF Inv, Saved
  <2>7. QED BY <2>4, <2>6
<1>4. QED BY <1>2, <1>3 DEF Inv

(* A start in a quiet unit puts the latest capture into the empty pool.    *)
LEMMA CaptureWaveKeepsInv ==
  ASSUME Inv, CaptureWave
  PROVE  Inv'
<1>1. /\ state' = "CAPTURE_WAVE" /\ latest' = latest + 1 /\ latest < MaxCaptures
      /\ queue' = Append(queue, latest')
      /\ wanted' = params /\ intact' = TRUE /\ alone' = Quiet /\ failed' = FALSE
      /\ UNCHANGED <<params, task, ram, samples>>
  BY DEF CaptureWave
<1>2. latest \in Nat /\ latest' \in 0..MaxCaptures /\ latest' \in 1..latest'
      /\ 1..latest \subseteq 1..latest' /\ 0..latest \subseteq 0..latest'
  BY <1>1, CaptureUnitAssumption DEF Inv, TypeOK, CaptureUnitAssumption
<1>3. TypeOK'
  <2>1. queue \in Seq(1..latest') BY <1>2, SMTT(30) DEF Inv, TypeOK
  <2>2. queue' \in Seq(1..latest') BY <1>1, <1>2, <2>1, AppendProperties
  <2>3. state' \in States BY <1>1 DEF States
  <2>4. \A w \in Workers : task'[w] # Free => task'[w].id \in 1..latest'
    BY <1>1, <1>2 DEF Inv, TypeOK
  <2>5. ram'.id \in 0..latest' /\ samples' \in 0..latest' BY <1>1, <1>2 DEF Inv, TypeOK
  <2>6. alone' \in BOOLEAN BY <1>1 DEF Quiet
  <2>7. QED BY <1>1, <1>2, <2>2, <2>3, <2>4, <2>5, <2>6 DEF Inv, TypeOK
<1>4. ASSUME Undisturbed' PROVE QueueInv' /\ TaskInv' /\ Saved'
  <2>1. queue = <<>> /\ \A w \in Workers : task[w] = Free
    BY <1>1, <1>4 DEF Undisturbed, Quiet
  <2>2. queue' = <<latest'>> BY <1>1, <2>1
  <2>3. \A w \in Workers : task'[w] = Free BY <1>1, <2>1
  <2>4. QueueInv' /\ TaskInv' BY <1>1, <2>2, <2>3 DEF QueueInv, TaskInv
  <2>5. Saved' BY <1>1 DEF Saved
  <2>6. QED BY <2>4, <2>5
<1>5. QED BY <1>3, <1>4 DEF Inv

LEMMA GenCaptureParamKeepsInv ==
  ASSUME Inv, NEW w \in Workers, GenCaptureParam(w)
  PROVE  Inv'
<1>1. /\ task[w] = Free /\ queue # <<>> /\ queue' = Tail(queue)
      /\ task' = [task EXCEPT ![w] = [stage |-> "read", id |-> Head(queue), params |-> params]]
      /\ UNCHANGED <<state, params, ram, samples, latest, wanted, intact, alone, failed>>
  BY DEF GenCaptureParam, history
<1>2. latest \in Nat
  BY CaptureUnitAssumption DEF Inv, TypeOK, CaptureUnitAssumption
<1>3. Head(queue) \in 1..latest /\ Tail(queue) \in Seq(1..latest)
  BY <1>1, HeadTailProperties DEF Inv, TypeOK
<1>4. task'[w] = [stage |-> "read", id |-> Head(queue), params |-> params]
      /\ \A v \in Workers : v # w => task'[v] = task[v]
  BY <1>1 DEF Inv, TypeOK
<1>5. [stage |-> "read", id |-> Head(queue), params |-> params] \in Tasks
  BY <1>2, <1>3 DEF Tasks, Inv, TypeOK
<1>6. TypeOK'
  <2>1. task' \in [Workers -> Tasks \cup {Free}] BY <1>1, <1>5 DEF Inv, TypeOK
  <2>2. \A v \in Workers : task'[v] # Free => task'[v].id \in 1..latest'
    BY <1>1, <1>3, <1>4 DEF Inv, TypeOK
  <2>3. queue' \in Seq(1..latest') BY <1>1, <1>3
  <2>4. QED BY <1>1, <2>1, <2>2, <2>3 DEF Inv, TypeOK
<1>7. ASSUME Undisturbed' PROVE QueueInv' /\ TaskInv' /\ Saved'
  <2>1. QueueInv BY <1>1, <1>7 DEF Inv, Undisturbed
  <2>2. /\ queue = <<latest>> /\ state = "CAPTURE_WAVE" /\ params = wanted
        /\ \A v \in Workers : task[v] = Free
    BY <1>1, <2>1 DEF QueueInv
  <2>3. queue' = <<>> /\ Head(queue) = latest BY <1>1, <2>2
  <2>4. QueueInv' BY <2>3 DEF QueueInv
  <2>5. TaskInv' BY <1>1, <1>4, <2>2, <2>3 DEF TaskInv, At
  <2>6. Saved' BY <1>1, <2>2 DEF Saved
  <2>7. QED BY <2>4, <2>5, <2>6
<1>8. QED BY <1>6, <1>7 DEF Inv

-----------------------------------------------------------------------------
(* The steps of a worker that has a capture. *)

WorkerStep(w) == WriteSamples(w) \/ WriteNumSamples(w) \/ Finish(w) \/ Fail(w)

LEMMA WorkerHasTask ==
  ASSUME TypeOK, NEW w \in Workers, WorkerStep(w)
  PROVE  /\ task[w] \in Tasks /\ task[w] # Free /\ task[w].id \in 1..latest
         /\ task[w].id \in Nat /\ task[w].id \in 0..latest /\ task[w].params \in Params
         /\ UNCHANGED <<params, queue, latest, wanted, intact, alone>>
<1>1. task[w] \in Tasks /\ task[w] # Free
  BY DEF TypeOK, WorkerStep, WriteSamples, WriteNumSamples, Finish, Fail, At, Free
<1>2. task[w].id \in 1..latest BY <1>1 DEF TypeOK
<1>3. latest \in Nat BY CaptureUnitAssumption DEF TypeOK, CaptureUnitAssumption
<1>4. task[w].id \in Nat /\ task[w].params \in Params BY <1>1 DEF Tasks
<1>5. UNCHANGED <<params, queue, latest, wanted, intact, alone>>
  BY DEF WorkerStep, WriteSamples, WriteNumSamples, Finish, Fail, history
<1>6. QED BY <1>1, <1>2, <1>3, <1>4, <1>5

(* A task that moves on is the same capture. *)
LEMMA MovedTask ==
  ASSUME TypeOK, NEW w \in Workers, task[w] \in Tasks, task[w].id \in 1..latest,
         NEW stage \in {"saved", "counted"}, Move(w, stage)
  PROVE  /\ task' \in [Workers -> Tasks \cup {Free}]
         /\ task'[w].stage = stage /\ task'[w].id = task[w].id
         /\ task'[w].params = task[w].params /\ task'[w] # Free
         /\ \A v \in Workers : v # w => task'[v] = task[v]
         /\ \A v \in Workers : task'[v] # Free => task'[v].id \in 1..latest
<1>1. task' = [task EXCEPT ![w].stage = stage] BY DEF Move
<1>2. task'[w] = [task[w] EXCEPT !.stage = stage] /\ task'[w] \in Tasks
      /\ \A v \in Workers : v # w => task'[v] = task[v]
  BY <1>1 DEF TypeOK, Tasks
<1>3. task'[w].stage = stage /\ task'[w].id = task[w].id /\ task'[w].params = task[w].params
  BY <1>2 DEF Tasks
<1>4. task'[w] # Free BY <1>3 DEF Free
<1>5. \A v \in Workers : task'[v] # Free => task'[v].id \in 1..latest
  BY <1>2, <1>3 DEF TypeOK
<1>6. task' \in [Workers -> Tasks \cup {Free}] BY <1>1, <1>2 DEF TypeOK
<1>7. QED BY <1>2, <1>3, <1>4, <1>5, <1>6

LEMMA WorkerKeepsTypes ==
  ASSUME TypeOK, NEW w \in Workers, WorkerStep(w)
  PROVE  TypeOK'
<1>1. CASE WriteSamples(w)
  <2>1. /\ ram' = [id |-> task[w].id, params |-> task[w].params] /\ Move(w, "saved")
        /\ UNCHANGED <<state, samples, failed>>
    BY <1>1 DEF WriteSamples, history
  <2>2. ram' \in Captures /\ ram'.id \in 0..latest BY <2>1, WorkerHasTask DEF Captures
  <2>3. /\ task' \in [Workers -> Tasks \cup {Free}]
        /\ \A v \in Workers : task'[v] # Free => task'[v].id \in 1..latest
    BY <2>1, MovedTask, WorkerHasTask
  <2>4. QED BY <2>1, <2>2, <2>3, WorkerHasTask DEF TypeOK
<1>2. CASE WriteNumSamples(w)
  <2>1. samples' = task[w].id /\ Move(w, "counted") /\ UNCHANGED <<state, ram, failed>>
    BY <1>2 DEF WriteNumSamples, history
  <2>2. /\ task' \in [Workers -> Tasks \cup {Free}]
        /\ \A v \in Workers : task'[v] # Free => task'[v].id \in 1..latest
    BY <2>1, MovedTask, WorkerHasTask
  <2>3. QED BY <2>1, <2>2, WorkerHasTask DEF TypeOK
<1>3. CASE Finish(w) \/ Fail(w)
  <2>1. /\ task' = [task EXCEPT ![w] = Free]
        /\ UNCHANGED <<ram, samples>>
        /\ failed' \in BOOLEAN /\ state' \in States
    BY <1>3 DEF Finish, Fail, history, TypeOK, States
  <2>2. /\ task' \in [Workers -> Tasks \cup {Free}]
        /\ \A v \in Workers : task'[v] # Free => task'[v].id \in 1..latest
    BY <2>1 DEF TypeOK
  <2>3. QED BY <2>1, <2>2, WorkerHasTask DEF TypeOK
<1>4. QED BY <1>1, <1>2, <1>3 DEF WorkerStep

LEMMA WorkerKeepsInv ==
  ASSUME Inv, NEW w \in Workers, WorkerStep(w)
  PROVE  Inv'
<1>1. TypeOK BY DEF Inv
<1>2. TypeOK' BY <1>1, WorkerKeepsTypes
<1>3. ASSUME Undisturbed' PROVE QueueInv' /\ TaskInv' /\ Saved'
  <2>1. UNCHANGED <<params, queue, latest, wanted>> /\ Undisturbed
    BY <1>1, <1>3, WorkerHasTask DEF Undisturbed
  <2>2. task[w] \in Tasks /\ task[w] # Free /\ task[w].id \in 1..latest
    BY <1>1, WorkerHasTask
  <2>3. /\ state = "CAPTURE_WAVE" /\ queue = <<>>
        /\ task[w].id = latest /\ task[w].params = wanted
        /\ \A v \in Workers : v # w => task[v] = Free
    BY <2>1, <2>2 DEF Inv, QueueInv, TaskInv
  <2>4. QueueInv' BY <2>1, <2>3 DEF QueueInv
  <2>5. CASE WriteSamples(w)
    <3>1. /\ ram' = [id |-> latest, params |-> wanted] /\ Move(w, "saved")
          /\ UNCHANGED <<state, samples>>
      BY <2>3, <2>5 DEF WriteSamples
    <3>2. /\ task'[w].stage = "saved" /\ task'[w].id = latest /\ task'[w].params = wanted
          /\ \A v \in Workers : v # w => task'[v] = Free
      BY <1>1, <2>2, <2>3, <3>1, MovedTask
    <3>3. TaskInv' BY <2>1, <2>3, <3>1, <3>2 DEF TaskInv, At
    <3>4. Saved' BY <2>3, <3>1 DEF Saved
    <3>5. QED BY <2>4, <3>3, <3>4
  <2>6. CASE WriteNumSamples(w)
    <3>1. /\ samples' = latest /\ Move(w, "counted") /\ At(w, "saved")
          /\ UNCHANGED <<state, ram>>
      BY <2>3, <2>6 DEF WriteNumSamples
    <3>2. /\ task'[w].stage = "counted" /\ task'[w].id = latest /\ task'[w].params = wanted
          /\ \A v \in Workers : v # w => task'[v] = Free
      BY <1>1, <2>2, <2>3, <3>1, MovedTask
    <3>3. ram = [id |-> latest, params |-> wanted] BY <2>1, <2>2, <3>1 DEF Inv, TaskInv
    <3>4. TaskInv' BY <2>1, <2>3, <3>1, <3>2, <3>3 DEF TaskInv, At
    <3>5. Saved' BY <2>3, <3>1 DEF Saved
    <3>6. QED BY <2>4, <3>4, <3>5
  <2>7. CASE Finish(w) \/ Fail(w)
    <3>1. task' = [task EXCEPT ![w] = Free] /\ UNCHANGED <<ram, samples>>
      BY <2>7 DEF Finish, Fail
    <3>2. \A v \in Workers : task'[v] = Free BY <1>1, <2>3, <3>1 DEF TypeOK
    <3>3. TaskInv' BY <3>2 DEF TaskInv
    <3>4. Saved'
      <4>1. CASE Finish(w)
        <5>1. ram = [id |-> latest, params |-> wanted] /\ samples = latest
          BY <2>1, <2>2, <4>1 DEF Inv, TaskInv, Finish
        <5>2. QED BY <2>1, <3>1, <5>1 DEF Saved
      <4>2. CASE Fail(w) BY <2>3, <4>2 DEF Fail, Saved
      <4>3. QED BY <2>7, <4>1, <4>2
    <3>5. QED BY <2>4, <3>3, <3>4
  <2>8. QED BY <2>5, <2>6, <2>7 DEF WorkerStep
<1>4. QED BY <1>2, <1>3 DEF Inv

-----------------------------------------------------------------------------
LEMMA NextKeepsInv == Inv /\ [Next]_vars => Inv'
<1> SUFFICES ASSUME Inv, [Next]_vars PROVE Inv' OBVIOUS
<1>1. CASE UNCHANGED vars
  <2>1. UNCHANGED <<state, params, queue, task, ram, samples, latest, wanted, intact, alone, failed>>
    BY <1>1 DEF vars, history
  <2>2. TypeOK' BY <2>1 DEF Inv, TypeOK
  <2>3. ASSUME Undisturbed' PROVE QueueInv' /\ TaskInv' /\ Saved'
    BY <2>1, <2>3 DEF Inv, Undisturbed, QueueInv, TaskInv, Saved, At
  <2>4. QED BY <2>2, <2>3 DEF Inv
<1>2. CASE RegisterWrite BY <1>2, RegisterWriteKeepsInv
<1>3. CASE CaptureWave BY <1>3, CaptureWaveKeepsInv
<1>4. CASE \E w \in Workers : Work(w)
  BY <1>4, GenCaptureParamKeepsInv, WorkerKeepsInv DEF Work, WorkerStep
<1>5. QED BY <1>1, <1>2, <1>3, <1>4 DEF Next, RegisterWrite

(* Types, and that no capture is queued or done before it is started, for  *)
(* any number of workers and captures.                                     *)
THEOREM CaptureUnitTypes == Spec => []TypeOK
<1>1. Inv => TypeOK BY DEF Inv
<1>2. QED BY <1>1, InitInv, NextKeepsInv, PTL DEF Spec

(* A capture that was started in a quiet unit and left alone is saved when *)
(* it is done (emulator/capture.py, __capture_wave).                       *)
THEOREM CaptureSavedWhenAlone == Spec => []SavedWhenAlone
<1>1. Inv => SavedWhenAlone BY DEF Inv, Undisturbed, Saved, SavedWhenAlone
<1>2. QED BY <1>1, InitInv, NextKeepsInv, PTL DEF Spec

-----------------------------------------------------------------------------
(* Numbers. *)

(* The quotient of two numbers. *)
LEMMA Division ==
  ASSUME NEW m \in Nat, NEW p \in Nat \ {0}
  PROVE  m \div p \in Nat /\ p * (m \div p) <= m /\ m < p * (m \div p) + p
<1>1. m \div p \in Int /\ m \div p >= 0
  OBVIOUS
<1> DEFINE q == m \div p
<1>2. p * q <= m /\ m < p * q + p
  BY <1>1
<1> QED BY <1>1, <1>2

(* Multiples of p keep the order of what they are multiples of. *)
LEMMA Multiples ==
  ASSUME NEW p \in Nat \ {0}, NEW a \in Nat, NEW b \in Nat
  PROVE  /\ a <= b => p * a <= p * b
         /\ p * a < p * b + p => a <= b
<1>1. \A n \in Nat : p * (a + n) >= p * a /\ p * (b + n) >= p * b
  OBVIOUS
<1>2. ASSUME a <= b PROVE p * a <= p * b
  <2>1. b - a \in Nat /\ a + (b - a) = b
    BY <1>2
  <2> QED BY <1>1, <2>1
<1>3. ASSUME ~(a <= b) PROVE p * a >= p * b + p
  <2>1. a - (b + 1) \in Nat /\ (b + 1) + (a - (b + 1)) = a
    BY <1>3
  <2>2. p * (b + 1) = p * b + p
    OBVIOUS
  <2>3. p * a = p * (b + 1) + p * (a - (b + 1))
    BY <2>1
  <2> QED BY <2>1, <2>2, <2>3
<1>4. p * a \in Nat /\ p * b \in Nat
  OBVIOUS
<1> QED BY <1>2, <1>3, <1>4

-----------------------------------------------------------------------------
(* Reading and writing the memory (WaveRam): words and parts. *)

(* Words. *)
LEMMA WordAt ==
  ASSUME NEW a \in Nat
  PROVE  \E k \in Nat : /\ WordOf(a) = MIN_RW_SIZE * k /\ MIN_RW_SIZE * k \in Nat
                        /\ MIN_RW_SIZE * k <= a /\ a < MIN_RW_SIZE * k + MIN_RW_SIZE
                        /\ a % MIN_RW_SIZE = a - MIN_RW_SIZE * k
<1>1. PICK w \in Nat \ {0} : w = MIN_RW_SIZE
  BY RamConstants
<1>2. /\ a \div w \in Nat /\ a % w \in Nat /\ a % w < w
      /\ a = w * (a \div w) + (a % w)
  OBVIOUS
<1>3. PICK k \in Nat : k = a \div w
  BY <1>2
<1>4. w * k <= a /\ a < w * k + w /\ a % w = a - w * k
  BY <1>2, <1>3
<1>5. WordOf(a) = w * k
  <2>1. (a \div w) * w = w * (a \div w)
    BY <1>2
  <2> QED BY <1>1, <1>3, <2>1 DEF WordOf
<1>6. w * k \in Nat
  OBVIOUS
<1> QED BY <1>1, <1>4, <1>5, <1>6

(* The word of a byte. *)
LEMMA WordIs ==
  ASSUME NEW k \in Nat, NEW b \in Nat, MIN_RW_SIZE * k <= b, b < MIN_RW_SIZE * k + MIN_RW_SIZE
  PROVE  WordOf(b) = MIN_RW_SIZE * k
<1>1. PICK w \in Nat \ {0} : w = MIN_RW_SIZE
  BY RamConstants
<1>2. PICK j \in Nat : WordOf(b) = w * j /\ w * j <= b /\ b < w * j + w
  BY <1>1, WordAt
<1>3. w * k < w * j + w /\ w * j < w * k + w
  BY <1>1, <1>2
<1>4. k <= j /\ j <= k
  BY <1>3, Multiples
<1> QED BY <1>1, <1>2, <1>4

(* The word of a byte, and of the bytes beside it. *)
LEMMA WordFacts ==
  ASSUME NEW a \in Nat
  PROVE  /\ WordOf(a) \in Nat /\ WordOf(a) <= a /\ a < WordOf(a) + MIN_RW_SIZE
         /\ a % MIN_RW_SIZE = a - WordOf(a)
         /\ \A b \in Nat : WordOf(a) <= b /\ b < WordOf(a) + MIN_RW_SIZE => WordOf(b) = WordOf(a)
         /\ \A b \in Nat : a <= b => WordOf(a) <= WordOf(b)
<1>1. PICK w \in Nat \ {0} : w = MIN_RW_SIZE
  BY RamConstants
<1>2. PICK k \in Nat : /\ WordOf(a) = w * k /\ w * k <= a /\ a < w * k + w
                       /\ a % w = a - w * k
  BY <1>1, WordAt
<1>3. w * k \in Nat
  OBVIOUS
<1>4. ASSUME NEW b \in Nat, WordOf(a) <= b, b < WordOf(a) + w PROVE WordOf(b) = WordOf(a)
  BY <1>1, <1>2, <1>4, WordIs
<1>5. ASSUME NEW b \in Nat, a <= b PROVE WordOf(a) <= WordOf(b)
  <2>1. PICK j \in Nat : WordOf(b) = w * j /\ w * j <= b /\ b < w * j + w
    BY <1>1, WordAt
  <2>2. w * k < w * j + w
    <3>1. w * j \in Nat
      OBVIOUS
    <3> QED BY <1>2, <1>3, <1>5, <2>1, <3>1
  <2> QED BY <1>2, <2>1, <2>2, Multiples
<1> QED BY <1>1, <1>2, <1>3, <1>4, <1>5

(* What a call holds. *)
ClientCall ==
  [step : {"head", "tail", "send", "done"}, req : Requests, kind : {"read", "write"}, addr : Nat,
   rest : Seq(Int), head : Seq(Int), tail : Seq(Int), got : Seq(Int)]

(* The part of a request that is next: its length, its end, and the words  *)
(* around it.                                                              *)
PartLen(c) == IF Len(c.rest) >= MAX_RW_SIZE THEN MAX_RW_SIZE ELSE Len(c.rest)
EndOf(c) == c.addr + PartLen(c)
Span(c) == Frac(c) + PartLen(c)
NumTail(c) == IF NeedsTail(c) THEN MIN_RW_SIZE - (Span(c) % MIN_RW_SIZE) ELSE 0

(* The next part of a call. *)
LEMMA Parts ==
  ASSUME NEW c \in ClientCall
  PROVE  /\ PartLen(c) \in Nat /\ PartLen(c) <= Len(c.rest) /\ EndOf(c) \in Nat /\ Span(c) \in Nat
         /\ Len(c.rest) # 0 => PartLen(c) # 0
         /\ Part(c) \in Seq(Int) /\ Len(Part(c)) = PartLen(c)
         /\ \A i \in 1 .. PartLen(c) : Part(c)[i] = c.rest[i]
         /\ EndOf(c) = WordOf(c.addr) + Span(c)
         /\ Frac(c) \in Nat /\ c.addr = WordOf(c.addr) + Frac(c) /\ Frac(c) < MIN_RW_SIZE
<1>1. PICK r \in Seq(Int), a \in Nat : r = c.rest /\ a = c.addr
  BY DEF ClientCall
<1>2. PICK n \in Nat : n = PartLen(c) /\ n <= Len(r) /\ (Len(r) # 0 => n # 0)
  <2>1. MAX_RW_SIZE \in Nat \ {0}
    BY RamConstants
  <2> QED BY <1>1, <2>1 DEF PartLen
<1>3. Part(c) = SubSeq(r, 1, n)
  BY <1>1, <1>2 DEF Part, PartLen
<1>4. SubSeq(r, 1, n) \in Seq(Int) /\ Len(SubSeq(r, 1, n)) = n
      /\ \A i \in 1 .. n : SubSeq(r, 1, n)[i] = r[i]
  BY <1>2
<1>5. /\ WordOf(a) \in Nat /\ a % MIN_RW_SIZE = a - WordOf(a) /\ WordOf(a) <= a
      /\ a < WordOf(a) + MIN_RW_SIZE
  BY WordFacts
<1>6. Frac(c) = a - WordOf(a)
  BY <1>1, <1>5 DEF Frac
<1>7. EndOf(c) = a + n /\ Span(c) = a - WordOf(a) + n
  BY <1>1, <1>2, <1>6 DEF EndOf, Span
<1>8. MIN_RW_SIZE \in Nat
  BY RamConstants
<1>9. /\ EndOf(c) \in Nat /\ Span(c) \in Nat /\ EndOf(c) = WordOf(a) + Span(c)
      /\ Frac(c) \in Nat /\ a = WordOf(a) + Frac(c) /\ Frac(c) < MIN_RW_SIZE
  <2>1. PICK b \in Nat, w \in Nat : b = WordOf(a) /\ w = MIN_RW_SIZE /\ b <= a /\ a < b + w
    BY <1>5, <1>8
  <2>2. PICK f \in Nat : f = a - b
    BY <2>1
  <2>3. Frac(c) = f /\ EndOf(c) = a + n /\ Span(c) = f + n
    BY <1>6, <1>7, <2>1, <2>2
  <2>5. f < w
    BY <2>1, <2>2
  <2>6. a = b + f
    BY <2>1, <2>2
  <2>7. a + n = b + (f + n)
    BY <2>6
  <2>4. a + n \in Nat /\ f + n \in Nat
    OBVIOUS
  <2> QED BY <2>1, <2>3, <2>4, <2>5, <2>6, <2>7
<1>10. /\ Part(c) \in Seq(Int) /\ Len(Part(c)) = PartLen(c)
       /\ \A i \in 1 .. PartLen(c) : Part(c)[i] = c.rest[i]
  BY <1>1, <1>2, <1>3, <1>4
<1> QED BY <1>1, <1>2, <1>9, <1>10

(* The word at the end of a part. *)
LEMMA TailIs ==
  ASSUME NEW c \in ClientCall, Len(c.rest) # 0
  PROVE  /\ TailWord(c) \in Nat /\ Span(c) % MIN_RW_SIZE \in Nat /\ Span(c) % MIN_RW_SIZE < MIN_RW_SIZE
         /\ EndOf(c) = TailWord(c) + (Span(c) % MIN_RW_SIZE)
         /\ NeedsTail(c) <=> Span(c) % MIN_RW_SIZE # 0
         /\ NeedsTail(c) => TailWord(c) = WordOf(EndOf(c) - 1)
         /\ WordOf(c.addr) + WordsFor(Span(c)) <= WordOf(EndOf(c) - 1) + MIN_RW_SIZE
         /\ WordsFor(Span(c)) \in Nat /\ WordsFor(Span(c)) >= Span(c)
<1>1. PICK w \in Nat \ {0} : w = MIN_RW_SIZE
  BY RamConstants
<1>2. PICK a \in Nat, n \in Nat \ {0}, f \in Nat, s \in Nat :
        a = c.addr /\ n = PartLen(c) /\ f = Frac(c) /\ s = Span(c) /\ s = f + n
  BY Parts DEF ClientCall, Span
<1>3. PICK k \in Nat : WordOf(a) = w * k /\ w * k \in Nat
  <2>1. PICK k \in Nat : WordOf(a) = MIN_RW_SIZE * k /\ MIN_RW_SIZE * k \in Nat
    BY WordAt
  <2> QED BY <1>1, <2>1
<1>4. PICK end \in Nat : end = EndOf(c) /\ end = w * k + s /\ end - 1 \in Nat
  <2>1. EndOf(c) = WordOf(a) + s /\ EndOf(c) \in Nat
    BY <1>2, Parts
  <2>2. s # 0
    BY <1>2
  <2> QED BY <1>3, <2>1, <2>2
<1>5. PICK q \in Nat, t \in Nat : q = s \div w /\ t = s % w /\ t < w /\ s = w * q + t
  OBVIOUS
<1>6. PICK j \in Nat : /\ WordOf(end - 1) = w * j /\ w * j <= end - 1
                       /\ end - 1 < w * j + w /\ w * j \in Nat
  <2>1. PICK x \in Nat : x = end - 1
    BY <1>4
  <2>2. PICK j \in Nat : /\ WordOf(x) = MIN_RW_SIZE * j /\ MIN_RW_SIZE * j <= x
                         /\ x < MIN_RW_SIZE * j + MIN_RW_SIZE /\ MIN_RW_SIZE * j \in Nat
    BY WordAt
  <2> QED BY <1>1, <2>1, <2>2
<1>7. TailWord(c) = w * k + w * q /\ w * (k + q) = w * k + w * q /\ w * q \in Nat
  <2>1. TailWord(c) = WordOf(c.addr) + ((Frac(c) + PartLen(c)) \div MIN_RW_SIZE) * MIN_RW_SIZE
    BY Parts DEF TailWord
  <2>2. q * w = w * q /\ w * q \in Nat /\ w * (k + q) = w * k + w * q
    OBVIOUS
  <2>3. TailWord(c) = w * k + q * w
    <3>1. Frac(c) + PartLen(c) = s
      BY <1>2
    <3>2. TailWord(c) = w * k + (s \div w) * w
      BY <1>1, <1>2, <1>3, <2>1, <3>1
    <3> QED BY <1>5, <3>2
  <2> QED BY <2>2, <2>3
<1>8. NeedsTail(c) <=> t # 0
  <2>1. NeedsTail(c) <=> (Frac(c) + PartLen(c)) % MIN_RW_SIZE # 0
    BY Parts DEF NeedsTail
  <2> QED BY <1>1, <1>2, <1>5, <2>1
<1>9. ASSUME t # 0 PROVE TailWord(c) = WordOf(end - 1)
  <2>1. PICK x \in Nat, v \in Nat : x = end - 1 /\ v = k + q
    BY <1>4
  <2>2. w * v <= x /\ x < w * v + w
    BY <1>3, <1>4, <1>5, <1>7, <1>9, <2>1, SMTT(30)
  <2>3. WordOf(x) = w * v
    BY <1>1, <2>2, WordIs
  <2> QED BY <1>7, <2>1, <2>3
<1>10. PICK u \in Nat : WordsFor(s) = w * u /\ w * u <= s + w - 1 /\ s + w - 1 < w * u + w /\ w * u \in Nat
  <2>1. PICK u \in Nat : u = (s + w - 1) \div w /\ w * u <= s + w - 1 /\ s + w - 1 < w * u + w
    <3>1. s + w - 1 \in Nat
      OBVIOUS
    <3>2. PICK x \in Nat : x = s + w - 1
      BY <3>1
    <3>3. PICK u \in Nat, v \in Nat : u = x \div w /\ v = x % w /\ v < w /\ x = w * u + v
      OBVIOUS
    <3>4. w * u \in Nat
      OBVIOUS
    <3> QED BY <3>2, <3>3, <3>4
  <2>2. u * w = w * u /\ w * u \in Nat
    OBVIOUS
  <2> QED BY <1>1, <2>1, <2>2 DEF WordsFor
<1>11. w * k + w * u <= w * j + w
  <2>1. w * (k + u) = w * k + w * u /\ w * (j + 1) = w * j + w
    OBVIOUS
  <2>2. w * (k + u) < w * (j + 1) + w
    BY <1>4, <1>6, <1>10, <2>1, <1>3
  <2>3. k + u <= j + 1
    BY <2>2, Multiples
  <2>4. w * (k + u) <= w * (j + 1)
    BY <2>3, Multiples
  <2> QED BY <2>1, <2>4
<1>12. w * u >= s
  BY <1>10
<1>13. TailWord(c) \in Nat /\ end = TailWord(c) + t
  BY <1>3, <1>4, <1>5, <1>7, SMTT(30)
<1>14. WordOf(c.addr) + WordsFor(Span(c)) <= WordOf(EndOf(c) - 1) + MIN_RW_SIZE
  BY <1>1, <1>2, <1>3, <1>4, <1>6, <1>10, <1>11
<1> QED BY <1>1, <1>2, <1>4, <1>5, <1>8, <1>9, <1>10, <1>12, <1>13, <1>14

(* What is next of a call. *)
InOrder(c) ==
  /\ c.kind = c.req.kind
  /\ c.req.addr <= c.addr /\ c.addr + Len(c.rest) = c.req.addr + Len(c.req.data)
  /\ c.req.addr < c.addr => c.addr <= MEM_SIZE
  /\ \A i \in 1 .. Len(c.rest) : c.rest[i] = c.req.data[c.addr - c.req.addr + i]
  /\ c.step = "done" <=> Len(c.rest) = 0
  /\ c.kind = "read" => (c.step \in {"send", "done"} /\ Len(c.got) = c.addr - c.req.addr)
  /\ c.step = "head" => c.tail = <<>>
  /\ c.step = "tail" => NeedsTail(c)
  /\ c.kind = "write" =>
       /\ c.step \in {"tail", "send"} => Len(c.head) = Frac(c)
       /\ c.step = "send" => Len(c.tail) = NumTail(c)

(* The packet that a client sends for its call. *)
PacketOf(p, c) ==
  CASE c.step = "head" -> [by |-> p, kind |-> "read", addr |-> WordOf(c.addr),
                           data |-> [i \in 1 .. MIN_RW_SIZE |-> 0], done |-> 0]
    [] c.step = "tail" -> [by |-> p, kind |-> "read", addr |-> TailWord(c),
                           data |-> [i \in 1 .. MIN_RW_SIZE |-> 0], done |-> 0]
    [] c.step = "send" /\ c.kind = "read" ->
         [by |-> p, kind |-> "read", addr |-> WordOf(c.addr),
          data |-> [i \in 1 .. WordsFor(Frac(c) + Len(Part(c))) |-> 0], done |-> 0]
    [] OTHER -> [by |-> p, kind |-> "write", addr |-> WordOf(c.addr),
                 data |-> c.head \o Part(c) \o c.tail, done |-> 0]

(* A byte that is in a word of a request. *)
Near(r, b) == WordOf(b) \in WordsOf(r)

(* A client sends the packet of its call. *)
LEMMA PacketsAre == \A p : Packet(p) = PacketOf(p, call[p])
BY DEF Packet, PacketOf

(* The bytes of a request are in its words. *)
LEMMA CoveredIsNear ==
  ASSUME NEW r \in Requests, NEW x \in Nat, r.addr <= x, x < r.addr + Len(r.data)
  PROVE  Near(r, x) /\ Covers(r, x)
<1>1. PICK a \in Nat, n \in Nat : a = r.addr /\ n = Len(r.data)
  BY DEF Requests
<1>2. PICK i \in 0 .. n - 1 : i = x - a /\ a + i = x
  BY <1>1
<1>3. x \in a .. a + n - 1
  BY <1>1
<1> QED BY <1>1, <1>2, <1>3 DEF Near, WordsOf, Covers

(* So are the words of the next part. *)
LEMMA NearBy ==
  ASSUME NEW c \in ClientCall, InOrder(c), Len(c.rest) # 0, NEW b \in Nat,
         WordOf(c.addr) <= b, b < WordOf(EndOf(c) - 1) + MIN_RW_SIZE
  PROVE  Near(c.req, b)
<1>1. PICK a \in Nat, end \in Nat, n \in Nat \ {0} :
        a = c.addr /\ end = EndOf(c) /\ n = PartLen(c) /\ end = a + n
  <2>1. c.addr \in Nat /\ PartLen(c) \in Nat \ {0}
    BY Parts DEF ClientCall
  <2> QED BY <2>1 DEF EndOf
<1>2. PICK r \in Requests, from \in Nat, len \in Nat : r = c.req /\ from = r.addr /\ len = Len(r.data)
  <2>1. c.req \in Requests
    BY DEF ClientCall
  <2>2. c.req.addr \in Nat /\ Len(c.req.data) \in Nat
    BY <2>1 DEF Requests
  <2> QED BY <2>1, <2>2
<1>3. from <= a /\ end <= from + len
  <2>1. PICK rest \in Nat : rest = Len(c.rest) /\ n <= rest
    <3>1. Len(c.rest) \in Nat
      BY DEF ClientCall
    <3>2. PartLen(c) <= Len(c.rest)
      BY Parts
    <3> QED BY <1>1, <3>1, <3>2
  <2>2. from <= a /\ a + rest = from + len
    BY <1>1, <1>2, <2>1 DEF InOrder
  <2> QED BY <1>1, <2>1, <2>2
<1>4. PICK last2 \in Nat : last2 = end - 1 /\ a <= last2
  BY <1>1
<1>5. ASSUME NEW x \in Nat, a <= x, x < end PROVE WordOf(x) \in WordsOf(r)
  <2>1. from <= x /\ x < from + len
    BY <1>3, <1>5
  <2> QED BY <1>2, <2>1, CoveredIsNear DEF Near
<1>6. CASE b < a
  <2>1. WordOf(a) <= b /\ b < WordOf(a) + MIN_RW_SIZE
    <3>1. WordOf(a) \in Nat /\ a < WordOf(a) + MIN_RW_SIZE /\ MIN_RW_SIZE \in Nat
      BY WordFacts, RamConstants
    <3> QED BY <1>1, <1>6, <3>1
  <2>2. WordOf(b) = WordOf(a)
    BY <2>1, WordFacts
  <2> QED BY <1>1, <1>2, <1>5, <2>2, SMTT(30) DEF Near
<1>7. CASE a <= b /\ b < end
  BY <1>2, <1>5, <1>7 DEF Near
<1>8. CASE end <= b
  <2>1. WordOf(last2) <= b /\ b < WordOf(last2) + MIN_RW_SIZE
    <3>1. WordOf(last2) \in Nat /\ WordOf(last2) <= last2
      BY WordFacts
    <3> QED BY <1>1, <1>4, <1>8, <3>1, SMTT(30)
  <2>2. WordOf(b) = WordOf(last2)
    BY <2>1, WordFacts
  <2> QED BY <1>1, <1>2, <1>4, <1>5, <2>2 DEF Near
<1> QED BY <1>1, <1>6, <1>7, <1>8

(* A list of zeros. *)
LEMMA ZerosAre ==
  ASSUME NEW n \in Nat
  PROVE  [i \in 1 .. n |-> 0] \in Seq(Int) /\ Len([i \in 1 .. n |-> 0]) = n
OBVIOUS

(* Three sequences one after the other. *)
Cat(h, m, e) == h \o m \o e

(* Where their elements are. *)
LEMMA Joined ==
  ASSUME NEW h \in Seq(Int), NEW m \in Seq(Int), NEW e \in Seq(Int)
  PROVE  /\ Cat(h, m, e) \in Seq(Int) /\ Len(Cat(h, m, e)) = Len(h) + Len(m) + Len(e)
         /\ \A i \in 1 .. Len(h) : Cat(h, m, e)[i] = h[i]
         /\ \A i \in 1 .. Len(m) : Cat(h, m, e)[Len(h) + i] = m[i]
         /\ \A i \in 1 .. Len(e) : Cat(h, m, e)[Len(h) + Len(m) + i] = e[i]
<1>1. /\ h \o m \in Seq(Int) /\ Len(h \o m) = Len(h) + Len(m)
      /\ \A i \in 1 .. Len(h) : (h \o m)[i] = h[i]
      /\ \A i \in 1 .. Len(m) : (h \o m)[Len(h) + i] = m[i]
  OBVIOUS
<1>2. PICK k \in Seq(Int) : k = h \o m
  BY <1>1
<1>3. /\ k \o e \in Seq(Int) /\ Len(k \o e) = Len(k) + Len(e)
      /\ \A i \in 1 .. Len(k) : (k \o e)[i] = k[i]
      /\ \A i \in 1 .. Len(e) : (k \o e)[Len(k) + i] = e[i]
  OBVIOUS
<1>4. \A i \in 1 .. Len(h) : i \in 1 .. Len(k)
  BY <1>1, <1>2
<1>5. \A i \in 1 .. Len(m) : Len(h) + i \in 1 .. Len(k)
  BY <1>1, <1>2
<1>6. Cat(h, m, e) = k \o e
  BY <1>2 DEF Cat
<1> QED BY <1>1, <1>2, <1>3, <1>4, <1>5, <1>6

(* Packets. *)
PacketType == [by : RamClients, kind : {"read", "write"}, addr : Nat, data : Seq(Int), done : Nat]

(* What a client sends, at each step of its call. *)
LEMMA PacketIs ==
  ASSUME NEW p \in RamClients, NEW c \in ClientCall, InOrder(c), c.step \in {"head", "tail", "send"},
         NEW x, x = PacketOf(p, c)
  PROVE  /\ x \in PacketType /\ x.by = p /\ x.done = 0
         /\ c.step = "head" => x.kind = "read" /\ x.addr = WordOf(c.addr) /\ Len(x.data) = MIN_RW_SIZE
         /\ c.step = "tail" => x.kind = "read" /\ x.addr = TailWord(c) /\ Len(x.data) = MIN_RW_SIZE
         /\ c.step = "send" /\ c.kind = "read" =>
              x.kind = "read" /\ x.addr = WordOf(c.addr) /\ Len(x.data) = WordsFor(Span(c))
         /\ c.step = "send" /\ c.kind = "write" =>
              /\ x.kind = "write" /\ x.addr = WordOf(c.addr) /\ Len(x.data) = Span(c) + NumTail(c)
              /\ x.data = Cat(c.head, Part(c), c.tail)
         /\ x.kind = "write" => c.step = "send" /\ c.kind = "write"
         /\ WordOf(c.addr) <= x.addr /\ x.addr + Len(x.data) <= WordOf(EndOf(c) - 1) + MIN_RW_SIZE
<1>1. Len(c.rest) # 0 /\ Len(c.rest) \in Nat
  BY DEF InOrder, ClientCall
<1>2. PICK w \in Nat \ {0} : w = MIN_RW_SIZE
  BY RamConstants
<1>3. PICK a \in Nat, n \in Nat \ {0}, end \in Nat, span \in Nat, f \in Nat, base \in Nat :
        /\ a = c.addr /\ n = PartLen(c) /\ end = EndOf(c) /\ span = Span(c) /\ f = Frac(c)
        /\ base = WordOf(a) /\ a = base + f /\ span = f + n /\ end = a + n /\ end = base + span
  <2>1. WordOf(c.addr) \in Nat
    BY WordFacts DEF ClientCall
  <2> QED BY <1>1, <2>1, Parts, ZenonT(60) DEF ClientCall, EndOf, Span
<1>4. PICK l \in Nat : l = WordOf(end - 1) /\ l <= end - 1 /\ end - 1 < l + w /\ base <= l
  <2>1. PICK y \in Nat : y = end - 1 /\ a <= y
    BY <1>3
  <2>2. WordOf(y) \in Nat /\ WordOf(y) <= y /\ y < WordOf(y) + MIN_RW_SIZE /\ WordOf(a) <= WordOf(y)
    BY <2>1, WordFacts
  <2> QED BY <1>2, <1>3, <2>1, <2>2
<1>5. PICK t \in Nat : /\ t = span % MIN_RW_SIZE /\ t < w /\ end = TailWord(c) + t
                       /\ NeedsTail(c) <=> t # 0
                       /\ NeedsTail(c) => TailWord(c) = l
                       /\ TailWord(c) \in Nat
                       /\ base + WordsFor(span) <= l + w /\ WordsFor(span) \in Nat
  BY <1>1, <1>2, <1>3, <1>4, TailIs
<1>6. Span(c) = Frac(c) + Len(Part(c))
  BY Parts DEF Span
<1>11. WordOf(c.addr) = base /\ WordOf(EndOf(c) - 1) + MIN_RW_SIZE = l + w
  BY <1>2, <1>3, <1>4
<1>7. CASE c.step = "head"
  <2>1. x = [by |-> p, kind |-> "read", addr |-> base, data |-> [i \in 1 .. w |-> 0], done |-> 0]
    BY <1>2, <1>3, <1>7 DEF PacketOf
  <2>2. base + w <= l + w
    BY <1>4
  <2>3. [i \in 1 .. w |-> 0] \in Seq(Int) /\ Len([i \in 1 .. w |-> 0]) = w
    BY ZerosAre
  <2>4. x \in PacketType
    BY <2>1, <2>3 DEF PacketType
  <2>5. x.by = p /\ x.done = 0 /\ x.kind = "read" /\ x.addr = base /\ Len(x.data) = w
    BY <2>1, <2>3
  <2>6. base <= x.addr /\ x.addr + Len(x.data) <= l + w
    BY <1>4, <1>5, <2>2, <2>5
  <2> QED BY <1>11, <1>2, <1>3, <1>7, <2>2, <2>4, <2>5, <2>6
<1>8. CASE c.step = "tail"
  <2>1. x = [by |-> p, kind |-> "read", addr |-> TailWord(c), data |-> [i \in 1 .. w |-> 0], done |-> 0]
    BY <1>2, <1>8 DEF PacketOf
  <2>2. TailWord(c) = l
    BY <1>5, <1>8 DEF InOrder
  <2>3. [i \in 1 .. w |-> 0] \in Seq(Int) /\ Len([i \in 1 .. w |-> 0]) = w
    BY ZerosAre
  <2>4. x \in PacketType
    BY <1>5, <2>1, <2>3 DEF PacketType
  <2>5. x.by = p /\ x.done = 0 /\ x.kind = "read" /\ x.addr = TailWord(c) /\ Len(x.data) = w
    BY <2>1, <2>3
  <2>6. base <= x.addr /\ x.addr + Len(x.data) <= l + w
    BY <1>4, <1>5, <2>2, <2>5
  <2> QED BY <1>11, <1>2, <1>3, <1>8, <2>2, <2>4, <2>5, <2>6
<1>9. CASE c.step = "send" /\ c.kind = "read"
  <2>1. x = [by |-> p, kind |-> "read", addr |-> base, data |-> [i \in 1 .. WordsFor(span) |-> 0],
             done |-> 0]
    BY <1>3, <1>6, <1>9 DEF PacketOf
  <2>2. PICK u \in Nat : u = WordsFor(span) /\ base + u <= l + w
    BY <1>5
  <2>3. [i \in 1 .. u |-> 0] \in Seq(Int) /\ Len([i \in 1 .. u |-> 0]) = u
    BY ZerosAre
  <2>4. x \in PacketType
    BY <2>1, <2>2, <2>3 DEF PacketType
  <2>5. x.by = p /\ x.done = 0 /\ x.kind = "read" /\ x.addr = base /\ Len(x.data) = u
    BY <2>1, <2>2, <2>3
  <2>6. base <= x.addr /\ x.addr + Len(x.data) <= l + w
    BY <1>4, <1>5, <2>2, <2>5
  <2> QED BY <1>11, <1>2, <1>3, <1>9, <2>2, <2>4, <2>5, <2>6
<1>10. CASE c.step = "send" /\ c.kind = "write"
  <2>1. x = [by |-> p, kind |-> "write", addr |-> base, data |-> Cat(c.head, Part(c), c.tail), done |-> 0]
    BY <1>3, <1>10 DEF PacketOf, Cat
  <2>2. PICK z \in Nat : z = NumTail(c) /\ base + (span + z) <= l + w
    <3>1. CASE t # 0
      <4>1. NumTail(c) = w - t /\ TailWord(c) = l
        BY <1>2, <1>3, <1>5, <3>1 DEF NumTail
      <4>2. w - t \in Nat /\ base + (span + (w - t)) <= l + w
        BY <1>3, <1>4, <1>5, <4>1
      <4> QED BY <4>1, <4>2
    <3>2. CASE t = 0
      <4>1. NumTail(c) = 0
        BY <1>5, <3>2 DEF NumTail
      <4>2. base + (span + 0) <= l + w
        BY <1>3, <1>4
      <4> QED BY <4>1, <4>2
    <3> QED BY <3>1, <3>2
  <2>3. c.head \in Seq(Int) /\ Part(c) \in Seq(Int) /\ c.tail \in Seq(Int)
        /\ Len(c.head) = f /\ Len(Part(c)) = n /\ Len(c.tail) = z
    BY <1>3, <1>10, <2>2, Parts DEF ClientCall, InOrder
  <2>4. x.data \in Seq(Int) /\ Len(x.data) = f + n + z
    <3>1. /\ Cat(c.head, Part(c), c.tail) \in Seq(Int)
          /\ Len(Cat(c.head, Part(c), c.tail)) = Len(c.head) + Len(Part(c)) + Len(c.tail)
      <4>1. \A h, m, e \in Seq(Int) : /\ Cat(h, m, e) \in Seq(Int)
                                      /\ Len(Cat(h, m, e)) = Len(h) + Len(m) + Len(e)
        BY Joined
      <4> QED BY <2>3, <4>1, ZenonT(60)
    <3>2. x.data = Cat(c.head, Part(c), c.tail)
      BY <2>1
    <3>3. Len(x.data) = Len(c.head) + Len(Part(c)) + Len(c.tail)
      BY <3>1, <3>2
    <3>4. Len(x.data) = f + n + z
      BY <2>3, <3>3
    <3> QED BY <3>1, <3>2, <3>4
  <2>5. x \in PacketType
    BY <2>1, <2>4 DEF PacketType
  <2>6. x.by = p /\ x.done = 0 /\ x.kind = "write" /\ x.addr = base
        /\ x.data = Cat(c.head, Part(c), c.tail) /\ Len(x.data) = span + z
    <3>1. Len(x.data) = span + z
      BY <1>3, <2>4
    <3> QED BY <2>1, <3>1
  <2>7. base <= x.addr /\ x.addr + Len(x.data) <= l + w
    BY <1>4, <2>2, <2>6
  <2> QED BY <1>11, <1>2, <1>3, <1>10, <2>2, <2>5, <2>6, <2>7
<1> QED BY <1>7, <1>8, <1>9, <1>10 DEF ClientCall

-----------------------------------------------------------------------------
(* What is known of a call. *)

(* What a call of a worker of the emulator holds, and how far it is. *)
WorkerCall ==
  [step : {"pages", "done"}, req : Requests, by : RamWorkers, kind : {"write"}, addr : Nat,
   data : Seq(Int), done : Nat]

Stored(c) ==
  /\ c.req.kind = "write" /\ c.addr = c.req.addr /\ c.data = c.req.data /\ c.done <= Len(c.data)
  /\ c.step = "done" => c.done = Len(c.data)

(* A packet that is served is what the call it came from has sent. *)
ServesPacket(x, c) ==
  /\ x \in PacketType /\ c.step \in {"head", "tail", "send"}
  /\ x.kind = PacketOf(x.by, c).kind /\ x.addr = PacketOf(x.by, c).addr
  /\ Len(x.data) = Len(PacketOf(x.by, c).data)
  /\ x.kind = "write" => x.data = PacketOf(x.by, c).data
  /\ InRange(x) /\ x.done <= Len(x.data)

(* What is known of the bytes of a client's call: those that have been     *)
(* written are there, those that were read to fill a word up are still so, *)
(* and those that were read were there.                                    *)
Kept(c, m, l) ==
  \A b \in Byte :
    /\ c.kind = "write" =>
         /\ c.req.addr <= b /\ b < c.addr => m[b] = c.req.data[b - c.req.addr + 1]
         /\ c.step \in {"tail", "send"} /\ WordOf(c.addr) <= b /\ b < c.addr =>
              m[b] = c.head[b - WordOf(c.addr) + 1]
         /\ c.step = "send" /\ EndOf(c) <= b /\ b < EndOf(c) + Len(c.tail) =>
              m[b] = c.tail[b - EndOf(c) + 1]
    /\ c.kind = "read" /\ c.req.addr <= b /\ b < c.addr =>
         l[b] \in {Unknown, c.got[b - c.req.addr + 1]}

(* The pages that a worker has written, and those of a packet. *)
StoredIn(c, m) ==
  \A b \in Byte : c.addr <= b /\ b < c.addr + c.done => m[b] = c.data[b - c.addr + 1]

Served(x, m) == \A i \in Nat : i < x.done => m[x.addr + i] = x.data[i + 1]

(* The addresses of the memory. *)
LEMMA BytesAreNat ==
  /\ MEM_SIZE \in Nat
  /\ \A b : b \in Byte <=> b \in Nat /\ b < MEM_SIZE
BY RamConstants DEF Byte

(* The packet that is served. *)
LEMMA ServedIs ==
  ASSUME NEW c \in ClientCall, InOrder(c), NEW x, ServesPacket(x, c)
  PROVE  /\ Len(c.rest) # 0 /\ x.addr \in Nat /\ x.data \in Seq(Int) /\ x.done \in Nat
         /\ x.done <= Len(x.data) /\ x.addr + Len(x.data) < MEM_SIZE
         /\ c.step = "head" => x.kind = "read" /\ x.addr = WordOf(c.addr) /\ Len(x.data) = MIN_RW_SIZE
         /\ c.step = "tail" => x.kind = "read" /\ x.addr = TailWord(c) /\ Len(x.data) = MIN_RW_SIZE
         /\ c.step = "send" /\ c.kind = "read" =>
              x.kind = "read" /\ x.addr = WordOf(c.addr) /\ Len(x.data) = WordsFor(Span(c))
         /\ c.step = "send" /\ c.kind = "write" =>
              /\ x.kind = "write" /\ x.addr = WordOf(c.addr) /\ Len(x.data) = Span(c) + NumTail(c)
              /\ x.data = Cat(c.head, Part(c), c.tail)
         /\ x.kind = "write" => c.step = "send" /\ c.kind = "write"
         /\ WordOf(c.addr) <= x.addr /\ x.addr + Len(x.data) <= WordOf(EndOf(c) - 1) + MIN_RW_SIZE
<1>1. x \in PacketType /\ x.by \in RamClients /\ c.step \in {"head", "tail", "send"}
  BY DEF ServesPacket, PacketType
<1>2. PICK y : y = PacketOf(x.by, c)
  OBVIOUS
<1>3. /\ c.step = "head" => y.kind = "read" /\ y.addr = WordOf(c.addr) /\ Len(y.data) = MIN_RW_SIZE
      /\ c.step = "tail" => y.kind = "read" /\ y.addr = TailWord(c) /\ Len(y.data) = MIN_RW_SIZE
      /\ c.step = "send" /\ c.kind = "read" =>
           y.kind = "read" /\ y.addr = WordOf(c.addr) /\ Len(y.data) = WordsFor(Span(c))
      /\ c.step = "send" /\ c.kind = "write" =>
           /\ y.kind = "write" /\ y.addr = WordOf(c.addr) /\ Len(y.data) = Span(c) + NumTail(c)
           /\ y.data = Cat(c.head, Part(c), c.tail)
      /\ y.kind = "write" => c.step = "send" /\ c.kind = "write"
      /\ WordOf(c.addr) <= y.addr /\ y.addr + Len(y.data) <= WordOf(EndOf(c) - 1) + MIN_RW_SIZE
  BY <1>1, <1>2, PacketIs
<1>4. /\ x.kind = y.kind /\ x.addr = y.addr /\ Len(x.data) = Len(y.data)
      /\ x.kind = "write" => x.data = y.data
      /\ InRange(x) /\ x.done <= Len(x.data)
  BY <1>2 DEF ServesPacket
<1>5. Len(c.rest) # 0
  BY <1>1 DEF InOrder
<1>6. x.addr \in Nat /\ x.data \in Seq(Int) /\ x.done \in Nat
  BY <1>1 DEF PacketType
<1>7. x.addr + Len(x.data) < MEM_SIZE
  BY <1>4 DEF InRange
<1> QED BY <1>3, <1>4, <1>5, <1>6, <1>7

(* A page of a transfer. *)
LEMMA PageIs ==
  ASSUME NEW x, x.addr \in Nat, x.done \in Nat, x.data \in Seq(Int), x.done <= Len(x.data)
  PROVE  /\ EndOfPage(x) \in Nat /\ x.done <= EndOfPage(x) /\ EndOfPage(x) <= Len(x.data)
         /\ \A b \in Nat : b \in InPage(x) <=> x.addr + x.done <= b /\ b < x.addr + EndOfPage(x)
<1>1. PICK a \in Nat, d \in Nat, n \in Nat : a = x.addr /\ d = x.done /\ n = Len(x.data) /\ d <= n
  OBVIOUS
<1>2. PICK p \in Nat \ {0} : p = PAGE_SIZE
  BY RamConstants
<1>3. PICK at \in Nat : at = a + d
  OBVIOUS
<1>4. PICK q \in Nat, r \in Nat : q = at \div p /\ r < p /\ at = p * q + r
  <2>1. at \div p \in Nat /\ at % p \in Nat /\ at % p < p /\ at = p * (at \div p) + (at % p)
    OBVIOUS
  <2> QED BY <2>1
<1>5. PICK e \in Nat : e = (q + 1) * p /\ at < e
  <2>1. (q + 1) * p = p * q + p /\ p * q \in Nat
    OBVIOUS
  <2>2. PICK k \in Nat : k = p * q
    BY <2>1
  <2>3. (q + 1) * p = k + p /\ at = k + r /\ r < p
    BY <1>4, <2>1, <2>2
  <2>4. k + p \in Nat /\ at < k + p
    BY <2>3
  <2> QED BY <2>3, <2>4
<1>6. EndOfPage(x) = IF e - a < n THEN e - a ELSE n
  BY <1>1, <1>2, <1>3, <1>4, <1>5 DEF EndOfPage
<1>7. PICK m \in Nat : m = EndOfPage(x) /\ d <= m /\ m <= n
  BY <1>1, <1>3, <1>5, <1>6, SMTT(30)
<1>8. ASSUME NEW b \in Nat PROVE b \in InPage(x) <=> a + d <= b /\ b < a + m
  <2>1. InPage(x) = {a + i : i \in d .. m - 1}
    BY <1>1, <1>7 DEF InPage
  <2>2. ASSUME a + d <= b, b < a + m PROVE b \in {a + i : i \in d .. m - 1}
    <3>1. b - a \in d .. m - 1 /\ b = a + (b - a)
      BY <2>2
    <3> QED BY <3>1
  <2> QED BY <2>1, <2>2
<1> QED BY <1>1, <1>7, <1>8

(* The bytes that a packet is about. *)
PacketBytes(x) == {b \in Byte : x.addr <= b /\ b < x.addr + Len(x.data)}

(* What a packet that writes has for each byte. *)
LEMMA PacketHas ==
  ASSUME NEW c \in ClientCall, InOrder(c), NEW x, ServesPacket(x, c), x.kind = "write",
         NEW m, NEW l, NEW b \in PacketBytes(x)
  PROVE  /\ c.addr <= b /\ b < EndOf(c) => x.data[b - x.addr + 1] = c.req.data[b - c.req.addr + 1]
         /\ ~(c.addr <= b /\ b < EndOf(c)) /\ Kept(c, m, l) => x.data[b - x.addr + 1] = m[b]
<1>1. /\ Len(c.rest) # 0 /\ c.step = "send" /\ c.kind = "write"
      /\ x.addr = WordOf(c.addr) /\ Len(x.data) = Span(c) + NumTail(c)
      /\ x.data = Cat(c.head, Part(c), c.tail)
  BY ServedIs
<1>2. PICK a \in Nat, n \in Nat, f \in Nat, base \in Nat, from \in Nat :
        /\ a = c.addr /\ n = PartLen(c) /\ f = Frac(c) /\ base = WordOf(a) /\ from = c.req.addr
        /\ a = base + f /\ EndOf(c) = a + n /\ Span(c) = f + n /\ from <= a
  <2>1. c.addr \in Nat /\ c.req \in Requests
    BY DEF ClientCall
  <2>2. c.req.addr \in Nat /\ c.req.addr <= c.addr
    BY <2>1 DEF Requests, InOrder
  <2>3. WordOf(c.addr) \in Nat
    BY <2>1, WordFacts
  <2>4. PartLen(c) \in Nat /\ Frac(c) \in Nat /\ c.addr = WordOf(c.addr) + Frac(c)
    BY Parts
  <2>5. EndOf(c) = c.addr + PartLen(c) /\ Span(c) = Frac(c) + PartLen(c)
    BY DEF EndOf, Span
  <2> QED BY <2>1, <2>2, <2>3, <2>4, <2>5
<1>3. b \in Nat /\ b \in Byte
  BY BytesAreNat DEF PacketBytes
<1>4. PICK z \in Nat : z = NumTail(c) /\ Len(x.data) = f + n + z
  <2>1. NumTail(c) \in Nat
    <3>1. Len(c.tail) = NumTail(c) /\ c.tail \in Seq(Int)
      BY <1>1 DEF InOrder, ClientCall
    <3> QED BY <3>1
  <2> QED BY <1>1, <1>2, <2>1
<1>5. base <= b /\ b < base + (f + n + z)
  BY <1>1, <1>2, <1>4 DEF PacketBytes
<1>6. /\ c.head \in Seq(Int) /\ Part(c) \in Seq(Int) /\ c.tail \in Seq(Int)
      /\ Len(c.head) = f /\ Len(Part(c)) = n /\ Len(c.tail) = z
  BY <1>1, <1>2, <1>4, Parts DEF ClientCall, InOrder
<1>7. /\ \A i \in 1 .. f : x.data[i] = c.head[i]
      /\ \A i \in 1 .. n : x.data[f + i] = Part(c)[i]
      /\ \A i \in 1 .. z : x.data[f + n + i] = c.tail[i]
  <2>1. \A h, d, e \in Seq(Int) :
          /\ \A i \in 1 .. Len(h) : Cat(h, d, e)[i] = h[i]
          /\ \A i \in 1 .. Len(d) : Cat(h, d, e)[Len(h) + i] = d[i]
          /\ \A i \in 1 .. Len(e) : Cat(h, d, e)[Len(h) + Len(d) + i] = e[i]
    BY Joined, ZenonT(60)
  <2>2. /\ \A i \in 1 .. Len(c.head) : Cat(c.head, Part(c), c.tail)[i] = c.head[i]
        /\ \A i \in 1 .. Len(Part(c)) : Cat(c.head, Part(c), c.tail)[Len(c.head) + i] = Part(c)[i]
        /\ \A i \in 1 .. Len(c.tail) :
             Cat(c.head, Part(c), c.tail)[Len(c.head) + Len(Part(c)) + i] = c.tail[i]
    BY <1>6, <2>1
  <2> QED BY <1>1, <1>6, <2>2
<1>8. CASE b < a
  <2>1. PICK i \in 1 .. f : i = b - base + 1
    BY <1>2, <1>3, <1>5, <1>8
  <2>2. x.data[b - base + 1] = c.head[b - base + 1]
    BY <1>7, <2>1
  <2>3. ASSUME Kept(c, m, l) PROVE m[b] = c.head[b - base + 1]
    <3>1. WordOf(c.addr) <= b /\ b < c.addr /\ WordOf(c.addr) = base
      BY <1>2, <1>5, <1>8
    <3>2. c.step \in {"tail", "send"}
      BY <1>1
    <3>3. m[b] = c.head[b - WordOf(c.addr) + 1]
      BY <1>1, <1>3, <2>3, <3>1, <3>2 DEF Kept
    <3> QED BY <3>1, <3>3
  <2>4. x.addr = base /\ ~(c.addr <= b)
    BY <1>1, <1>2, <1>3, <1>8
  <2> QED BY <2>2, <2>3, <2>4
<1>9. CASE a <= b /\ b < a + n
  <2>1. PICK i \in 1 .. n : i = b - a + 1 /\ f + i = b - base + 1 /\ a - from + i = b - from + 1
    BY <1>2, <1>3, <1>9
  <2>2. x.data[b - base + 1] = Part(c)[i] /\ Part(c)[i] = c.rest[i]
    BY <1>2, <1>7, <2>1, Parts
  <2>3. i \in 1 .. Len(c.rest)
    <3>1. Len(c.rest) \in Nat
      BY DEF ClientCall
    <3>2. n <= Len(c.rest)
      BY <1>2, Parts
    <3> QED BY <3>1, <3>2
  <2>4. c.rest[i] = c.req.data[b - from + 1]
    BY <1>2, <2>1, <2>3 DEF InOrder
  <2>5. x.addr = base /\ c.req.addr = from /\ c.addr <= b /\ b < EndOf(c)
    BY <1>1, <1>2, <1>9
  <2> QED BY <2>1, <2>2, <2>4, <2>5
<1>10. CASE a + n <= b
  <2>1. PICK i \in 1 .. z : i = b - (a + n) + 1 /\ f + n + i = b - base + 1
    BY <1>2, <1>3, <1>5, <1>10
  <2>2. x.data[b - base + 1] = c.tail[b - (a + n) + 1]
    BY <1>7, <2>1
  <2>3. b < EndOf(c) + Len(c.tail) /\ EndOf(c) <= b
    BY <1>2, <1>5, <1>6, <1>10
  <2>4. ASSUME Kept(c, m, l) PROVE m[b] = c.tail[b - (a + n) + 1]
    <3>1. m[b] = c.tail[b - EndOf(c) + 1]
      BY <1>1, <1>3, <2>3, <2>4 DEF Kept
    <3> QED BY <1>2, <3>1
  <2>5. ~(b < EndOf(c)) /\ x.addr = base
    BY <1>1, <1>2, <1>3, <1>10
  <2> QED BY <2>2, <2>4, <2>5
<1>11. b < a \/ (a <= b /\ b < a + n) \/ a + n <= b
  BY <1>3
<1> QED BY <1>8, <1>9, <1>10, <1>11

(* The bytes of a memory. *)
Memories == [Byte -> Int]

(* Where a call has kept bytes. *)
LEMMA KeptNear ==
  ASSUME NEW c \in ClientCall, InOrder(c), NEW b \in Byte
  PROVE  /\ c.req.addr <= b /\ b < c.addr => Near(c.req, b) /\ Covers(c.req, b)
         /\ c.kind = "write" /\ c.step \in {"tail", "send"} /\ WordOf(c.addr) <= b /\ b < c.addr =>
              Near(c.req, b)
         /\ c.kind = "write" /\ c.step = "send" /\ EndOf(c) <= b /\ b < EndOf(c) + Len(c.tail) =>
              Near(c.req, b)
<1>1. b \in Nat
  BY BytesAreNat
<1>2. c.req \in Requests /\ c.addr \in Nat
  BY DEF ClientCall
<1>3. PICK from \in Nat, size \in Nat, left \in Nat, a \in Nat :
        from = c.req.addr /\ size = Len(c.req.data) /\ left = Len(c.rest) /\ a = c.addr
  <2>1. c.req.addr \in Nat /\ Len(c.req.data) \in Nat
    BY <1>2 DEF Requests
  <2>2. Len(c.rest) \in Nat
    BY DEF ClientCall
  <2> QED BY <1>2, <2>1, <2>2
<1>4. from <= a /\ a + left = from + size
  BY <1>3 DEF InOrder
<1>5. ASSUME from <= b, b < a PROVE Near(c.req, b) /\ Covers(c.req, b)
  <2>1. b < from + size
    BY <1>1, <1>4, <1>5
  <2> QED BY <1>1, <1>2, <1>3, <1>5, <2>1, CoveredIsNear
<1>6. ASSUME c.step \in {"tail", "send"}
      PROVE  /\ Len(c.rest) # 0 /\ EndOf(c) \in Nat /\ c.addr <= EndOf(c) - 1 /\ EndOf(c) - 1 \in Nat
             /\ WordOf(c.addr) <= c.addr
             /\ WordOf(EndOf(c) - 1) \in Nat /\ WordOf(EndOf(c) - 1) <= EndOf(c) - 1
             /\ EndOf(c) - 1 < WordOf(EndOf(c) - 1) + MIN_RW_SIZE
             /\ c.addr < WordOf(EndOf(c) - 1) + MIN_RW_SIZE
  <2>1. Len(c.rest) # 0
    BY <1>6 DEF InOrder
  <2>2. PICK n \in Nat \ {0} : n = PartLen(c) /\ EndOf(c) = a + n
    BY <1>3, <2>1, Parts DEF EndOf
  <2>3. PICK y \in Nat : y = EndOf(c) - 1 /\ a <= y
    <3>1. (a + n) - 1 \in Nat /\ a <= (a + n) - 1
      BY <1>3
    <3>2. EndOf(c) - 1 = (a + n) - 1
      BY <2>2
    <3> QED BY <3>1, <3>2, Zenon
  <2>4. PICK v \in Nat : v = WordOf(y) /\ v <= y /\ y < v + MIN_RW_SIZE
    BY WordFacts
  <2>5. WordOf(a) <= a
    BY WordFacts
  <2>6. MIN_RW_SIZE \in Nat
    BY RamConstants
  <2>7. a < v + MIN_RW_SIZE
    BY <1>3, <2>3, <2>4, <2>6
  <2>8. EndOf(c) \in Nat
    BY <2>2
  <2> QED BY <1>3, <2>1, <2>3, <2>4, <2>5, <2>7, <2>8
<1>7. ASSUME c.step \in {"tail", "send"}, WordOf(c.addr) <= b, b < c.addr PROVE Near(c.req, b)
  <2>1. PICK v \in Nat : v = WordOf(EndOf(c) - 1) /\ c.addr < v + MIN_RW_SIZE
    BY <1>6, <1>7
  <2>2. MIN_RW_SIZE \in Nat
    BY RamConstants
  <2>3. b < v + MIN_RW_SIZE
    BY <1>1, <1>2, <1>7, <2>1, <2>2
  <2>4. Len(c.rest) # 0
    BY <1>6, <1>7
  <2> QED BY <1>1, <1>7, <2>1, <2>3, <2>4, NearBy
<1>8. ASSUME c.kind = "write", c.step = "send", EndOf(c) <= b, b < EndOf(c) + Len(c.tail)
      PROVE  Near(c.req, b)
  <2>1. Len(c.tail) = NumTail(c) /\ Len(c.rest) # 0
    BY <1>8, <1>6 DEF InOrder
  <2>2. PICK e \in Nat, t \in Nat, w \in Nat \ {0}, v \in Nat :
          /\ e = EndOf(c) /\ t = Span(c) % MIN_RW_SIZE /\ w = MIN_RW_SIZE /\ t < w
          /\ v = WordOf(e - 1)
    BY <1>6, <1>8, <2>1, TailIs, RamConstants
  <2>3. PICK z \in Nat : z = NumTail(c) /\ (z # 0 => NeedsTail(c) /\ z = w - t)
    <3>1. w - t \in Nat
      BY <2>2
    <3> QED BY <2>2, <3>1 DEF NumTail
  <2>4. b < e + z /\ e <= b
    BY <1>8, <2>1, <2>2, <2>3
  <2>5. z # 0
    BY <1>1, <2>4
  <2>6. e = TailWord(c) + t /\ TailWord(c) = v
    BY <2>1, <2>2, <2>3, <2>5, TailIs
  <2>7. b < v + w
    BY <1>1, <2>2, <2>3, <2>4, <2>5, <2>6
  <2>8. WordOf(c.addr) <= b
    <3>1. WordOf(c.addr) \in Nat /\ WordOf(c.addr) <= a
      BY <1>3, WordFacts
    <3>2. a <= e - 1
      BY <1>3, <1>6, <1>8, <2>2
    <3> QED BY <1>1, <2>4, <3>1, <3>2
  <2> QED BY <1>1, <2>1, <2>2, <2>7, <2>8, NearBy
<1> QED BY <1>3, <1>5, <1>7, <1>8

(* What others do beside a call does not disturb it. *)
LEMMA KeptStays ==
  ASSUME NEW c \in ClientCall, InOrder(c), NEW m, NEW l, NEW m2, NEW l2, Kept(c, m, l),
         c.kind = "write" => \A b \in Byte : Near(c.req, b) => m2[b] = m[b],
         c.kind = "read" => \A b \in Byte : Near(c.req, b) => l2[b] \in {l[b], Unknown}
  PROVE  Kept(c, m2, l2)
<1> SUFFICES ASSUME NEW b \in Byte
             PROVE  /\ c.kind = "write" =>
                         /\ c.req.addr <= b /\ b < c.addr => m2[b] = c.req.data[b - c.req.addr + 1]
                         /\ c.step \in {"tail", "send"} /\ WordOf(c.addr) <= b /\ b < c.addr =>
                              m2[b] = c.head[b - WordOf(c.addr) + 1]
                         /\ c.step = "send" /\ EndOf(c) <= b /\ b < EndOf(c) + Len(c.tail) =>
                              m2[b] = c.tail[b - EndOf(c) + 1]
                    /\ c.kind = "read" /\ c.req.addr <= b /\ b < c.addr =>
                         l2[b] \in {Unknown, c.got[b - c.req.addr + 1]}
  BY Zenon DEF Kept
<1>1. ASSUME c.kind = "write", c.req.addr <= b, b < c.addr
      PROVE  m2[b] = c.req.data[b - c.req.addr + 1]
  <2>1. m[b] = c.req.data[b - c.req.addr + 1]
    BY <1>1 DEF Kept
  <2>2. Near(c.req, b)
    BY <1>1, KeptNear
  <2> QED BY <1>1, <2>1, <2>2
<1>2. ASSUME c.kind = "write", c.step \in {"tail", "send"}, WordOf(c.addr) <= b, b < c.addr
      PROVE  m2[b] = c.head[b - WordOf(c.addr) + 1]
  <2>1. m[b] = c.head[b - WordOf(c.addr) + 1]
    BY <1>2 DEF Kept
  <2>2. Near(c.req, b)
    BY <1>2, KeptNear
  <2> QED BY <1>2, <2>1, <2>2
<1>3. ASSUME c.kind = "write", c.step = "send", EndOf(c) <= b, b < EndOf(c) + Len(c.tail)
      PROVE  m2[b] = c.tail[b - EndOf(c) + 1]
  <2>1. m[b] = c.tail[b - EndOf(c) + 1]
    BY <1>3 DEF Kept
  <2>2. Near(c.req, b)
    BY <1>3, KeptNear
  <2> QED BY <1>3, <2>1, <2>2
<1>4. ASSUME c.kind = "read", c.req.addr <= b, b < c.addr
      PROVE  l2[b] \in {Unknown, c.got[b - c.req.addr + 1]}
  <2>1. l[b] \in {Unknown, c.got[b - c.req.addr + 1]}
    BY <1>4 DEF Kept
  <2>2. Near(c.req, b)
    BY <1>4, KeptNear
  <2> QED BY <1>4, <2>1, <2>2
<1> QED BY <1>1, <1>2, <1>3, <1>4

(* The bytes of a worker's request. *)
LEMMA StoredNear ==
  ASSUME NEW c \in WorkerCall, Stored(c), NEW b \in Byte, c.addr <= b, b < c.addr + Len(c.data)
  PROVE  Near(c.req, b) /\ Covers(c.req, b)
<1>1. c.req \in Requests
  BY DEF WorkerCall
<1>2. b \in Nat
  BY BytesAreNat
<1> QED BY <1>1, <1>2, CoveredIsNear DEF Stored

(* Nor does it disturb a worker. *)
LEMMA StoredStays ==
  ASSUME NEW c \in WorkerCall, Stored(c), NEW m, NEW m2, StoredIn(c, m),
         \A b \in Byte : Near(c.req, b) => m2[b] = m[b]
  PROVE  StoredIn(c, m2)
<1> SUFFICES ASSUME NEW b \in Byte, c.addr <= b, b < c.addr + c.done
             PROVE  m2[b] = c.data[b - c.addr + 1]
  BY DEF StoredIn
<1>1. m[b] = c.data[b - c.addr + 1]
  BY DEF StoredIn
<1>2. b < c.addr + Len(c.data)
  <2>1. c.addr \in Nat /\ c.done \in Nat /\ Len(c.data) \in Nat
    BY DEF WorkerCall
  <2>2. c.done <= Len(c.data) /\ b \in Nat
    BY BytesAreNat DEF Stored
  <2> QED BY <2>1, <2>2
<1> QED BY <1>1, <1>2, StoredNear

(* What holds of a call at any step. *)
Begun(c) ==
  /\ c.kind = c.req.kind
  /\ c.req.addr <= c.addr /\ c.addr + Len(c.rest) = c.req.addr + Len(c.req.data)
  /\ c.req.addr < c.addr => c.addr <= MEM_SIZE
  /\ \A i \in 1 .. Len(c.rest) : c.rest[i] = c.req.data[c.addr - c.req.addr + i]
  /\ c.kind = "read" => Len(c.got) = c.addr - c.req.addr

(* What is known of the bytes before the next part. *)
KeptBefore(c, m, l) ==
  \A b \in Byte : c.req.addr <= b /\ b < c.addr =>
    /\ c.kind = "write" => m[b] = c.req.data[b - c.req.addr + 1]
    /\ c.kind = "read" => l[b] \in {Unknown, c.got[b - c.req.addr + 1]}

(* A call begins each part with the step that the part needs. *)
LEMMA FirstStepIs ==
  ASSUME NEW c \in ClientCall, Begun(c)
  PROVE  /\ AtFirstStep(c) \in ClientCall /\ InOrder(AtFirstStep(c))
         /\ AtFirstStep(c).req = c.req /\ AtFirstStep(c).kind = c.kind
         /\ \A m, l : KeptBefore(c, m, l) => Kept(AtFirstStep(c), m, l)
<1>1. PICK d : d = AtFirstStep(c)
  OBVIOUS
<1>2. /\ d.step = FirstStep(c) /\ d.head = <<>> /\ d.tail = <<>> /\ d.req = c.req /\ d.kind = c.kind
      /\ d.addr = c.addr /\ d.rest = c.rest /\ d.got = c.got
  BY <1>1 DEF AtFirstStep, ClientCall
<1>3. /\ FirstStep(c) \in {"head", "tail", "send", "done"}
      /\ FirstStep(c) = "done" <=> c.rest = <<>>
      /\ c.kind = "read" => FirstStep(c) \in {"send", "done"}
      /\ FirstStep(c) = "tail" => NeedsTail(c)
      /\ c.kind = "write" /\ FirstStep(c) \in {"tail", "send"} => Frac(c) = 0
      /\ c.kind = "write" /\ FirstStep(c) = "send" => ~NeedsTail(c)
  BY Zenon DEF FirstStep
<1>4. d \in ClientCall
  <2>1. FirstStep(c) \in {"head", "tail", "send", "done"} /\ <<>> \in Seq(Int)
    BY <1>3
  <2>2. d = [c EXCEPT !.step = FirstStep(c), !.head = <<>>, !.tail = <<>>]
    BY <1>1 DEF AtFirstStep
  <2> QED BY <2>1, <2>2 DEF ClientCall
<1>5. c.rest = <<>> <=> Len(c.rest) = 0
  <2>1. c.rest \in Seq(Int)
    BY DEF ClientCall
  <2> QED BY <2>1
<1>6. Frac(d) = Frac(c) /\ Part(d) = Part(c) /\ PartLen(d) = PartLen(c)
  BY <1>2 DEF Frac, Part, PartLen
<1>7. Span(d) = Span(c) /\ (NeedsTail(d) <=> NeedsTail(c)) /\ NumTail(d) = NumTail(c)
  BY <1>2, <1>6 DEF Span, NeedsTail, NumTail
<1>8. Len(d.head) = 0 /\ Len(d.tail) = 0
  BY <1>2
<1>9. d.kind = "write" => /\ d.step \in {"tail", "send"} => Len(d.head) = Frac(d)
                          /\ d.step = "send" => Len(d.tail) = NumTail(d)
  <2>1. ASSUME ~NeedsTail(c) PROVE NumTail(c) = 0
    BY <2>1 DEF NumTail
  <2> QED BY <1>2, <1>3, <1>6, <1>7, <1>8, <2>1
<1>10. /\ d.kind = d.req.kind
       /\ d.req.addr <= d.addr /\ d.addr + Len(d.rest) = d.req.addr + Len(d.req.data)
       /\ d.req.addr < d.addr => d.addr <= MEM_SIZE
       /\ \A i \in 1 .. Len(d.rest) : d.rest[i] = d.req.data[d.addr - d.req.addr + i]
       /\ d.kind = "read" => Len(d.got) = d.addr - d.req.addr
  BY <1>2 DEF Begun
<1>11. InOrder(d)
  <2>1. d.step = "done" <=> Len(d.rest) = 0
    BY <1>2, <1>3, <1>5
  <2>2. d.kind = "read" => d.step \in {"send", "done"}
    BY <1>2, <1>3
  <2>3. (d.step = "head" => d.tail = <<>>) /\ (d.step = "tail" => NeedsTail(d))
    BY <1>2, <1>3, <1>7
  <2> QED BY <1>9, <1>10, <2>1, <2>2, <2>3 DEF InOrder
<1>12. ASSUME NEW m, NEW l, KeptBefore(c, m, l) PROVE Kept(d, m, l)
  <2>1. ASSUME NEW b \in Byte
        PROVE  /\ d.kind = "write" =>
                    /\ d.req.addr <= b /\ b < d.addr => m[b] = d.req.data[b - d.req.addr + 1]
                    /\ d.step \in {"tail", "send"} /\ WordOf(d.addr) <= b /\ b < d.addr =>
                         m[b] = d.head[b - WordOf(d.addr) + 1]
                    /\ d.step = "send" /\ EndOf(d) <= b /\ b < EndOf(d) + Len(d.tail) =>
                         m[b] = d.tail[b - EndOf(d) + 1]
               /\ d.kind = "read" /\ d.req.addr <= b /\ b < d.addr =>
                    l[b] \in {Unknown, d.got[b - d.req.addr + 1]}
    <3>1. ASSUME d.req.addr <= b, b < d.addr
          PROVE  /\ d.kind = "write" => m[b] = d.req.data[b - d.req.addr + 1]
                 /\ d.kind = "read" => l[b] \in {Unknown, d.got[b - d.req.addr + 1]}
      BY <1>2, <1>12, <3>1 DEF KeptBefore
    <3>2. ASSUME d.kind = "write", d.step \in {"tail", "send"}, WordOf(d.addr) <= b, b < d.addr
          PROVE  FALSE
      <4>1. Frac(d) = 0
        BY <1>2, <1>3, <1>6, <3>2
      <4>2. d.addr = WordOf(d.addr) + Frac(d) /\ d.addr \in Nat
        BY <1>4, Parts DEF ClientCall
      <4>3. WordOf(d.addr) \in Nat /\ b \in Nat
        BY <4>2, WordFacts, BytesAreNat
      <4> QED BY <3>2, <4>1, <4>2, <4>3
    <3>3. ASSUME EndOf(d) <= b, b < EndOf(d) + Len(d.tail) PROVE FALSE
      <4>1. EndOf(d) \in Nat /\ b \in Nat
        BY <1>4, Parts, BytesAreNat
      <4> QED BY <1>8, <3>3, <4>1
    <3> QED BY <3>1, <3>2, <3>3
  <2> QED BY <2>1 DEF Kept
<1> QED BY <1>1, <1>2, <1>4, <1>11, <1>12

(* What holds at every step of a part. *)
LEMMA InOrderIsBegun ==
  ASSUME NEW c \in ClientCall, InOrder(c)
  PROVE  /\ Begun(c)
         /\ \A m, l : Kept(c, m, l) => KeptBefore(c, m, l)
<1>1. Begun(c)
  BY DEF InOrder, Begun
<1>2. ASSUME NEW m, NEW l, Kept(c, m, l) PROVE KeptBefore(c, m, l)
  BY <1>2 DEF Kept, KeptBefore
<1> QED BY <1>1, <1>2

(* A call at its beginning. *)
Fresh(r) == [step |-> "send", req |-> r, kind |-> r.kind, addr |-> r.addr,
             rest |-> r.data, head |-> <<>>, tail |-> <<>>, got |-> <<>>]

(* A call at its beginning is in order. *)
LEMMA FreshIs ==
  ASSUME NEW r \in Requests
  PROVE  Fresh(r) \in ClientCall /\ Begun(Fresh(r)) /\ \A m, l : KeptBefore(Fresh(r), m, l)
<1>1. PICK c : c = Fresh(r)
  OBVIOUS
<1>2. PICK a \in Nat, s \in Seq(Int) : a = r.addr /\ s = r.data /\ r.kind \in {"read", "write"}
  BY DEF Requests
<1>3. c.addr = a /\ c.rest = s /\ c.req = r /\ c.kind = r.kind /\ c.got = <<>>
  BY <1>1, <1>2 DEF Fresh
<1>4. c \in ClientCall
  BY <1>1, <1>2 DEF Fresh, ClientCall
<1>5. Len(s) \in Nat /\ \A i \in 1 .. Len(s) : a - a + i = i
  OBVIOUS
<1>6. Begun(c)
  BY <1>2, <1>3, <1>5, SMTT(30) DEF Begun
<1>7. \A b \in Byte : ~(a <= b /\ b < a)
  BY BytesAreNat
<1>8. \A m, l : KeptBefore(c, m, l)
  BY <1>2, <1>3, <1>7 DEF KeptBefore
<1> QED BY <1>1, <1>4, <1>6, <1>8

-----------------------------------------------------------------------------
(* Replies and pages. *)

(* The reply of the words before the data. *)
LEMMA HeadAnswered ==
  ASSUME NEW c \in ClientCall, InOrder(c), c.step = "head", NEW x, ServesPacket(x, c), x.done = Len(x.data)
  PROVE  /\ Answered(c, x.data) \in ClientCall /\ InOrder(Answered(c, x.data))
         /\ Answered(c, x.data).req = c.req /\ Answered(c, x.data).kind = c.kind
         /\ \A m, l : Kept(c, m, l) /\ Served(x, m) => Kept(Answered(c, x.data), m, l)
<1>1. PICK d : d = Answered(c, x.data)
  OBVIOUS
<1>2. c.kind = "write" /\ Len(c.rest) # 0 /\ c.tail = <<>>
  BY DEF InOrder, ClientCall
<1>3. PICK h \in Seq(Int) : /\ h = SubSeq(x.data, 1, Frac(c)) /\ Len(h) = Frac(c)
                            /\ \A i \in 1 .. Frac(c) : h[i] = x.data[i]
  <2>1. PICK s \in Seq(Int) : s = x.data /\ Len(s) = MIN_RW_SIZE
    BY ServedIs
  <2>2. PICK f \in Nat : f = Frac(c) /\ f <= Len(s)
    <3>1. MIN_RW_SIZE \in Nat
      BY RamConstants
    <3>2. Frac(c) \in Nat /\ Frac(c) < MIN_RW_SIZE
      BY Parts
    <3> QED BY <2>1, <3>1, <3>2
  <2>3. SubSeq(s, 1, f) \in Seq(Int) /\ Len(SubSeq(s, 1, f)) = f /\ \A i \in 1 .. f : SubSeq(s, 1, f)[i] = s[i]
    BY <2>2
  <2> QED BY <2>1, <2>2, <2>3
<1>4. PICK st \in {"tail", "send"} : st = IF NeedsTail(c) THEN "tail" ELSE "send"
  OBVIOUS
<1>5. d = [c EXCEPT !.head = h, !.step = st]
  BY <1>1, <1>3, <1>4 DEF Answered
<1>6. /\ d.step = st /\ d.head = h /\ d.tail = <<>> /\ d.req = c.req /\ d.kind = c.kind
      /\ d.addr = c.addr /\ d.rest = c.rest /\ d.got = c.got
  BY <1>2, <1>5 DEF ClientCall
<1>7. d \in ClientCall
  BY <1>5 DEF ClientCall
<1>8. /\ Frac(d) = Frac(c) /\ Part(d) = Part(c) /\ PartLen(d) = PartLen(c) /\ EndOf(d) = EndOf(c)
  BY <1>6 DEF Frac, Part, PartLen, EndOf
<1>9. Span(d) = Span(c) /\ (NeedsTail(d) <=> NeedsTail(c)) /\ NumTail(d) = NumTail(c)
  BY <1>6, <1>8 DEF Span, NeedsTail, NumTail
<1>10. InOrder(d)
  <2>1. Begun(c)
    BY InOrderIsBegun
  <2>2. /\ d.kind = d.req.kind
        /\ d.req.addr <= d.addr /\ d.addr + Len(d.rest) = d.req.addr + Len(d.req.data)
        /\ d.req.addr < d.addr => d.addr <= MEM_SIZE
        /\ \A i \in 1 .. Len(d.rest) : d.rest[i] = d.req.data[d.addr - d.req.addr + i]
        /\ d.kind = "read" => Len(d.got) = d.addr - d.req.addr
    BY <1>6, <2>1 DEF Begun
  <2>3. d.step = "send" => Len(d.tail) = NumTail(d)
    BY <1>4, <1>6, <1>9 DEF NumTail
  <2>4. Len(d.head) = Frac(d)
    BY <1>3, <1>6, <1>8
  <2>5. d.step = "tail" => NeedsTail(d)
    BY <1>4, <1>6, <1>9
  <2>6. d.step # "done" /\ Len(d.rest) # 0 /\ d.step # "head" /\ d.kind # "read"
    BY <1>2, <1>4, <1>6
  <2> QED BY <2>2, <2>3, <2>4, <2>5, <2>6 DEF InOrder
<1>11. ASSUME NEW m, NEW l, Kept(c, m, l), Served(x, m) PROVE Kept(d, m, l)
  <2>1. KeptBefore(c, m, l)
    BY <1>11, InOrderIsBegun
  <2>2. ASSUME NEW b \in Byte
        PROVE  /\ d.kind = "write" =>
                    /\ d.req.addr <= b /\ b < d.addr => m[b] = d.req.data[b - d.req.addr + 1]
                    /\ d.step \in {"tail", "send"} /\ WordOf(d.addr) <= b /\ b < d.addr =>
                         m[b] = d.head[b - WordOf(d.addr) + 1]
                    /\ d.step = "send" /\ EndOf(d) <= b /\ b < EndOf(d) + Len(d.tail) =>
                         m[b] = d.tail[b - EndOf(d) + 1]
               /\ d.kind = "read" /\ d.req.addr <= b /\ b < d.addr =>
                    l[b] \in {Unknown, d.got[b - d.req.addr + 1]}
    <3>1. ASSUME d.req.addr <= b, b < d.addr
          PROVE  /\ d.kind = "write" => m[b] = d.req.data[b - d.req.addr + 1]
                 /\ d.kind = "read" => l[b] \in {Unknown, d.got[b - d.req.addr + 1]}
      BY <1>6, <2>1, <3>1 DEF KeptBefore
    <3>2. ASSUME WordOf(d.addr) <= b, b < d.addr
          PROVE  m[b] = d.head[b - WordOf(d.addr) + 1]
      <4>1. PICK f \in Nat, base \in Nat : f = Frac(c) /\ base = WordOf(c.addr) /\ c.addr = base + f
        <5>1. WordOf(c.addr) \in Nat
          BY WordFacts DEF ClientCall
        <5> QED BY <5>1, Parts
      <4>2. PICK i \in Nat : b = base + i /\ i + 1 \in 1 .. f /\ b - base + 1 = i + 1
        <5>1. b \in Nat
          BY BytesAreNat
        <5>2. base <= b /\ b < base + f
          BY <1>6, <3>2, <4>1
        <5>3. b - base \in Nat
          BY <5>1, <5>2
        <5>4. PICK i \in Nat : i = b - base
          BY <5>3
        <5> QED BY <5>1, <5>2, <5>4
      <4>3. PICK n \in Nat : n = x.done /\ f < n /\ x.addr = base
        <5>1. MIN_RW_SIZE \in Nat /\ f < MIN_RW_SIZE /\ Len(x.data) = MIN_RW_SIZE /\ x.addr = base
          BY <4>1, RamConstants, Parts, ServedIs
        <5> QED BY <5>1
      <4>4. i < n
        BY <4>2, <4>3
      <4>5. m[base + i] = x.data[i + 1]
        BY <1>11, <4>3, <4>4 DEF Served
      <4>6. h[i + 1] = x.data[i + 1]
        BY <1>3, <4>1, <4>2
      <4>7. b - WordOf(d.addr) + 1 = i + 1
        BY <1>6, <4>1, <4>2
      <4> QED BY <1>6, <4>2, <4>5, <4>6, <4>7
    <3>3. ASSUME EndOf(d) <= b, b < EndOf(d) + Len(d.tail) PROVE FALSE
      <4>1. EndOf(d) \in Nat /\ b \in Nat
        BY <1>7, Parts, BytesAreNat
      <4>2. Len(d.tail) = 0
        BY <1>6
      <4> QED BY <3>3, <4>1, <4>2
    <3> QED BY <3>1, <3>2, <3>3
  <2> QED BY <2>2 DEF Kept
<1> QED BY <1>1, <1>6, <1>7, <1>10, <1>11

(* The reply of the word after the data. *)
LEMMA TailAnswered ==
  ASSUME NEW c \in ClientCall, InOrder(c), c.step = "tail", NEW x, ServesPacket(x, c), x.done = Len(x.data)
  PROVE  /\ Answered(c, x.data) \in ClientCall /\ InOrder(Answered(c, x.data))
         /\ Answered(c, x.data).req = c.req /\ Answered(c, x.data).kind = c.kind
         /\ \A m, l : Kept(c, m, l) /\ Served(x, m) => Kept(Answered(c, x.data), m, l)
<1>1. PICK d : d = Answered(c, x.data)
  OBVIOUS
<1>2. c.kind = "write" /\ Len(c.rest) # 0 /\ NeedsTail(c) /\ Len(c.head) = Frac(c)
  BY DEF InOrder, ClientCall
<1>3. PICK t \in Nat, w \in Nat, z \in Nat, end \in Nat, first \in Nat :
        /\ t = Span(c) % MIN_RW_SIZE /\ w = MIN_RW_SIZE /\ z = NumTail(c) /\ t + z = w
        /\ end = EndOf(c) /\ first = TailWord(c) /\ end = first + t
  <2>1. Span(c) % MIN_RW_SIZE \in Nat /\ Span(c) % MIN_RW_SIZE < MIN_RW_SIZE /\ MIN_RW_SIZE \in Nat
        /\ TailWord(c) \in Nat /\ EndOf(c) = TailWord(c) + (Span(c) % MIN_RW_SIZE) /\ EndOf(c) \in Nat
    BY <1>2, TailIs, Parts, RamConstants
  <2>2. PICK t \in Nat, w \in Nat : t = Span(c) % MIN_RW_SIZE /\ w = MIN_RW_SIZE /\ t < w
    BY <2>1
  <2>3. PICK z \in Nat : z = w - t /\ t + z = w
    BY <2>2
  <2>4. NumTail(c) = z
    BY <1>2, <2>2, <2>3 DEF NumTail
  <2> QED BY <2>1, <2>2, <2>3, <2>4
<1>12. \A i \in Nat : i + 1 \in 1 .. z => /\ t + i < w /\ t + i \in Nat
                                         /\ end + i = first + (t + i) /\ (t + i) + 1 = t + (i + 1)
  <2> SUFFICES ASSUME NEW i \in Nat, i + 1 \in 1 .. z
               PROVE  /\ t + i < w /\ t + i \in Nat
                      /\ end + i = first + (t + i) /\ (t + i) + 1 = t + (i + 1)
    OBVIOUS
  <2>1. t + z = w /\ end = first + t
    BY <1>3
  <2>2. i < z
    OBVIOUS
  <2>3. t + i < w
    BY <2>1, <2>2
  <2>4. end + i = first + (t + i)
    BY <2>1
  <2> QED BY <2>3, <2>4
<1>4. PICK e \in Seq(Int) : /\ e = SubSeq(x.data, t + 1, w) /\ Len(e) = z
                            /\ \A i \in 1 .. z : e[i] = x.data[t + i]
  <2>1. PICK s \in Seq(Int) : s = x.data /\ Len(s) = t + z
    BY <1>3, ServedIs
  <2>2. /\ SubSeq(s, t + 1, t + z) \in Seq(Int) /\ Len(SubSeq(s, t + 1, t + z)) = z
        /\ \A i \in 1 .. z : SubSeq(s, t + 1, t + z)[i] = s[t + i]
    BY <2>1
  <2> QED BY <1>3, <2>1, <2>2
<1>5. d = [c EXCEPT !.tail = e, !.step = "send"]
  <2>1. (Frac(c) + Len(Part(c))) % MIN_RW_SIZE = t
    <3>1. Frac(c) + Len(Part(c)) = Span(c)
      BY Parts DEF Span
    <3> QED BY <1>3, <3>1
  <2>2. e = SubSeq(x.data, ((Frac(c) + Len(Part(c))) % MIN_RW_SIZE) + 1, MIN_RW_SIZE)
    BY <1>3, <1>4, <2>1
  <2>3. Answered(c, x.data) =
          [c EXCEPT !.tail = SubSeq(x.data, ((Frac(c) + Len(Part(c))) % MIN_RW_SIZE) + 1, MIN_RW_SIZE),
                    !.step = "send"]
    BY Zenon DEF Answered
  <2> QED BY <1>1, <2>2, <2>3
<1>6. /\ d.step = "send" /\ d.tail = e /\ d.head = c.head /\ d.req = c.req /\ d.kind = c.kind
      /\ d.addr = c.addr /\ d.rest = c.rest /\ d.got = c.got
  BY <1>5 DEF ClientCall
<1>7. d \in ClientCall
  BY <1>5 DEF ClientCall
<1>8. /\ Frac(d) = Frac(c) /\ Part(d) = Part(c) /\ PartLen(d) = PartLen(c) /\ EndOf(d) = EndOf(c)
  BY <1>6 DEF Frac, Part, PartLen, EndOf
<1>9. Span(d) = Span(c) /\ (NeedsTail(d) <=> NeedsTail(c)) /\ NumTail(d) = NumTail(c)
  BY <1>6, <1>8 DEF Span, NeedsTail, NumTail
<1>10. InOrder(d)
  <2>1. Begun(c)
    BY InOrderIsBegun
  <2>2. /\ d.kind = d.req.kind
        /\ d.req.addr <= d.addr /\ d.addr + Len(d.rest) = d.req.addr + Len(d.req.data)
        /\ d.req.addr < d.addr => d.addr <= MEM_SIZE
        /\ \A i \in 1 .. Len(d.rest) : d.rest[i] = d.req.data[d.addr - d.req.addr + i]
        /\ d.kind = "read" => Len(d.got) = d.addr - d.req.addr
    BY <1>6, <2>1 DEF Begun
  <2>3. Len(d.tail) = NumTail(d)
    BY <1>3, <1>4, <1>6, <1>9
  <2>4. Len(d.head) = Frac(d)
    BY <1>2, <1>6, <1>8
  <2>6. d.step # "done" /\ Len(d.rest) # 0 /\ d.step # "head" /\ d.kind # "read" /\ d.step # "tail"
    BY <1>2, <1>6
  <2> QED BY <2>2, <2>3, <2>4, <2>6 DEF InOrder
<1>11. ASSUME NEW m, NEW l, Kept(c, m, l), Served(x, m) PROVE Kept(d, m, l)
  <2>1. KeptBefore(c, m, l)
    BY <1>11, InOrderIsBegun
  <2>2. ASSUME NEW b \in Byte
        PROVE  /\ d.kind = "write" =>
                    /\ d.req.addr <= b /\ b < d.addr => m[b] = d.req.data[b - d.req.addr + 1]
                    /\ d.step \in {"tail", "send"} /\ WordOf(d.addr) <= b /\ b < d.addr =>
                         m[b] = d.head[b - WordOf(d.addr) + 1]
                    /\ d.step = "send" /\ EndOf(d) <= b /\ b < EndOf(d) + Len(d.tail) =>
                         m[b] = d.tail[b - EndOf(d) + 1]
               /\ d.kind = "read" /\ d.req.addr <= b /\ b < d.addr =>
                    l[b] \in {Unknown, d.got[b - d.req.addr + 1]}
    <3>1. ASSUME d.req.addr <= b, b < d.addr
          PROVE  /\ d.kind = "write" => m[b] = d.req.data[b - d.req.addr + 1]
                 /\ d.kind = "read" => l[b] \in {Unknown, d.got[b - d.req.addr + 1]}
      BY <1>6, <2>1, <3>1 DEF KeptBefore
    <3>2. ASSUME WordOf(d.addr) <= b, b < d.addr
          PROVE  m[b] = d.head[b - WordOf(d.addr) + 1]
      <4>1. WordOf(c.addr) <= b /\ b < c.addr /\ c.step \in {"tail", "send"}
        BY <1>6, <3>2
      <4>2. m[b] = c.head[b - WordOf(c.addr) + 1]
        BY <1>2, <1>11, <4>1 DEF Kept
      <4> QED BY <1>6, <4>2
    <3>3. ASSUME EndOf(d) <= b, b < EndOf(d) + Len(d.tail) PROVE m[b] = d.tail[b - EndOf(d) + 1]
      <4>2. PICK i \in Nat : b = end + i /\ i + 1 \in 1 .. z /\ b - end + 1 = i + 1
        <5>1. b \in Nat
          BY BytesAreNat
        <5>2. end <= b /\ b < end + z
          BY <1>3, <1>4, <1>6, <1>8, <3>3
        <5>3. b - end \in Nat
          BY <5>1, <5>2
        <5>4. PICK i \in Nat : i = b - end
          BY <5>3
        <5> QED BY <5>1, <5>2, <5>4
      <4>3. x.done = w /\ x.addr = first
        BY <1>3, ServedIs
      <4>4. t + i < w /\ t + i \in Nat /\ b = first + (t + i) /\ (t + i) + 1 = t + (i + 1)
        BY <1>12, <4>2
      <4>5. m[first + (t + i)] = x.data[(t + i) + 1]
        BY <1>11, <4>3, <4>4 DEF Served
      <4>6. e[i + 1] = x.data[t + (i + 1)]
        BY <1>4, <4>2
      <4>7. b - EndOf(d) + 1 = i + 1
        BY <1>3, <1>8, <4>2
      <4> QED BY <1>6, <4>4, <4>5, <4>6, <4>7
    <3> QED BY <3>1, <3>2, <3>3
  <2> QED BY <2>2 DEF Kept
<1> QED BY <1>1, <1>6, <1>7, <1>10, <1>11

(* A call that has gone on by a part. *)
Advanced(c, data) ==
  [c EXCEPT !.addr = @ + Len(Part(c)),
            !.rest = SubSeq(@, Len(Part(c)) + 1, Len(@)),
            !.got = IF c.kind = "read" THEN @ \o Wanted(c, data) ELSE @]

(* The bytes a reply has for a read. *)
LEMMA WantedIs ==
  ASSUME NEW c \in ClientCall, InOrder(c), c.step = "send", c.kind = "read", NEW x, ServesPacket(x, c)
  PROVE  /\ Wanted(c, x.data) \in Seq(Int) /\ Len(Wanted(c, x.data)) = PartLen(c)
         /\ \A i \in 1 .. PartLen(c) : Wanted(c, x.data)[i] = x.data[Frac(c) + i]
<1>1. PICK f \in Nat, n \in Nat : f = Frac(c) /\ n = PartLen(c) /\ Span(c) = f + n
  BY Parts DEF Span
<1>2. Len(c.rest) # 0 /\ x.data \in Seq(Int) /\ Len(x.data) = WordsFor(Span(c))
  BY ServedIs
<1>3. WordsFor(Span(c)) \in Nat /\ WordsFor(Span(c)) >= Span(c)
  BY <1>2, TailIs
<1>4. f + n <= Len(x.data)
  BY <1>1, <1>2, <1>3
<1>5. Wanted(c, x.data) = SubSeq(x.data, f + 1, f + n)
  BY <1>1, Parts DEF Wanted
<1>6. PICK s \in Seq(Int) : s = x.data /\ f + n <= Len(s)
  BY <1>2, <1>4
<1>7. /\ SubSeq(s, f + 1, f + n) \in Seq(Int) /\ Len(SubSeq(s, f + 1, f + n)) = n
      /\ \A i \in 1 .. n : SubSeq(s, f + 1, f + n)[i] = s[f + i]
  <2>1. PICK a \in Int, b \in Int : a = f + 1 /\ b = f + n
    OBVIOUS
  <2>2. \A i \in a .. b : s[i] \in Int
    <3>1. a .. b \subseteq 1 .. Len(s)
      BY <1>6, <2>1
    <3> QED BY <3>1
  <2>3. /\ SubSeq(s, a, b) \in Seq(Int)
        /\ Len(SubSeq(s, a, b)) = IF a <= b THEN b - a + 1 ELSE 0
        /\ \A i \in 1 .. b - a + 1 : SubSeq(s, a, b)[i] = s[a + i - 1]
    BY <2>2, SubSeqProperties
  <2>4. (IF a <= b THEN b - a + 1 ELSE 0) = n /\ b - a + 1 = n
    BY <2>1
  <2>5. \A i \in 1 .. n : a + i - 1 = f + i
    BY <2>1
  <2>6. \A i \in 1 .. n : SubSeq(s, a, b)[i] = s[f + i]
    BY <2>3, <2>4, <2>5
  <2> QED BY <2>1, <2>3, <2>4, <2>6
<1> QED BY <1>1, <1>5, <1>6, <1>7

(* The rest of a sequence. *)
LEMMA RestIs ==
  ASSUME NEW s \in Seq(Int), NEW n \in Nat, n <= Len(s)
  PROVE  /\ SubSeq(s, n + 1, Len(s)) \in Seq(Int) /\ Len(SubSeq(s, n + 1, Len(s))) + n = Len(s)
         /\ \A i \in 1 .. Len(s) - n : SubSeq(s, n + 1, Len(s))[i] = s[n + i]
OBVIOUS

(* A sequence after another. *)
Appended(s, e) == s \o e

(* Where their elements are. *)
LEMMA AppendedIs ==
  ASSUME NEW s \in Seq(Int), NEW e \in Seq(Int)
  PROVE  /\ Appended(s, e) \in Seq(Int) /\ Len(Appended(s, e)) = Len(s) + Len(e)
         /\ \A i \in 1 .. Len(s) : Appended(s, e)[i] = s[i]
         /\ \A i \in 1 .. Len(e) : Appended(s, e)[Len(s) + i] = e[i]
BY DEF Appended

(* What a call has read, with what a reply adds. *)
LEMMA GotIs ==
  ASSUME NEW c \in ClientCall, InOrder(c), c.step = "send", c.kind = "read", NEW x, ServesPacket(x, c)
  PROVE  /\ Appended(c.got, Wanted(c, x.data)) \in Seq(Int)
         /\ Len(Appended(c.got, Wanted(c, x.data))) = c.addr - c.req.addr + PartLen(c)
         /\ \A i \in 1 .. c.addr - c.req.addr : Appended(c.got, Wanted(c, x.data))[i] = c.got[i]
         /\ \A i \in 1 .. PartLen(c) :
              Appended(c.got, Wanted(c, x.data))[c.addr - c.req.addr + i] = x.data[Frac(c) + i]
<1>1. c.got \in Seq(Int) /\ Len(c.got) = c.addr - c.req.addr
  BY DEF ClientCall, InOrder
<1>2. /\ Wanted(c, x.data) \in Seq(Int) /\ Len(Wanted(c, x.data)) = PartLen(c)
      /\ \A i \in 1 .. PartLen(c) : Wanted(c, x.data)[i] = x.data[Frac(c) + i]
  BY WantedIs
<1>3. \A s, e \in Seq(Int) :
        /\ Appended(s, e) \in Seq(Int) /\ Len(Appended(s, e)) = Len(s) + Len(e)
        /\ \A i \in 1 .. Len(s) : Appended(s, e)[i] = s[i]
        /\ \A i \in 1 .. Len(e) : Appended(s, e)[Len(s) + i] = e[i]
  BY AppendedIs
<1>4. /\ Appended(c.got, Wanted(c, x.data)) \in Seq(Int)
      /\ Len(Appended(c.got, Wanted(c, x.data))) = Len(c.got) + Len(Wanted(c, x.data))
      /\ \A i \in 1 .. Len(c.got) : Appended(c.got, Wanted(c, x.data))[i] = c.got[i]
      /\ \A i \in 1 .. Len(Wanted(c, x.data)) :
           Appended(c.got, Wanted(c, x.data))[Len(c.got) + i] = Wanted(c, x.data)[i]
  BY <1>1, <1>2, <1>3
<1> QED BY <1>1, <1>2, <1>4

(* A call that has gone on by a part is in order. *)
LEMMA AdvancedIs ==
  ASSUME NEW c \in ClientCall, InOrder(c), c.step = "send", NEW x, ServesPacket(x, c)
  PROVE  /\ Advanced(c, x.data) \in ClientCall /\ Begun(Advanced(c, x.data))
         /\ Advanced(c, x.data).req = c.req /\ Advanced(c, x.data).kind = c.kind
         /\ Advanced(c, x.data).addr = EndOf(c)
         /\ c.kind = "read" => Advanced(c, x.data).got = Appended(c.got, Wanted(c, x.data))
<1>1. PICK d : d = Advanced(c, x.data)
  OBVIOUS
<1>2. PICK a \in Nat, n \in Nat, from \in Nat, size \in Nat, left \in Nat :
        /\ a = c.addr /\ n = PartLen(c) /\ from = c.req.addr /\ size = Len(c.req.data)
        /\ left = Len(c.rest) /\ n <= left /\ from <= a /\ a + left = from + size /\ EndOf(c) = a + n
  <2>1. c.req \in Requests /\ c.addr \in Nat /\ Len(c.rest) \in Nat
    BY DEF ClientCall
  <2>2. c.req.addr \in Nat /\ Len(c.req.data) \in Nat
    BY <2>1 DEF Requests
  <2>3. PartLen(c) \in Nat /\ PartLen(c) <= Len(c.rest) /\ EndOf(c) = c.addr + PartLen(c)
    BY Parts DEF EndOf
  <2>4. c.req.addr <= c.addr /\ c.addr + Len(c.rest) = c.req.addr + Len(c.req.data)
    BY DEF InOrder
  <2> QED BY <2>1, <2>2, <2>3, <2>4
<1>3. a + n \in Nat /\ from <= a + n /\ a + n - from = a - from + n
      /\ \A k \in Nat : k + n = left => (a + n) + k = from + size
  <2>1. ASSUME NEW k \in Nat, k + n = left PROVE (a + n) + k = from + size
    <3>1. a + left = from + size
      BY <1>2
    <3> QED BY <2>1, <3>1
  <2>2. from <= a
    BY <1>2
  <2> QED BY <2>1, <2>2
<1>4. \A i \in Nat : n + i \in Nat /\ a - from + (n + i) = (a + n) - from + i
  OBVIOUS
<1>5. a + n <= MEM_SIZE
  <2>1. x.addr = WordOf(a) /\ x.addr \in Nat /\ Len(x.data) \in Nat /\ x.addr + Len(x.data) < MEM_SIZE
        /\ Len(c.rest) # 0 /\ c.kind \in {"read", "write"}
    <3>1. x.addr = WordOf(c.addr)
      <4>1. c.kind \in {"read", "write"}
        BY DEF ClientCall
      <4> QED BY <4>1, ServedIs
    <3>2. x.addr \in Nat /\ x.data \in Seq(Int) /\ x.addr + Len(x.data) < MEM_SIZE /\ Len(c.rest) # 0
      BY ServedIs
    <3>3. Len(x.data) \in Nat
      BY <3>2
    <3>4. x.addr = WordOf(a)
      BY <1>2, <3>1
    <3> QED BY <3>2, <3>3, <3>4 DEF ClientCall
  <2>2. Len(x.data) >= Span(c)
    <3>1. CASE c.kind = "read"
      BY <2>1, <3>1, ServedIs, TailIs
    <3>2. CASE c.kind = "write"
      <4>1. Len(x.data) = Span(c) + NumTail(c) /\ Span(c) \in Nat
        BY <3>2, ServedIs, Parts
      <4>2. NumTail(c) \in Nat
        <5>1. NumTail(c) = Len(c.tail) /\ c.tail \in Seq(Int)
          BY <3>2 DEF InOrder, ClientCall
        <5> QED BY <5>1
      <4> QED BY <4>1, <4>2
    <3> QED BY <2>1, <3>1, <3>2
  <2>3. a + n = WordOf(a) + Span(c) /\ Span(c) \in Nat /\ WordOf(a) \in Nat
    BY <1>2, Parts, WordFacts
  <2>4. MEM_SIZE \in Nat
    BY RamConstants
  <2> QED BY <2>1, <2>2, <2>3, <2>4
<1>6. PICK r \in Seq(Int) : /\ r = SubSeq(c.rest, n + 1, Len(c.rest)) /\ Len(r) + n = left
                            /\ \A i \in 1 .. left - n : r[i] = c.rest[n + i]
  <2>1. c.rest \in Seq(Int) /\ n <= Len(c.rest) /\ Len(c.rest) = left
    BY <1>2 DEF ClientCall
  <2> QED BY <2>1, RestIs
<1>7. PICK g \in Seq(Int) : /\ g = IF c.kind = "read" THEN Appended(c.got, Wanted(c, x.data)) ELSE c.got
                            /\ c.kind = "read" => Len(g) = a - from + n
  <2>1. CASE c.kind = "read"
    BY <1>2, <2>1, GotIs
  <2>2. CASE c.kind # "read"
    BY <2>2 DEF ClientCall
  <2> QED BY <2>1, <2>2
<1>8. d = [c EXCEPT !.addr = a + n, !.rest = r, !.got = g]
  <2>1. Len(Part(c)) = n
    BY <1>2, Parts
  <2>2. d = [c EXCEPT !.addr = c.addr + Len(Part(c)),
                      !.rest = SubSeq(c.rest, Len(Part(c)) + 1, Len(c.rest)),
                      !.got = IF c.kind = "read" THEN c.got \o Wanted(c, x.data) ELSE c.got]
    BY <1>1 DEF Advanced, ClientCall
  <2>3. g = IF c.kind = "read" THEN c.got \o Wanted(c, x.data) ELSE c.got
    BY <1>7 DEF Appended
  <2> QED BY <1>2, <1>6, <2>1, <2>2, <2>3
<1>9. d \in ClientCall
  BY <1>3, <1>8 DEF ClientCall
<1>10. d.addr = a + n /\ d.rest = r /\ d.got = g /\ d.req = c.req /\ d.kind = c.kind
  BY <1>8 DEF ClientCall
<1>11. Begun(d)
  <2>1. d.kind = d.req.kind
    BY <1>10 DEF InOrder
  <2>2. d.req.addr <= d.addr /\ d.addr + Len(d.rest) = d.req.addr + Len(d.req.data)
    <3>1. Len(r) \in Nat
      BY <1>6
    <3>2. (a + n) + Len(r) = from + size
      BY <1>3, <1>6, <3>1
    <3> QED BY <1>2, <1>3, <1>10, <3>2
  <2>3. d.addr <= MEM_SIZE
    BY <1>5, <1>10
  <2>4. ASSUME NEW i \in 1 .. Len(d.rest) PROVE d.rest[i] = d.req.data[d.addr - d.req.addr + i]
    <3>1. i \in 1 .. left - n /\ n + i \in 1 .. left /\ i \in Nat
      <4>1. PICK k \in Nat : k = Len(r) /\ k + n = left
        <5>1. Len(r) \in Nat
          BY <1>6
        <5> QED BY <1>6, <5>1, Zenon
      <4>2. i \in 1 .. k
        BY <1>10, <2>4, <4>1
      <4> HIDE <1>6, <1>7, <1>8
      <4>3. k = left - n /\ n + i \in 1 .. left
        BY <4>1, <4>2
      <4> QED BY <4>2, <4>3
    <3>2. r[i] = c.rest[n + i]
      BY <1>6, <3>1
    <3>3. c.rest[n + i] = c.req.data[a - from + (n + i)]
      BY <1>2, <3>1 DEF InOrder
    <3>4. d.addr - d.req.addr + i = a - from + (n + i)
      <4>1. d.addr = a + n /\ d.req.addr = from
        BY <1>2, <1>10
      <4> QED BY <1>4, <3>1, <4>1
    <3>5. d.rest = r /\ d.req = c.req
      BY <1>10
    <3> QED BY <3>2, <3>3, <3>4, <3>5
  <2>5. d.kind = "read" => Len(d.got) = d.addr - d.req.addr
    <3>1. d.addr - d.req.addr = a - from + n
      <4>1. d.addr = a + n /\ d.req.addr = from
        BY <1>2, <1>10
      <4> QED BY <1>3, <4>1
    <3>2. d.got = g /\ d.kind = c.kind
      BY <1>10
    <3> QED BY <1>7, <3>1, <3>2
  <2> QED BY <2>1, <2>2, <2>3, <2>4, <2>5 DEF Begun
<1> QED BY <1>1, <1>2, <1>7, <1>9, <1>10, <1>11

(* What is known of the bytes of a call that has gone on by a part. *)
LEMMA SendKept ==
  ASSUME NEW c \in ClientCall, InOrder(c), c.step = "send", NEW x, ServesPacket(x, c), x.done = Len(x.data),
         NEW m, NEW l, Kept(c, m, l), Served(x, m),
         c.kind = "read" => \A b \in Byte : Near(c.req, b) => l[b] \in {Unknown, m[b]}
  PROVE  KeptBefore(Advanced(c, x.data), m, l)
<1>1. PICK d : d = Advanced(c, x.data)
  OBVIOUS
<1>2. PICK a \in Nat, n \in Nat, from \in Nat, f \in Nat, base \in Nat :
        /\ a = c.addr /\ n = PartLen(c) /\ from = c.req.addr /\ f = Frac(c) /\ base = WordOf(a)
        /\ from <= a /\ EndOf(c) = a + n /\ a = base + f
  <2>1. c.req \in Requests /\ c.addr \in Nat
    BY DEF ClientCall
  <2>2. c.req.addr \in Nat
    BY <2>1 DEF Requests
  <2>3. PartLen(c) \in Nat /\ EndOf(c) = c.addr + PartLen(c) /\ Frac(c) \in Nat
        /\ c.addr = WordOf(c.addr) + Frac(c)
    BY Parts DEF EndOf
  <2>4. c.req.addr <= c.addr
    BY DEF InOrder
  <2>5. WordOf(c.addr) \in Nat
    BY <2>1, WordFacts
  <2> QED BY <2>1, <2>2, <2>3, <2>4, <2>5
<1>3. d.req = c.req /\ d.kind = c.kind /\ d.addr = a + n
  BY <1>1, <1>2, AdvancedIs
<1>4. PICK size \in Nat : size = Len(x.data) /\ x.addr = base /\ f + n <= size /\ base + size < MEM_SIZE
  <2>1. Len(x.data) \in Nat /\ x.addr + Len(x.data) < MEM_SIZE /\ Len(c.rest) # 0
    <3>1. x.data \in Seq(Int)
      BY ServedIs
    <3> QED BY <3>1, ServedIs
  <2>2. c.kind \in {"read", "write"}
    BY DEF ClientCall
  <2>3. x.addr = base
    BY <1>2, <2>2, ServedIs
  <2>4. Span(c) = f + n
    BY <1>2 DEF Span
  <2>5. CASE c.kind = "read"
    <3>1. Len(x.data) = WordsFor(Span(c)) /\ WordsFor(Span(c)) >= Span(c)
      BY <2>1, <2>5, ServedIs, TailIs
    <3> QED BY <2>1, <2>3, <2>4, <3>1
  <2>6. CASE c.kind = "write"
    <3>1. Len(x.data) = Span(c) + NumTail(c)
      BY <2>6, ServedIs
    <3>2. NumTail(c) \in Nat
      <4>1. NumTail(c) = Len(c.tail) /\ c.tail \in Seq(Int)
        BY <2>6 DEF InOrder, ClientCall
      <4> QED BY <4>1
    <3>3. f + n <= Len(x.data)
      BY <2>4, <3>1, <3>2
    <3> QED BY <2>1, <2>3, <3>3
  <2> QED BY <2>2, <2>5, <2>6
<1>7. a = base + f /\ from <= a /\ f + n <= size
  BY <1>2, <1>4
<1>5. \A i \in Nat : i < size => m[base + i] = x.data[i + 1]
  BY <1>4 DEF Served
<1>6. ASSUME NEW b \in Byte, from <= b, b < a + n
      PROVE  /\ c.kind = "write" => m[b] = c.req.data[b - from + 1]
             /\ c.kind = "read" => l[b] \in {Unknown, d.got[b - from + 1]}
  <2>1. b \in Nat
    BY BytesAreNat
  <2>2. CASE b < a
    <3>1. c.req.addr <= b /\ b < c.addr
      BY <1>2, <1>6, <2>2
    <3>2. ASSUME c.kind = "write" PROVE m[b] = c.req.data[b - from + 1]
      <4>1. m[b] = c.req.data[b - c.req.addr + 1]
        BY <3>1, <3>2 DEF Kept
      <4> QED BY <1>2, <4>1
    <3>3. ASSUME c.kind = "read" PROVE l[b] \in {Unknown, d.got[b - from + 1]}
      <4>1. l[b] \in {Unknown, c.got[b - c.req.addr + 1]}
        BY <3>1, <3>3 DEF Kept
      <4>2. PICK i \in 1 .. a - from : i = b - from + 1
        BY <1>6, <1>7, <2>1, <2>2
      <4>3. d.got = Appended(c.got, Wanted(c, x.data))
        BY <1>1, <3>3, AdvancedIs
      <4>4. i \in 1 .. c.addr - c.req.addr
        BY <1>2, <4>2
      <4>5. d.got[i] = c.got[i]
        BY <3>3, <4>3, <4>4, GotIs
      <4> QED BY <1>2, <4>1, <4>2, <4>5
    <3> QED BY <3>2, <3>3
  <2>3. CASE a <= b
    <3>1. PICK i \in 1 .. n : /\ i = b - a + 1 /\ b - from + 1 = a - from + i
                              /\ (f + i) - 1 \in Nat /\ (f + i) - 1 < size /\ base + ((f + i) - 1) = b
                              /\ ((f + i) - 1) + 1 = f + i /\ b - base + 1 = f + i
      <4>1. PICK i \in 1 .. n : i = b - a + 1
        BY <1>6, <2>1, <2>3
      <4>2. b - from + 1 = a - from + i
        BY <2>1, <4>1
      <4>3. (f + i) - 1 \in Nat /\ (f + i) - 1 < f + n
        OBVIOUS
      <4>4. (f + i) - 1 < size
        BY <1>7, <4>3
      <4>5. base + ((f + i) - 1) = b
        BY <1>7, <2>1, <4>1
      <4>6. ((f + i) - 1) + 1 = f + i /\ b - base + 1 = f + i
        BY <1>7, <2>1, <4>1
      <4> QED BY <4>1, <4>2, <4>3, <4>4, <4>5, <4>6
    <3>2. m[b] = x.data[f + i]
      BY <1>5, <3>1
    <3>3. ASSUME c.kind = "write" PROVE m[b] = c.req.data[b - from + 1]
      <4>1. b \in PacketBytes(x)
        <5>1. base <= b /\ b < base + size
          BY <1>6, <1>7, <2>1, <2>3
        <5> QED BY <1>4, <5>1 DEF PacketBytes
      <4>2. x.kind = "write" /\ c.addr <= b /\ b < EndOf(c)
        BY <1>2, <1>6, <2>3, <3>3, ServedIs
      <4>3. x.data[b - x.addr + 1] = c.req.data[b - c.req.addr + 1]
        BY <4>1, <4>2, PacketHas
      <4> QED BY <1>2, <1>4, <3>1, <3>2, <4>3
    <3>4. ASSUME c.kind = "read" PROVE l[b] \in {Unknown, d.got[b - from + 1]}
      <4>1. d.got = Appended(c.got, Wanted(c, x.data))
        BY <1>1, <3>4, AdvancedIs
      <4>2. d.got[c.addr - c.req.addr + i] = x.data[Frac(c) + i]
        <5>1. i \in 1 .. PartLen(c)
          BY <1>2
        <5> QED BY <3>4, <4>1, <5>1, GotIs
      <4>3. d.got[b - from + 1] = m[b]
        BY <1>2, <3>1, <3>2, <4>2
      <4>4. Near(c.req, b)
        <5>1. b \in Nat /\ c.req \in Requests
          BY BytesAreNat DEF ClientCall
        <5>2. c.req.addr <= b
          BY <1>2, <1>6
        <5>3. b < c.req.addr + Len(c.req.data)
          <6>1. PartLen(c) <= Len(c.rest) /\ c.addr + Len(c.rest) = c.req.addr + Len(c.req.data)
            BY Parts DEF InOrder
          <6>2. PICK left \in Nat : left = Len(c.rest)
            <7>1. Len(c.rest) \in Nat
              BY DEF ClientCall
            <7> QED BY <7>1
          <6>3. n <= left /\ a + left = c.req.addr + Len(c.req.data)
            BY <1>2, <6>1, <6>2
          <6>4. b < a + left
            <7>1. n <= left /\ b < a + n
              BY <1>6, <6>3
            <7> QED BY <2>1, <7>1
          <6> QED BY <6>3, <6>4
        <5> QED BY <5>1, <5>2, <5>3, CoveredIsNear
      <4> QED BY <3>4, <4>3, <4>4
    <3> QED BY <3>3, <3>4
  <2> QED BY <2>1, <2>2, <2>3
<1> QED BY <1>1, <1>2, <1>3, <1>6 DEF KeptBefore

(* A reply takes a call to its next step and loses nothing that is known. *)
LEMMA AnsweredIs ==
  ASSUME NEW c \in ClientCall, InOrder(c), NEW x, ServesPacket(x, c), x.done = Len(x.data)
  PROVE  /\ Answered(c, x.data) \in ClientCall /\ InOrder(Answered(c, x.data))
         /\ Answered(c, x.data).req = c.req /\ Answered(c, x.data).kind = c.kind
         /\ \A m, l : /\ Kept(c, m, l) /\ Served(x, m)
                      /\ c.kind = "read" => \A b \in Byte : Near(c.req, b) => l[b] \in {Unknown, m[b]}
                      => Kept(Answered(c, x.data), m, l)
<1>1. c.step \in {"head", "tail", "send"}
  BY DEF ServesPacket
<1>2. CASE c.step = "head"
  BY <1>2, HeadAnswered
<1>3. CASE c.step = "tail"
  BY <1>3, TailAnswered
<1>4. CASE c.step = "send"
  <2>1. PICK n : n = Advanced(c, x.data)
    OBVIOUS
  <2>2. n \in ClientCall /\ Begun(n) /\ n.req = c.req /\ n.kind = c.kind
    BY <1>4, <2>1, AdvancedIs
  <2>3. Answered(c, x.data) = AtFirstStep(n)
    BY <1>4, <2>1 DEF Answered, Advanced
  <2>4. /\ AtFirstStep(n) \in ClientCall /\ InOrder(AtFirstStep(n))
        /\ AtFirstStep(n).req = n.req /\ AtFirstStep(n).kind = n.kind
        /\ \A m, l : KeptBefore(n, m, l) => Kept(AtFirstStep(n), m, l)
    BY <2>2, FirstStepIs
  <2>5. ASSUME NEW m, NEW l, Kept(c, m, l), Served(x, m),
               c.kind = "read" => \A b \in Byte : Near(c.req, b) => l[b] \in {Unknown, m[b]}
        PROVE  KeptBefore(n, m, l)
    BY <1>4, <2>1, <2>5, SendKept
  <2> QED BY <2>2, <2>3, <2>4, <2>5
<1> QED BY <1>1, <1>2, <1>3, <1>4

(* A page that is written, and one that is read. *)
LEMMA PageWritten ==
  ASSUME NEW x, x.addr \in Nat, x.done \in Nat, x.data \in Seq(Int), x.done <= Len(x.data),
         mem \in [Byte -> Int]
  PROVE  /\ MemWithPage(x) \in [Byte -> Int]
         /\ \A b \in Byte :
              /\ x.addr + x.done <= b /\ b < x.addr + EndOfPage(x) =>
                   MemWithPage(x)[b] = x.data[b - x.addr + 1]
              /\ ~(x.addr + x.done <= b /\ b < x.addr + EndOfPage(x)) => MemWithPage(x)[b] = mem[b]
<1>1. \A b \in Byte : b \in InPage(x) <=> x.addr + x.done <= b /\ b < x.addr + EndOfPage(x)
  BY PageIs, BytesAreNat
<1>2. ASSUME NEW b \in Byte, b \in InPage(x) PROVE x.data[b - x.addr + 1] \in Int
  <2>1. PICK a \in Nat, d \in Nat, e \in Nat, n \in Nat :
          /\ a = x.addr /\ d = x.done /\ e = EndOfPage(x) /\ n = Len(x.data) /\ e <= n
          /\ a + d <= b /\ b < a + e
    BY <1>1, <1>2, PageIs
  <2>2. b \in Nat
    BY BytesAreNat
  <2>3. b - a + 1 \in 1 .. n
    <3>1. a + d <= b /\ b < a + e /\ e <= n
      BY <2>1
    <3> QED BY <2>2, <3>1
  <2>4. PICK s \in Seq(Int) : s = x.data /\ Len(s) = n
    BY <2>1
  <2>5. s[b - a + 1] \in Int
    BY <2>3, <2>4, ElementOfSeq
  <2> QED BY <2>1, <2>4, <2>5
<1>3. MemWithPage(x) \in [Byte -> Int]
  BY <1>2 DEF MemWithPage
<1>4. \A b \in Byte : MemWithPage(x)[b] = IF b \in InPage(x) THEN x.data[b - x.addr + 1] ELSE mem[b]
  BY DEF MemWithPage
<1> QED BY <1>1, <1>3, <1>4

(* What is known of a packet when another page is written. *)
LEMMA WriteServed ==
  ASSUME NEW c \in ClientCall, InOrder(c), NEW x, ServesPacket(x, c), mem \in [Byte -> Int],
         NEW y, y = [x EXCEPT !.done = EndOfPage(x)]
  PROVE  /\ ServesPacket(y, c) /\ y.by = x.by /\ y.kind = x.kind /\ y.data = x.data
         /\ Served(x, mem) => Served(y, MemWithPage(x))
<1>1. /\ x \in PacketType /\ x.addr \in Nat /\ x.data \in Seq(Int) /\ x.done \in Nat
      /\ x.done <= Len(x.data) /\ x.addr + Len(x.data) < MEM_SIZE
  BY ServedIs DEF ServesPacket
<1>2. EndOfPage(x) \in Nat /\ x.done <= EndOfPage(x) /\ EndOfPage(x) <= Len(x.data)
  BY <1>1, PageIs
<1>3. /\ y \in PacketType /\ y.by = x.by /\ y.kind = x.kind /\ y.addr = x.addr /\ y.data = x.data
      /\ y.done = EndOfPage(x)
  BY <1>1, <1>2 DEF PacketType
<1>4. ServesPacket(y, c)
  BY <1>2, <1>3 DEF ServesPacket, InRange
<1>5. ASSUME Served(x, mem), NEW i \in Nat, i < y.done PROVE MemWithPage(x)[y.addr + i] = y.data[i + 1]
  <2>1. PICK a \in Nat, d \in Nat, e \in Nat, n \in Nat :
          /\ a = x.addr /\ d = x.done /\ e = EndOfPage(x) /\ n = Len(x.data) /\ e <= n
          /\ a + n < MEM_SIZE
    <3>1. Len(x.data) \in Nat
      BY <1>1
    <3> QED BY <1>1, <1>2, <3>1
  <2>2. i < e /\ e <= n /\ a + n < MEM_SIZE
    BY <1>3, <1>5, <2>1
  <2>3. a + i \in Nat /\ a + i < MEM_SIZE /\ a + i - a + 1 = i + 1 /\ a + i < a + e
        /\ (d <= i => a + d <= a + i) /\ (i < d => ~(a + d <= a + i))
    <3>1. MEM_SIZE \in Nat
      BY RamConstants
    <3> HIDE <1>1
    <3>2. a + i < a + n
      BY <2>2
    <3> QED BY <2>2, <3>1, <3>2
  <2>4. a + i \in Byte
    BY <2>3, BytesAreNat
  <2>5. CASE d <= i
    <3>1. x.addr + x.done <= a + i /\ a + i < x.addr + EndOfPage(x)
      BY <2>1, <2>3, <2>5
    <3>2. \A b \in Byte : x.addr + x.done <= b /\ b < x.addr + EndOfPage(x) =>
            MemWithPage(x)[b] = x.data[b - x.addr + 1]
      BY <1>1, PageWritten
    <3>3. PICK b \in Byte : b = a + i
      BY <2>4
    <3>4. MemWithPage(x)[b] = x.data[b - x.addr + 1]
      BY <3>1, <3>2, <3>3
    <3>5. b - x.addr + 1 = i + 1
      BY <2>1, <2>3, <3>3
    <3>6. MemWithPage(x)[b] = x.data[i + 1]
      BY <3>4, <3>5
    <3> QED BY <1>3, <2>1, <3>3, <3>6
  <2>6. CASE i < d
    <3>1. MemWithPage(x)[a + i] = mem[a + i]
      BY <1>1, <2>1, <2>3, <2>4, <2>6, PageWritten
    <3>2. mem[a + i] = x.data[i + 1]
      BY <1>5, <2>1, <2>6 DEF Served
    <3> QED BY <1>3, <2>1, <3>1, <3>2
  <2>7. d <= i \/ i < d
    OBVIOUS
  <2> QED BY <2>5, <2>6, <2>7
<1> QED BY <1>3, <1>4, <1>5 DEF Served

(* And when another page is read. *)
LEMMA ReadServed ==
  ASSUME NEW c \in ClientCall, InOrder(c), NEW x, ServesPacket(x, c), x.kind = "read",
         mem \in [Byte -> Int], NEW y, y = ReadWithPage(x)
  PROVE  /\ ServesPacket(y, c) /\ y.by = x.by /\ y.kind = x.kind
         /\ Served(x, mem) => Served(y, mem)
<1>1. /\ x \in PacketType /\ x.addr \in Nat /\ x.data \in Seq(Int) /\ x.done \in Nat
      /\ x.done <= Len(x.data) /\ x.addr + Len(x.data) < MEM_SIZE
  BY ServedIs DEF ServesPacket
<1>2. EndOfPage(x) \in Nat /\ x.done <= EndOfPage(x) /\ EndOfPage(x) <= Len(x.data)
  BY <1>1, PageIs
<1>3. PICK a \in Nat, d \in Nat, e \in Nat, n \in Nat :
        /\ a = x.addr /\ d = x.done /\ e = EndOfPage(x) /\ n = Len(x.data) /\ e <= n
        /\ a + n < MEM_SIZE
  BY <1>1, <1>2
<1>4. \A i \in Nat : i < n => a + i \in Byte
  <2>1. MEM_SIZE \in Nat /\ a + n < MEM_SIZE
    BY <1>3, RamConstants
  <2>2. \A i \in Nat : i < n => a + i \in Nat /\ a + i < MEM_SIZE
    BY <2>1
  <2> QED BY <2>2, BytesAreNat
<1>5. \A i \in Nat : i < n => (a + i \in InPage(x) <=> d <= i /\ i < e)
  <2>1. ASSUME NEW i \in Nat, i < n PROVE a + i \in InPage(x) <=> d <= i /\ i < e
    <3>1. a + i \in Nat
      OBVIOUS
    <3>2. a + i \in InPage(x) <=> a + d <= a + i /\ a + i < a + e
      BY <1>1, <1>3, <3>1, PageIs
    <3>3. (a + d <= a + i <=> d <= i) /\ (a + i < a + e <=> i < e)
      OBVIOUS
    <3> QED BY <3>2, <3>3
  <2> QED BY <2>1
<1>6. \A i \in 1 .. n : i - 1 \in Nat /\ i - 1 < n /\ a + (i - 1) = a + i - 1 /\ (i - 1) + 1 = i
  OBVIOUS
<1>7. \A i \in 1 .. n : x.data[i] \in Int
  BY <1>1, <1>3, ElementOfSeq
<1>8. PICK s : s = [i \in 1 .. n |-> IF a + i - 1 \in InPage(x) THEN mem[a + i - 1] ELSE x.data[i]]
  OBVIOUS
<1>9. s \in [1 .. n -> Int]
  <2>1. \A i \in 1 .. n : mem[a + i - 1] \in Int
    BY <1>4, <1>6
  <2> QED BY <1>7, <1>8, <2>1
<1>10. s \in Seq(Int) /\ Len(s) = n
  BY <1>9
<1>11. y = [x EXCEPT !.data = s, !.done = e]
  <2>1. DOMAIN x.data = 1 .. n
    BY <1>1, <1>3
  <2> QED BY <1>1, <1>3, <1>8, <2>1 DEF ReadWithPage, PacketType
<1>12. /\ y \in PacketType /\ y.by = x.by /\ y.kind = x.kind /\ y.addr = x.addr /\ y.data = s
       /\ y.done = e
  BY <1>1, <1>10, <1>11 DEF PacketType
<1>13. ServesPacket(y, c)
  BY <1>3, <1>10, <1>12 DEF ServesPacket, InRange
<1>14. ASSUME Served(x, mem), NEW i \in Nat, i < y.done PROVE mem[y.addr + i] = y.data[i + 1]
  <2>1. i < e /\ i < n
    BY <1>3, <1>12, <1>14
  <2>2. i + 1 \in 1 .. n /\ a + (i + 1) - 1 = a + i
    BY <2>1
  <2>3. s[i + 1] = IF a + i \in InPage(x) THEN mem[a + i] ELSE x.data[i + 1]
    BY <1>8, <2>2
  <2>4. CASE d <= i
    BY <1>3, <1>5, <1>12, <2>1, <2>3, <2>4
  <2>5. CASE i < d
    <3>1. mem[a + i] = x.data[i + 1]
      BY <1>3, <1>14, <2>5 DEF Served
    <3>2. ~(a + i \in InPage(x))
      BY <1>5, <2>1, <2>5
    <3> QED BY <1>3, <1>12, <2>3, <3>1, <3>2
  <2>6. d <= i \/ i < d
    OBVIOUS
  <2> QED BY <2>4, <2>5, <2>6
<1> QED BY <1>12, <1>13, <1>14 DEF Served

-----------------------------------------------------------------------------
(* The invariant of the memory. *)

(* The invariant. *)
CallOK(c) == c \in ClientCall /\ InOrder(c)
WorkOK(c) == c \in WorkerCall /\ Stored(c)

(* Types, and the calls are in order. *)
RamTypeOK ==
  /\ mem \in [Byte -> Int] /\ last \in [Byte -> Int]
  /\ contended \in BOOLEAN
  /\ call = [p \in Procs |-> call[p]]
  /\ \A p \in RamClients : call[p] = Idle \/ CallOK(call[p])
  /\ \A w \in RamWorkers : call[w] = Idle \/ WorkOK(call[w])
  /\ serving = NoPacket \/ (serving.by \in RamClients /\ ServesPacket(serving, call[serving.by]))

(* A call that is to write a byte, and what was last written. *)
Writes(p, b) == call[p] # Idle /\ call[p].kind = "write" /\ Covers(call[p].req, b)

(* What was last written to a byte is there, unless it is not known, or a  *)
(* call is writing to it.                                                  *)
LastIs(b) == last[b] = Unknown \/ (\E p \in Procs : Writes(p, b)) \/ mem[b] = last[b]

(* No two calls are about the same bytes, if one of them writes. *)
ClientsApart == \A p, q \in Procs : p # q /\ call[p] # Idle /\ call[q] # Idle => ~Clash(call[p].req, call[q].req)

(* As long as no two calls have clashed: what is known of every call, and  *)
(* of every byte, is so.                                                   *)
RamKept ==
  ~contended =>
    /\ ClientsApart
    /\ \A p \in RamClients : call[p] # Idle => Kept(call[p], mem, last)
    /\ \A w \in RamWorkers : call[w] # Idle => StoredIn(call[w], mem)
    /\ serving # NoPacket => Served(serving, mem)
    /\ \A b \in Byte : LastIs(b)

RamInv == RamTypeOK /\ RamKept

(* A call is not idle. *)
LEMMA CallSteps ==
  /\ \A c \in ClientCall : c # Idle
  /\ \A c \in WorkerCall : c # Idle
<1>1. ASSUME NEW c \in ClientCall PROVE c # Idle
  <2>1. c.step \in {"head", "tail", "send", "done"}
    BY DEF ClientCall
  <2>2. Idle.step = "idle"
    BY DEF Idle
  <2> QED BY <2>1, <2>2
<1>2. ASSUME NEW c \in WorkerCall PROVE c # Idle
  <2>1. c.step \in {"pages", "done"}
    BY DEF WorkerCall
  <2>2. Idle.step = "idle"
    BY DEF Idle
  <2> QED BY <2>1, <2>2
<1> QED BY <1>1, <1>2

(* A transfer that writes is of the kind that its call asked for. *)
LEMMA KindIs ==
  ASSUME RamTypeOK, NEW p \in Procs, call[p] # Idle
  PROVE  call[p].kind = call[p].req.kind /\ call[p].req \in Requests /\ call[p].kind \in {"read", "write"}
<1>1. CASE p \in RamClients
  BY <1>1 DEF RamTypeOK, CallOK, InOrder, ClientCall
<1>2. CASE p \in RamWorkers
  BY <1>2 DEF RamTypeOK, WorkOK, Stored, WorkerCall
<1> QED BY <1>1, <1>2 DEF Procs

(* Two calls that do not clash have no byte beside them in common, if one writes. *)
LEMMA NotNear ==
  ASSUME RamTypeOK, ClientsApart, NEW p \in Procs, NEW q \in Procs, p # q, call[p] # Idle, call[q] # Idle,
         call[p].kind = "write", NEW b, Near(call[p].req, b)
  PROVE  ~Near(call[q].req, b)
<1>1. ~Clash(call[p].req, call[q].req) /\ call[p].req.kind = "write"
  BY KindIs DEF ClientsApart
<1> QED BY <1>1 DEF Clash, Near

(* The bytes that a call covers are near it. *)
LEMMA CoversNear ==
  ASSUME NEW r \in Requests, NEW b \in Nat, Covers(r, b)
  PROVE  Near(r, b)
<1>1. r.addr \in Nat /\ Len(r.data) \in Nat
  BY DEF Requests
<1>2. r.addr <= b /\ b < r.addr + Len(r.data)
  BY <1>1 DEF Covers
<1> QED BY <1>2, CoveredIsNear

(* A call that writes near itself leaves the others undisturbed. *)
LEMMA OthersKept ==
  ASSUME RamTypeOK, RamKept, ~contended, NEW p \in Procs, NEW m, NEW l,
         \A b \in Byte : m[b] = mem[b] \/ (call[p] # Idle /\ call[p].kind = "write" /\ Near(call[p].req, b)),
         \A b \in Byte : l[b] \in {last[b], Unknown}
                         \/ (call[p] # Idle /\ call[p].kind = "write" /\ Near(call[p].req, b))
  PROVE  /\ \A q \in RamClients : q # p /\ call[q] # Idle => Kept(call[q], m, l)
         /\ \A w \in RamWorkers : w # p /\ call[w] # Idle => StoredIn(call[w], m)
<1>1. ClientsApart
  BY DEF RamKept
<1>2. ASSUME NEW q \in Procs, q # p, call[q] # Idle, NEW b \in Byte, Near(call[q].req, b)
      PROVE  m[b] = mem[b] /\ l[b] \in {last[b], Unknown}
  <2>1. ~(call[p] # Idle /\ call[p].kind = "write" /\ Near(call[p].req, b))
    BY <1>1, <1>2, NotNear
  <2> QED BY <2>1
<1>3. ASSUME NEW q \in RamClients, q # p, call[q] # Idle PROVE Kept(call[q], m, l)
  <2>1. q \in Procs
    BY DEF Procs
  <2>2. call[q] \in ClientCall /\ InOrder(call[q]) /\ Kept(call[q], mem, last)
    BY <1>3 DEF RamTypeOK, RamKept, CallOK
  <2>3. \A b \in Byte : Near(call[q].req, b) => m[b] = mem[b] /\ l[b] \in {last[b], Unknown}
    BY <1>2, <1>3, <2>1
  <2> QED BY <2>2, <2>3, KeptStays
<1>4. ASSUME NEW q \in RamWorkers, q # p, call[q] # Idle PROVE StoredIn(call[q], m)
  <2>1. q \in Procs
    BY DEF Procs
  <2>2. call[q] \in WorkerCall /\ Stored(call[q]) /\ StoredIn(call[q], mem)
    BY <1>4 DEF RamTypeOK, RamKept, WorkOK
  <2>3. \A b \in Byte : Near(call[q].req, b) => m[b] = mem[b]
    BY <1>2, <1>4, <2>1
  <2> QED BY <2>2, <2>3, StoredStays
<1> QED BY <1>3, <1>4

(* A new call. *)
LEMMA BeginKeeps ==
  ASSUME RamInv, NEW p \in Procs, NEW r \in Requests, NEW c, Begin(p, r, c), c.req = r, c.kind = r.kind,
         p \in RamClients => CallOK(c) /\ Kept(c, mem, last),
         p \in RamWorkers => WorkOK(c) /\ StoredIn(c, mem)
  PROVE  RamInv'
<1>1. /\ call[p] = Idle
      /\ call' = [call EXCEPT ![p] = c]
      /\ contended' = (contended \/ \E q \in Procs : call[q] # Idle /\ Clash(call[q].req, r))
      /\ mem' = mem /\ serving' = serving /\ last' = last
  BY DEF Begin
<1>2. call'[p] = c /\ \A q \in Procs : q # p => call'[q] = call[q]
  BY <1>1 DEF RamInv, RamTypeOK
<1>3. call' = [q \in Procs |-> call'[q]]
  BY <1>1 DEF RamInv, RamTypeOK
<1>4. c # Idle
  BY CallSteps DEF Procs, CallOK, WorkOK
<1>5. RamTypeOK'
  <2>1. \A q \in RamClients : call'[q] = Idle \/ CallOK(call'[q])
    BY <1>2 DEF RamInv, RamTypeOK, Procs
  <2>2. \A w \in RamWorkers : call'[w] = Idle \/ WorkOK(call'[w])
    BY <1>2 DEF RamInv, RamTypeOK, Procs
  <2>3. serving = NoPacket \/ (serving.by \in RamClients /\ ServesPacket(serving, call'[serving.by]))
    <3>1. CASE serving = NoPacket
      BY <3>1
    <3>2. CASE serving # NoPacket
      <4>1. serving.by \in RamClients /\ ServesPacket(serving, call[serving.by])
        BY <3>2 DEF RamInv, RamTypeOK
      <4>2. call[serving.by].step \in {"head", "tail", "send"}
        BY <4>1 DEF ServesPacket
      <4>3. serving.by # p
        BY <1>1, <4>2 DEF Idle
      <4>4. call'[serving.by] = call[serving.by]
        BY <1>2, <4>1, <4>3 DEF Procs
      <4> QED BY <4>1, <4>4
    <3> QED BY <3>1, <3>2
  <2>4. contended' \in BOOLEAN
    BY <1>1 DEF RamInv, RamTypeOK
  <2> QED BY <1>1, <1>3, <2>1, <2>2, <2>3, <2>4 DEF RamInv, RamTypeOK
<1>6. ASSUME ~contended' PROVE /\ ClientsApart'
                               /\ \A q \in RamClients : call'[q] # Idle => Kept(call'[q], mem', last')
                               /\ \A w \in RamWorkers : call'[w] # Idle => StoredIn(call'[w], mem')
                               /\ serving' # NoPacket => Served(serving', mem')
                               /\ \A b \in Byte : LastIs(b)'
  <2>1. ~contended /\ \A q \in Procs : call[q] # Idle => ~Clash(call[q].req, r)
    BY <1>1, <1>6
  <2>2. RamKept /\ ClientsApart
    BY <2>1 DEF RamInv, RamKept
  <2>3. ClientsApart'
    <3> SUFFICES ASSUME NEW s \in Procs, NEW q \in Procs, s # q, call'[s] # Idle, call'[q] # Idle
                 PROVE  ~Clash(call'[s].req, call'[q].req)
      BY DEF ClientsApart
    <3>1. CASE s = p
      <4>1. ~Clash(call[q].req, r) /\ call'[q] = call[q] /\ call'[s].req = r
        BY <1>2, <2>1, <3>1
      <4> QED BY <4>1 DEF Clash
    <3>2. CASE q = p
      <4>1. ~Clash(call[s].req, r) /\ call'[s] = call[s] /\ call'[q].req = r
        BY <1>2, <2>1, <3>2
      <4> QED BY <4>1
    <3>3. CASE s # p /\ q # p
      BY <1>2, <2>2, <3>3 DEF ClientsApart
    <3> QED BY <3>1, <3>2, <3>3
  <2>4. ASSUME NEW q \in RamClients, call'[q] # Idle PROVE Kept(call'[q], mem', last')
    <3>1. q \in Procs
      BY DEF Procs
    <3> QED BY <1>1, <1>2, <2>1, <2>2, <2>4, <3>1 DEF RamKept
  <2>5. ASSUME NEW w \in RamWorkers, call'[w] # Idle PROVE StoredIn(call'[w], mem')
    <3>1. w \in Procs
      BY DEF Procs
    <3> QED BY <1>1, <1>2, <2>1, <2>2, <2>5, <3>1 DEF RamKept
  <2>6. serving' # NoPacket => Served(serving', mem')
    BY <1>1, <2>1, <2>2 DEF RamKept
  <2>7. ASSUME NEW b \in Byte PROVE LastIs(b)'
    <3>1. LastIs(b)
      BY <2>1, <2>2 DEF RamKept
    <3>2. ASSUME NEW q \in Procs, Writes(q, b) PROVE Writes(q, b)'
      <4>1. q # p
        BY <1>1, <3>2 DEF Writes
      <4> QED BY <1>2, <3>2, <4>1 DEF Writes
    <3> QED BY <1>1, <3>1, <3>2 DEF LastIs
  <2> QED BY <2>3, <2>4, <2>5, <2>6, <2>7
<1> QED BY <1>5, <1>6 DEF RamInv, RamKept

(* The invariant holds at the start. *)
LEMMA RamStarts ==
  ASSUME RamInit
  PROVE  RamInv
<1>1. /\ mem = [b \in Byte |-> 0] /\ call = [p \in Procs |-> Idle] /\ serving = NoPacket
      /\ contended = FALSE /\ last = [b \in Byte |-> 0]
  BY DEF RamInit
<1>2. \A p \in Procs : call[p] = Idle
  BY <1>1
<1>3. RamTypeOK
  <2>1. mem \in [Byte -> Int] /\ last \in [Byte -> Int]
    BY <1>1
  <2>2. call = [p \in Procs |-> call[p]]
    BY <1>1
  <2> QED BY <1>1, <1>2, <2>1, <2>2, Zenon DEF RamTypeOK, Procs
<1>4. RamKept
  <2>1. \A b \in Byte : mem[b] = last[b]
    BY <1>1
  <2> QED BY <1>1, <1>2, <2>1 DEF RamKept, ClientsApart, LastIs, Procs
<1> QED BY <1>3, <1>4 DEF RamInv

(* A client's call begins. *)
LEMMA ClientCallsKeeps ==
  ASSUME RamInv, NEW p \in RamClients, ClientCalls(p)
  PROVE  RamInv'
<1>1. PICK r \in RamRequests : Begin(p, r, AtFirstStep(Fresh(r)))
  BY DEF ClientCalls, Fresh
<1>2. r \in Requests /\ p \in Procs /\ p \notin RamWorkers
  BY RamConstants DEF Procs
<1>3. Fresh(r) \in ClientCall /\ Begun(Fresh(r)) /\ KeptBefore(Fresh(r), mem, last)
  BY <1>2, FreshIs
<1>4. PICK c : c = AtFirstStep(Fresh(r))
  OBVIOUS
<1>5. CallOK(c) /\ Kept(c, mem, last) /\ c.req = Fresh(r).req /\ c.kind = Fresh(r).kind
  BY <1>3, <1>4, FirstStepIs DEF CallOK
<1>6. c.req = r /\ c.kind = r.kind
  BY <1>5 DEF Fresh
<1> QED BY <1>1, <1>2, <1>4, <1>5, <1>6, BeginKeeps

(* A worker's call begins. *)
LEMMA WorkerCallsKeeps ==
  ASSUME RamInv, NEW w \in RamWorkers, WorkerCalls(w)
  PROVE  RamInv'
<1>1. PICK r \in WorkerWrites :
        Begin(w, r, [step |-> "pages", req |-> r, by |-> w, kind |-> "write",
                     addr |-> r.addr, data |-> r.data, done |-> 0])
  BY DEF WorkerCalls
<1>2. r \in Requests /\ r.kind = "write" /\ w \in Procs /\ w \notin RamClients
  BY RamConstants DEF Procs
<1>3. PICK c : c = [step |-> "pages", req |-> r, by |-> w, kind |-> "write",
                    addr |-> r.addr, data |-> r.data, done |-> 0]
  OBVIOUS
<1>4. c \in WorkerCall
  BY <1>2, <1>3 DEF WorkerCall, Requests
<1>5. Len(r.data) \in Nat /\ r.addr \in Nat
  BY <1>2 DEF Requests
<1>6. Stored(c)
  BY <1>2, <1>3, <1>5 DEF Stored
<1>7. StoredIn(c, mem)
  <2>1. \A b \in Byte : ~(r.addr <= b /\ b < r.addr + 0)
    BY <1>5, BytesAreNat
  <2> QED BY <1>3, <2>1 DEF StoredIn
<1>8. c.req = r /\ c.kind = r.kind
  BY <1>2, <1>3
<1> QED BY <1>1, <1>2, <1>3, <1>4, <1>6, <1>7, <1>8, BeginKeeps DEF WorkOK

(* The dispatcher takes a packet. *)
LEMMA ReceiveKeeps ==
  ASSUME RamInv, NEW p \in RamClients, Receive(p)
  PROVE  RamInv'
<1>1. /\ call[p].step \in {"head", "tail", "send"} /\ serving = NoPacket
      /\ mem' = mem /\ call' = call /\ contended' = contended /\ last' = last
  BY DEF Receive
<1>2. call[p] # Idle
  BY <1>1 DEF Idle
<1>3. CallOK(call[p])
  BY <1>2 DEF RamInv, RamTypeOK
<1>4. Packet(p) = PacketOf(p, call[p])
  BY PacketsAre
<1>5. serving' = NoPacket \/ (serving' = PacketOf(p, call[p]) /\ InRange(serving'))
  BY <1>1, <1>4 DEF Receive
<1>6. CASE serving' = NoPacket
  <2>1. RamTypeOK'
    BY <1>1, <1>6 DEF RamInv, RamTypeOK
  <2>2. RamKept'
    BY <1>1, <1>6 DEF RamInv, RamKept, ClientsApart, LastIs, Writes
  <2> QED BY <2>1, <2>2 DEF RamInv
<1>7. CASE serving' = PacketOf(p, call[p]) /\ InRange(serving')
  <2>1. PICK x : x = serving'
    OBVIOUS
  <2>2. x \in PacketType /\ x.by = p /\ x.done = 0
    BY <1>1, <1>3, <1>7, <2>1, PacketIs DEF CallOK
  <2>3. ServesPacket(x, call[p])
    <3>1. Len(x.data) \in Nat
      BY <2>2 DEF PacketType
    <3>2. x.done <= Len(x.data)
      BY <2>2, <3>1
    <3> QED BY <1>1, <1>7, <2>1, <2>2, <3>2 DEF ServesPacket
  <2>4. Served(x, mem)
    BY <2>2 DEF Served
  <2>5. RamTypeOK'
    BY <1>1, <2>1, <2>2, <2>3 DEF RamInv, RamTypeOK
  <2>6. RamKept'
    BY <1>1, <2>1, <2>4 DEF RamInv, RamKept, ClientsApart, LastIs, Writes
  <2> QED BY <2>5, <2>6 DEF RamInv
<1> QED BY <1>5, <1>6, <1>7

(* The call that is served is not one that begins or ends. *)
LEMMA ServedStays ==
  ASSUME RamTypeOK, NEW p \in Procs,
         p \in RamClients => call[p].step \notin {"head", "tail", "send"} \/ serving.by # p,
         \A q \in Procs : q # p => call'[q] = call[q], serving' = serving
  PROVE  serving' = NoPacket \/ (serving'.by \in RamClients /\ ServesPacket(serving', call'[serving'.by]))
<1>1. CASE serving = NoPacket
  BY <1>1
<1>2. CASE serving # NoPacket
  <2>1. serving.by \in RamClients /\ ServesPacket(serving, call[serving.by])
    BY <1>2 DEF RamTypeOK
  <2>2. serving.by # p /\ serving.by \in Procs
    BY <2>1 DEF ServesPacket, Procs
  <2> QED BY <2>1, <2>2
<1> QED BY <1>1, <1>2

(* What has been written when a call is done. *)
LEMMA DoneIsWritten ==
  ASSUME RamTypeOK, RamKept, ~contended, NEW p \in Procs, call[p].step = "done", call[p].kind = "write",
         NEW b \in Byte, Covers(call[p].req, b)
  PROVE  mem[b] = call[p].req.data[b - call[p].req.addr + 1]
<1>1. call[p] # Idle
  BY DEF Idle
<1>2. PICK c : c = call[p]
  OBVIOUS
<1>3. PICK a \in Nat, n \in Nat : a = c.req.addr /\ n = Len(c.req.data) /\ a <= b /\ b < a + n
  <2>1. c.req \in Requests
    BY <1>1, <1>2, KindIs
  <2>2. c.req.addr \in Nat /\ Len(c.req.data) \in Nat
    BY <2>1 DEF Requests
  <2>3. b \in c.req.addr .. c.req.addr + Len(c.req.data) - 1
    BY <1>2 DEF Covers
  <2>4. c.req.addr <= b /\ b < c.req.addr + Len(c.req.data)
    BY <2>2, <2>3
  <2> QED BY <2>2, <2>4
<1>4. CASE p \in RamClients
  <2>1. c \in ClientCall /\ InOrder(c) /\ Kept(c, mem, last) /\ c.step = "done" /\ c.kind = "write"
    BY <1>1, <1>2, <1>4 DEF RamTypeOK, RamKept, CallOK
  <2>2. c.addr \in Nat
    BY <2>1 DEF ClientCall
  <2>3. Len(c.rest) = 0 /\ c.addr + Len(c.rest) = c.req.addr + Len(c.req.data)
    BY <2>1 DEF InOrder
  <2>4. c.addr = a + n
    BY <1>3, <2>2, <2>3
  <2>5. c.req.addr <= b /\ b < c.addr
    BY <1>3, <2>4
  <2> QED BY <1>2, <2>1, <2>5 DEF Kept
<1>5. CASE p \in RamWorkers
  <2>1. c \in WorkerCall /\ Stored(c) /\ StoredIn(c, mem) /\ c.step = "done"
    BY <1>1, <1>2, <1>5 DEF RamTypeOK, RamKept, WorkOK
  <2>2. c.addr = c.req.addr /\ c.data = c.req.data /\ c.done = Len(c.data)
    BY <2>1 DEF Stored
  <2>3. c.addr <= b /\ b < c.addr + c.done
    BY <1>3, <2>2
  <2>4. mem[b] = c.data[b - c.addr + 1]
    BY <2>1, <2>3 DEF StoredIn
  <2> QED BY <1>2, <2>2, <2>4
<1> QED BY <1>4, <1>5 DEF Procs

(* The end of a call: what is known of its bytes is new. *)
LEMMA EndKeeps ==
  ASSUME RamInv, NEW p \in Procs, call[p] # Idle,
         p \in RamClients => call[p].step \notin {"head", "tail", "send"} \/ serving.by # p,
         call' = [call EXCEPT ![p] = Idle], UNCHANGED <<mem, serving, contended>>,
         last' \in [Byte -> Int],
         \A b \in Byte : ~Writes(p, b) => last'[b] \in {last[b], Unknown},
         ~contended => \A b \in Byte : Writes(p, b) => last'[b] \in {mem[b], Unknown}
  PROVE  RamInv'
<1>1. mem' = mem /\ serving' = serving /\ contended' = contended
  OBVIOUS
<1>2. call'[p] = Idle /\ \A q \in Procs : q # p => call'[q] = call[q]
  BY DEF RamInv, RamTypeOK
<1>3. call' = [q \in Procs |-> call'[q]]
  BY DEF RamInv, RamTypeOK
<1>4. RamTypeOK'
  <2>1. \A q \in RamClients : call'[q] = Idle \/ CallOK(call'[q])
    BY <1>2 DEF RamInv, RamTypeOK, Procs
  <2>2. \A w \in RamWorkers : call'[w] = Idle \/ WorkOK(call'[w])
    BY <1>2 DEF RamInv, RamTypeOK, Procs
  <2>3. serving' = NoPacket \/ (serving'.by \in RamClients /\ ServesPacket(serving', call'[serving'.by]))
    BY <1>1, <1>2, ServedStays DEF RamInv
  <2> QED BY <1>1, <1>3, <2>1, <2>2, <2>3 DEF RamInv, RamTypeOK
<1>5. ASSUME ~contended PROVE /\ ClientsApart'
                              /\ \A q \in RamClients : call'[q] # Idle => Kept(call'[q], mem', last')
                              /\ \A w \in RamWorkers : call'[w] # Idle => StoredIn(call'[w], mem')
                              /\ serving' # NoPacket => Served(serving', mem')
                              /\ \A b \in Byte : LastIs(b)'
  <2>1. RamTypeOK /\ RamKept /\ ClientsApart
    BY <1>5 DEF RamInv, RamKept
  <2>2. ClientsApart'
    BY <1>2, <2>1 DEF ClientsApart
  <2>3. \A b \in Byte : last'[b] \in {last[b], Unknown} \/ (call[p].kind = "write" /\ Near(call[p].req, b))
    <3>1. ASSUME NEW b \in Byte, Writes(p, b) PROVE call[p].kind = "write" /\ Near(call[p].req, b)
      <4>1. call[p].req \in Requests /\ b \in Nat
        BY <2>1, KindIs, BytesAreNat
      <4> QED BY <3>1, <4>1, CoversNear DEF Writes
    <3> QED BY <3>1
  <2>4. /\ \A q \in RamClients : q # p /\ call[q] # Idle => Kept(call[q], mem, last')
        /\ \A w \in RamWorkers : w # p /\ call[w] # Idle => StoredIn(call[w], mem)
    BY <1>5, <2>1, <2>3, OthersKept
  <2>5. \A q \in RamClients : call'[q] # Idle => Kept(call'[q], mem', last')
    BY <1>1, <1>2, <2>4 DEF Procs
  <2>6. \A w \in RamWorkers : call'[w] # Idle => StoredIn(call'[w], mem')
    BY <1>1, <1>2, <2>4 DEF Procs
  <2>7. serving' # NoPacket => Served(serving', mem')
    BY <1>1, <1>5, <2>1 DEF RamKept
  <2>8. ASSUME NEW b \in Byte PROVE LastIs(b)'
    <3>1. LastIs(b)
      BY <1>5, <2>1 DEF RamKept
    <3>2. CASE Writes(p, b)
      BY <1>1, <1>5, <3>2 DEF LastIs
    <3>3. CASE ~Writes(p, b)
      <4>1. last'[b] = Unknown \/ last'[b] = last[b]
        BY <3>3
      <4>2. ASSUME NEW q \in Procs, Writes(q, b) PROVE Writes(q, b)'
        <5>1. q # p
          BY <3>3, <4>2
        <5> QED BY <1>2, <4>2, <5>1 DEF Writes
      <4> QED BY <1>1, <3>1, <4>1, <4>2 DEF LastIs
    <3> QED BY <3>2, <3>3
  <2> QED BY <2>2, <2>5, <2>6, <2>7, <2>8
<1> QED BY <1>1, <1>4, <1>5 DEF RamInv, RamKept

(* A call returns. *)
LEMMA ReturnKeeps ==
  ASSUME RamInv, NEW p \in Procs, Return(p)
  PROVE  RamInv'
<1>1. /\ call[p].step = "done" /\ call' = [call EXCEPT ![p] = Idle] /\ UNCHANGED <<mem, serving, contended>>
      /\ last' = IF call[p].kind = "read" THEN last
                 ELSE [b \in Byte |-> IF Covers(call[p].req, b)
                                      THEN call[p].req.data[b - call[p].req.addr + 1] ELSE last[b]]
  BY DEF Return
<1>2. call[p] # Idle
  BY <1>1 DEF Idle
<1>3. call[p].kind \in {"read", "write"} /\ call[p].req \in Requests
  BY <1>2, KindIs DEF RamInv
<1>4. CASE call[p].kind = "read"
  <2>1. last' = last /\ \A b \in Byte : ~Writes(p, b)
    BY <1>1, <1>4 DEF Writes
  <2>2. last' \in [Byte -> Int]
    BY <2>1 DEF RamInv, RamTypeOK
  <2> QED BY <1>1, <1>2, <2>1, <2>2, EndKeeps
<1>5. CASE call[p].kind = "write"
  <2>1. last' = [b \in Byte |-> IF Covers(call[p].req, b)
                                THEN call[p].req.data[b - call[p].req.addr + 1] ELSE last[b]]
    BY <1>1, <1>5
  <2>2. ASSUME NEW b \in Byte, Covers(call[p].req, b)
        PROVE  call[p].req.data[b - call[p].req.addr + 1] \in Int
    <3>1. PICK a \in Nat, s \in Seq(Int) : a = call[p].req.addr /\ s = call[p].req.data
      BY <1>3 DEF Requests
    <3>2. PICK n \in Nat : n = Len(s)
      BY <3>1
    <3>3. b \in a .. a + n - 1
      BY <2>2, <3>1, <3>2 DEF Covers
    <3>4. b - a + 1 \in 1 .. n
      BY <3>3
    <3>5. s[b - a + 1] \in Int
      BY <3>2, <3>4, ElementOfSeq
    <3> QED BY <3>1, <3>5
  <2>3. last' \in [Byte -> Int]
    BY <2>1, <2>2 DEF RamInv, RamTypeOK
  <2>4. \A b \in Byte : ~Writes(p, b) => last'[b] = last[b]
    BY <1>2, <1>5, <2>1 DEF Writes
  <2>5. ASSUME ~contended, NEW b \in Byte, Writes(p, b) PROVE last'[b] = mem[b]
    <3>1. Covers(call[p].req, b)
      BY <2>5 DEF Writes
    <3>2. mem[b] = call[p].req.data[b - call[p].req.addr + 1]
      BY <1>1, <1>5, <2>5, <3>1, DoneIsWritten DEF RamInv
    <3> QED BY <2>1, <3>1, <3>2
  <2> QED BY <1>1, <1>2, <2>3, <2>4, <2>5, EndKeeps
<1> QED BY <1>3, <1>4, <1>5

(* A client gives up waiting for a reply. *)
LEMMA TimeOutKeeps ==
  ASSUME RamInv, NEW p \in RamClients, RamTimeOut(p)
  PROVE  RamInv'
<1>1. /\ call[p].step \in {"head", "tail", "send"} /\ serving.by # p
      /\ call' = [call EXCEPT ![p] = Idle] /\ UNCHANGED <<mem, serving, contended>>
      /\ last' = [b \in Byte |-> IF Covers(call[p].req, b) THEN Unknown ELSE last[b]]
  BY DEF RamTimeOut
<1>2. call[p] # Idle /\ p \in Procs
  BY <1>1 DEF Idle, Procs
<1>3. last' \in [Byte -> Int]
  BY <1>1 DEF RamInv, RamTypeOK, Unknown
<1>4. \A b \in Byte : last'[b] \in {last[b], Unknown}
  BY <1>1
<1>5. \A b \in Byte : Writes(p, b) => last'[b] = Unknown
  BY <1>1 DEF Writes
<1> QED BY <1>1, <1>2, <1>3, <1>4, <1>5, EndKeeps

(* A page written by a client changes nothing outside of what it asked for. *)
LEMMA OnlyAsked ==
  ASSUME NEW c \in ClientCall, InOrder(c), NEW x, ServesPacket(x, c), x.kind = "write",
         mem \in [Byte -> Int], NEW l, Kept(c, mem, l), NEW b \in Byte, ~(c.addr <= b /\ b < EndOf(c))
  PROVE  MemWithPage(x)[b] = mem[b]
<1>1. /\ x.addr \in Nat /\ x.data \in Seq(Int) /\ x.done \in Nat /\ x.done <= Len(x.data)
      /\ Len(x.data) \in Nat
  <2>1. x.data \in Seq(Int)
    BY ServedIs
  <2> QED BY <2>1, ServedIs
<1>2. /\ x.addr + x.done <= b /\ b < x.addr + EndOfPage(x) =>
           MemWithPage(x)[b] = x.data[b - x.addr + 1]
      /\ ~(x.addr + x.done <= b /\ b < x.addr + EndOfPage(x)) => MemWithPage(x)[b] = mem[b]
  BY <1>1, PageWritten
<1>3. ASSUME x.addr + x.done <= b, b < x.addr + EndOfPage(x) PROVE x.data[b - x.addr + 1] = mem[b]
  <2>1. PICK a \in Nat, d \in Nat, e \in Nat, n \in Nat :
          a = x.addr /\ d = x.done /\ e = EndOfPage(x) /\ n = Len(x.data) /\ e <= n
    BY <1>1, PageIs
  <2>2. a + d <= b /\ b < a + e /\ e <= n /\ b \in Nat
    BY <1>3, <2>1, BytesAreNat
  <2>3. a <= b /\ b < a + n
    BY <2>2
  <2>4. b \in PacketBytes(x)
    BY <2>1, <2>3 DEF PacketBytes
  <2> QED BY <2>4, PacketHas
<1> QED BY <1>2, <1>3

(* What is written of the next part disturbs nothing that is known of its  *)
(* call.                                                                   *)
LEMMA OwnKept ==
  ASSUME NEW c \in ClientCall, InOrder(c), Len(c.rest) # 0, NEW m, NEW l, NEW m2, Kept(c, m, l),
         \A b \in Byte : ~(c.addr <= b /\ b < EndOf(c)) => m2[b] = m[b]
  PROVE  Kept(c, m2, l)
<1> SUFFICES ASSUME NEW b \in Byte
             PROVE  /\ c.kind = "write" =>
                         /\ c.req.addr <= b /\ b < c.addr => m2[b] = c.req.data[b - c.req.addr + 1]
                         /\ c.step \in {"tail", "send"} /\ WordOf(c.addr) <= b /\ b < c.addr =>
                              m2[b] = c.head[b - WordOf(c.addr) + 1]
                         /\ c.step = "send" /\ EndOf(c) <= b /\ b < EndOf(c) + Len(c.tail) =>
                              m2[b] = c.tail[b - EndOf(c) + 1]
                    /\ c.kind = "read" /\ c.req.addr <= b /\ b < c.addr =>
                         l[b] \in {Unknown, c.got[b - c.req.addr + 1]}
  BY Zenon DEF Kept
<1>1. c.addr \in Nat /\ EndOf(c) \in Nat /\ b \in Nat
  BY Parts, BytesAreNat DEF ClientCall
<1>2. b < c.addr \/ EndOf(c) <= b => m2[b] = m[b]
  <2>1. b < c.addr => ~(c.addr <= b)
    BY <1>1
  <2>2. EndOf(c) <= b => ~(b < EndOf(c))
    BY <1>1
  <2> QED BY <2>1, <2>2
<1>3. ASSUME c.kind = "write", c.req.addr <= b, b < c.addr
      PROVE  m2[b] = c.req.data[b - c.req.addr + 1]
  <2>1. m[b] = c.req.data[b - c.req.addr + 1]
    BY <1>3 DEF Kept
  <2> QED BY <1>2, <1>3, <2>1
<1>4. ASSUME c.kind = "write", c.step \in {"tail", "send"}, WordOf(c.addr) <= b, b < c.addr
      PROVE  m2[b] = c.head[b - WordOf(c.addr) + 1]
  <2>1. m[b] = c.head[b - WordOf(c.addr) + 1]
    BY <1>4 DEF Kept
  <2> QED BY <1>2, <1>4, <2>1
<1>5. ASSUME c.kind = "write", c.step = "send", EndOf(c) <= b, b < EndOf(c) + Len(c.tail)
      PROVE  m2[b] = c.tail[b - EndOf(c) + 1]
  <2>1. m[b] = c.tail[b - EndOf(c) + 1]
    BY <1>5 DEF Kept
  <2> QED BY <1>2, <1>5, <2>1
<1>6. ASSUME c.kind = "read", c.req.addr <= b, b < c.addr
      PROVE  l[b] \in {Unknown, c.got[b - c.req.addr + 1]}
  BY <1>6 DEF Kept
<1> QED BY <1>3, <1>4, <1>5, <1>6

(* The bytes of the next part are those of the request. *)
LEMMA AskedNear ==
  ASSUME NEW c \in ClientCall, InOrder(c), NEW b \in Byte, c.addr <= b, b < EndOf(c)
  PROVE  Near(c.req, b) /\ Covers(c.req, b)
<1>1. c.req \in Requests /\ b \in Nat
  BY BytesAreNat DEF ClientCall
<1>2. PICK a \in Nat, n \in Nat, left \in Nat, from \in Nat, size \in Nat :
        /\ a = c.addr /\ n = PartLen(c) /\ left = Len(c.rest) /\ from = c.req.addr
        /\ size = Len(c.req.data) /\ n <= left /\ EndOf(c) = a + n
  <2>1. c.addr \in Nat /\ Len(c.rest) \in Nat
    BY DEF ClientCall
  <2>2. c.req.addr \in Nat /\ Len(c.req.data) \in Nat
    BY <1>1 DEF Requests
  <2>3. PartLen(c) \in Nat /\ PartLen(c) <= Len(c.rest) /\ EndOf(c) = c.addr + PartLen(c)
    BY Parts DEF EndOf
  <2> QED BY <2>1, <2>2, <2>3
<1>3. from <= a /\ a + left = from + size
  BY <1>2 DEF InOrder
<1>4. a <= b /\ b < a + n /\ n <= left
  BY <1>2
<1>5. from <= b /\ b < from + size
  BY <1>1, <1>3, <1>4
<1> QED BY <1>1, <1>2, <1>5, CoveredIsNear

(* The end of a step of the dispatcher. *)
LEMMA ServeKeeps ==
  ASSUME RamInv, NEW p \in RamClients, serving # NoPacket, serving.by = p,
         NEW y, ServesPacket(y, call[p]), y.by = p,
         ~contended => Served(y, mem'),
         mem' \in [Byte -> Int],
         ~contended => \A b \in Byte : mem'[b] = mem[b] \/ (call[p].kind = "write" /\ call[p].addr <= b /\ b < EndOf(call[p])),
         \/ serving' = y /\ call' = call
         \/ /\ serving' = NoPacket /\ y.done = Len(y.data)
            /\ call' = [call EXCEPT ![p] = Answered(@, y.data)]
            /\ call[p].kind = "read" => mem' = mem,
         contended' = contended, last' = last
  PROVE  RamInv'
<1>1. PICK c : c = call[p]
  OBVIOUS
<1>2. c # Idle /\ CallOK(c) /\ p \in Procs /\ c.step \in {"head", "tail", "send"} /\ ServesPacket(y, c)
  <2>1. c.step \in {"head", "tail", "send"}
    BY <1>1 DEF ServesPacket
  <2>2. c # Idle
    BY <2>1 DEF Idle
  <2> QED BY <1>1, <2>1, <2>2 DEF RamInv, RamTypeOK, Procs
<1>3. Len(c.rest) # 0 /\ c \in ClientCall /\ InOrder(c)
  BY <1>2 DEF CallOK, InOrder
<1>4. PICK d : /\ CallOK(d) /\ d.req = c.req /\ d.kind = c.kind /\ call' = [call EXCEPT ![p] = d]
               /\ (\/ serving' = y /\ d = c
                   \/ serving' = NoPacket /\ y.done = Len(y.data) /\ d = Answered(c, y.data)
                      /\ (c.kind = "read" => mem' = mem))
  <2>1. CASE serving' = y /\ call' = call
    <3>1. call' = [call EXCEPT ![p] = c]
      BY <1>1, <1>2, <2>1 DEF RamInv, RamTypeOK
    <3> QED BY <1>2, <2>1, <3>1
  <2>2. CASE /\ serving' = NoPacket /\ y.done = Len(y.data)
             /\ call' = [call EXCEPT ![p] = Answered(@, y.data)]
             /\ (call[p].kind = "read" => mem' = mem)
    <3>1. CallOK(Answered(c, y.data)) /\ Answered(c, y.data).req = c.req
          /\ Answered(c, y.data).kind = c.kind
      BY <1>2, <1>3, <2>2, AnsweredIs DEF CallOK
    <3>2. call' = [call EXCEPT ![p] = Answered(c, y.data)]
      BY <1>1, <2>2
    <3> QED BY <1>1, <2>2, <3>1, <3>2
  <2> QED BY <2>1, <2>2
<1>5. call'[p] = d /\ d # Idle /\ \A q \in Procs : q # p => call'[q] = call[q]
  BY <1>2, <1>4, CallSteps DEF RamInv, RamTypeOK, CallOK
<1>6. call' = [q \in Procs |-> call'[q]]
  BY <1>4 DEF RamInv, RamTypeOK
<1>7. RamTypeOK'
  <2>1. \A q \in RamClients : call'[q] = Idle \/ CallOK(call'[q])
    BY <1>4, <1>5 DEF RamInv, RamTypeOK, Procs
  <2>2. \A w \in RamWorkers : call'[w] = Idle \/ WorkOK(call'[w])
    <3>1. \A w \in RamWorkers : w # p
      BY RamConstants
    <3> QED BY <1>5, <3>1 DEF RamInv, RamTypeOK, Procs
  <2>3. serving' = NoPacket \/ (serving'.by \in RamClients /\ ServesPacket(serving', call'[serving'.by]))
    BY <1>2, <1>4, <1>5
  <2> QED BY <1>6, <2>1, <2>2, <2>3 DEF RamInv, RamTypeOK
<1>8. ASSUME ~contended
      PROVE  /\ ClientsApart'
             /\ \A q \in RamClients : call'[q] # Idle => Kept(call'[q], mem', last')
             /\ \A w \in RamWorkers : call'[w] # Idle => StoredIn(call'[w], mem')
             /\ serving' # NoPacket => Served(serving', mem')
             /\ \A b \in Byte : LastIs(b)'
  <2>1. RamTypeOK /\ RamKept /\ ClientsApart
    BY <1>8 DEF RamInv, RamKept
  <2>2. ClientsApart'
    <3> SUFFICES ASSUME NEW s \in Procs, NEW q \in Procs, s # q, call'[s] # Idle, call'[q] # Idle
                 PROVE  ~Clash(call'[s].req, call'[q].req)
      BY DEF ClientsApart
    <3>1. call'[s].req = call[s].req /\ call[s] # Idle
      BY <1>1, <1>2, <1>4, <1>5
    <3>2. call'[q].req = call[q].req /\ call[q] # Idle
      BY <1>1, <1>2, <1>4, <1>5
    <3> QED BY <2>1, <3>1, <3>2 DEF ClientsApart
  <2>3. \A b \in Byte : mem'[b] = mem[b] \/ (call[p] # Idle /\ call[p].kind = "write" /\ Near(call[p].req, b))
    BY <1>1, <1>2, <1>3, <1>8, AskedNear
  <2>4. /\ \A q \in RamClients : q # p /\ call[q] # Idle => Kept(call[q], mem', last)
        /\ \A w \in RamWorkers : w # p /\ call[w] # Idle => StoredIn(call[w], mem')
    BY <1>2, <1>8, <2>1, <2>3, OthersKept
  <2>5. Kept(c, mem, last)
    BY <1>1, <1>2, <1>8, <2>1 DEF RamKept
  <2>6. Kept(c, mem', last)
    <3>1. \A b \in Byte : ~(c.addr <= b /\ b < EndOf(c)) => mem'[b] = mem[b]
      BY <1>1, <1>8
    <3> QED BY <1>3, <2>5, <3>1, OwnKept
  <2>7. Kept(d, mem', last)
    <3>1. CASE d = c
      BY <2>6, <3>1
    <3>2. CASE /\ serving' = NoPacket /\ y.done = Len(y.data) /\ d = Answered(c, y.data)
               /\ (c.kind = "read" => mem' = mem)
      <4>1. ASSUME c.kind = "read", NEW b \in Byte, Near(c.req, b) PROVE last[b] \in {Unknown, mem'[b]}
        <5>1. LastIs(b)
          BY <1>8, <2>1 DEF RamKept
        <5>2. ASSUME NEW q \in Procs, Writes(q, b) PROVE FALSE
          <6>1. q # p /\ call[q] # Idle /\ call[q].kind = "write"
            BY <1>1, <4>1, <5>2 DEF Writes
          <6>2. Near(call[q].req, b)
            BY <2>1, <5>2, <6>1, KindIs, BytesAreNat, CoversNear DEF Writes
          <6>3. ~Near(call[p].req, b)
            BY <1>1, <1>2, <2>1, <6>1, <6>2, NotNear
          <6> QED BY <1>1, <4>1, <6>3
        <5> QED BY <3>2, <4>1, <5>1, <5>2 DEF LastIs
      <4>2. Served(y, mem')
        BY <1>8
      <4>3. \A m, l : /\ Kept(c, m, l) /\ Served(y, m)
                      /\ c.kind = "read" => \A b \in Byte : Near(c.req, b) => l[b] \in {Unknown, m[b]}
                      => Kept(Answered(c, y.data), m, l)
        BY <1>2, <1>3, <3>2, AnsweredIs
      <4> QED BY <2>6, <3>2, <4>1, <4>2, <4>3
    <3> QED BY <1>4, <3>1, <3>2
  <2>8. \A q \in RamClients : call'[q] # Idle => Kept(call'[q], mem', last')
    BY <1>5, <2>4, <2>7 DEF Procs
  <2>9. \A w \in RamWorkers : call'[w] # Idle => StoredIn(call'[w], mem')
    <3>1. \A w \in RamWorkers : w # p
      BY RamConstants
    <3> QED BY <1>5, <2>4, <3>1 DEF Procs
  <2>10. serving' # NoPacket => Served(serving', mem')
    BY <1>4, <1>8
  <2>11. ASSUME NEW b \in Byte PROVE LastIs(b)'
    <3>1. LastIs(b)
      BY <1>8, <2>1 DEF RamKept
    <3>2. ASSUME NEW q \in Procs, Writes(q, b) PROVE Writes(q, b)'
      BY <1>1, <1>4, <1>5, <3>2 DEF Writes
    <3>3. CASE mem'[b] = mem[b]
      BY <3>1, <3>2, <3>3 DEF LastIs
    <3>4. CASE mem'[b] # mem[b]
      <4>1. c.kind = "write" /\ c.addr <= b /\ b < EndOf(c)
        BY <1>1, <1>8, <3>4
      <4>2. Writes(p, b)
        BY <1>1, <1>2, <1>3, <4>1, AskedNear DEF Writes
      <4> QED BY <1>2, <3>2, <4>2 DEF LastIs
    <3> QED BY <3>3, <3>4
  <2> QED BY <2>2, <2>8, <2>9, <2>10, <2>11
<1> QED BY <1>7, <1>8 DEF RamInv, RamKept

(* The dispatcher reads or writes a page. *)
LEMMA ServePageKeeps ==
  ASSUME RamInv, ServePage
  PROVE  RamInv'
<1>1. PICK x : x = serving
  OBVIOUS
<1>2. PICK p : p = x.by
  OBVIOUS
<1>3. PICK c : c = call[p]
  OBVIOUS
<1>4. x # NoPacket /\ p \in RamClients /\ ServesPacket(x, c) /\ mem \in [Byte -> Int]
  BY <1>1, <1>2, <1>3 DEF ServePage, RamInv, RamTypeOK
<1>5. c # Idle /\ c \in ClientCall /\ InOrder(c)
  <2>1. c.step \in {"head", "tail", "send"}
    BY <1>4 DEF ServesPacket
  <2>2. c # Idle
    BY <2>1 DEF Idle
  <2> QED BY <1>3, <1>4, <2>2 DEF RamInv, RamTypeOK, CallOK
<1>6. x.kind \in {"read", "write"}
  BY <1>4 DEF ServesPacket, PacketType
<1>7. ~contended => Served(x, mem) /\ Kept(c, mem, last)
  BY <1>1, <1>3, <1>4, <1>5 DEF RamInv, RamKept
<1>8. contended' = contended /\ last' = last
  BY DEF ServePage
<1>9. CASE x.kind = "read"
  <2>1. PICK y : y = ReadWithPage(x)
    OBVIOUS
  <2>2. ServesPacket(y, c) /\ y.by = p /\ (~contended => Served(y, mem))
    BY <1>2, <1>4, <1>5, <1>7, <1>9, <2>1, ReadServed
  <2>3. /\ mem' = mem
        /\ IF y.done = Len(y.data)
           THEN serving' = NoPacket /\ call' = [call EXCEPT ![p] = Answered(@, y.data)]
           ELSE serving' = y /\ call' = call
    BY <1>1, <1>2, <1>9, <2>1 DEF ServePage
  <2>4. \/ serving' = y /\ call' = call
        \/ /\ serving' = NoPacket /\ y.done = Len(y.data)
           /\ call' = [call EXCEPT ![p] = Answered(@, y.data)]
           /\ (call[p].kind = "read" => mem' = mem)
    BY <2>3
  <2> QED BY <1>1, <1>2, <1>3, <1>4, <1>8, <2>2, <2>3, <2>4, ServeKeeps
<1>10. CASE x.kind = "write"
  <2>1. PICK y : y = [x EXCEPT !.done = EndOfPage(x)]
    OBVIOUS
  <2>2. ServesPacket(y, c) /\ y.by = p /\ (Served(x, mem) => Served(y, MemWithPage(x)))
    BY <1>2, <1>4, <1>5, <2>1, WriteServed
  <2>3. /\ mem' = MemWithPage(x)
        /\ IF y.done = Len(y.data)
           THEN serving' = NoPacket /\ call' = [call EXCEPT ![p] = Answered(@, y.data)]
           ELSE serving' = y /\ call' = call
    BY <1>1, <1>2, <1>10, <2>1 DEF ServePage
  <2>4. c.kind = "write"
    BY <1>4, <1>5, <1>10, ServedIs
  <2>5. mem' \in [Byte -> Int]
    <3>1. x.addr \in Nat /\ x.data \in Seq(Int) /\ x.done \in Nat /\ x.done <= Len(x.data)
      BY <1>4, <1>5, ServedIs
    <3> QED BY <1>4, <2>3, <3>1, PageWritten
  <2>6. ~contended => \A b \in Byte : mem'[b] = mem[b] \/ (c.addr <= b /\ b < EndOf(c))
    BY <1>4, <1>5, <1>7, <1>10, <2>3, OnlyAsked
  <2>7. \/ serving' = y /\ call' = call
        \/ /\ serving' = NoPacket /\ y.done = Len(y.data)
           /\ call' = [call EXCEPT ![p] = Answered(@, y.data)]
           /\ (call[p].kind = "read" => mem' = mem)
    BY <1>3, <2>3, <2>4
  <2>8. ~contended => Served(y, mem')
    BY <1>7, <2>2, <2>3
  <2> QED BY <1>1, <1>2, <1>3, <1>4, <1>8, <2>2, <2>4, <2>5, <2>6, <2>7, <2>8, ServeKeeps
<1> QED BY <1>6, <1>9, <1>10

(* A worker writes a page. *)
LEMMA WorkerPageKeeps ==
  ASSUME RamInv, NEW w \in RamWorkers, WorkerPage(w)
  PROVE  RamInv'
<1>1. PICK c : c = call[w]
  OBVIOUS
<1>2. /\ c.step = "pages" /\ mem' = MemWithPage(c)
      /\ call' = [call EXCEPT ![w].done = EndOfPage(c),
                              ![w].step = IF EndOfPage(c) = Len(c.data) THEN "done" ELSE @]
      /\ serving' = serving /\ contended' = contended /\ last' = last
  BY <1>1 DEF WorkerPage
<1>3. c # Idle /\ w \in Procs /\ w \notin RamClients
  <2>1. Idle.step = "idle"
    BY DEF Idle
  <2> QED BY <1>2, <2>1, RamConstants DEF Procs
<1>4. c \in WorkerCall /\ Stored(c) /\ mem \in [Byte -> Int]
  BY <1>1, <1>3 DEF RamInv, RamTypeOK, WorkOK
<1>5. /\ c.addr \in Nat /\ c.data \in Seq(Int) /\ c.done \in Nat /\ c.done <= Len(c.data)
      /\ c.kind = "write" /\ Len(c.data) \in Nat
  BY <1>4 DEF WorkerCall, Stored
<1>6. EndOfPage(c) \in Nat /\ c.done <= EndOfPage(c) /\ EndOfPage(c) <= Len(c.data)
  BY <1>5, PageIs
<1>7. PICK d : d = [c EXCEPT !.done = EndOfPage(c),
                             !.step = IF EndOfPage(c) = Len(c.data) THEN "done" ELSE c.step]
  OBVIOUS
<1>8. call' = [call EXCEPT ![w] = d]
  BY <1>1, <1>2, <1>3, <1>4, <1>7 DEF RamInv, RamTypeOK, WorkerCall
<1>9. /\ d \in WorkerCall /\ d.req = c.req /\ d.kind = c.kind /\ d.addr = c.addr /\ d.data = c.data
      /\ d.done = EndOfPage(c) /\ (d.step = "done" => EndOfPage(c) = Len(c.data))
  BY <1>2, <1>4, <1>6, <1>7 DEF WorkerCall
<1>10. WorkOK(d) /\ d # Idle
  BY <1>4, <1>6, <1>9, CallSteps DEF Stored, WorkOK
<1>11. call'[w] = d /\ \A q \in Procs : q # w => call'[q] = call[q]
  BY <1>3, <1>8 DEF RamInv, RamTypeOK
<1>12. call' = [q \in Procs |-> call'[q]]
  BY <1>8 DEF RamInv, RamTypeOK
<1>13. /\ mem' \in [Byte -> Int]
       /\ \A b \in Byte :
            /\ c.addr + c.done <= b /\ b < c.addr + EndOfPage(c) => mem'[b] = c.data[b - c.addr + 1]
            /\ ~(c.addr + c.done <= b /\ b < c.addr + EndOfPage(c)) => mem'[b] = mem[b]
  BY <1>2, <1>4, <1>5, PageWritten
<1>14. RamTypeOK'
  <2>1. \A q \in RamClients : call'[q] = Idle \/ CallOK(call'[q])
    BY <1>3, <1>11 DEF RamInv, RamTypeOK, Procs
  <2>2. \A v \in RamWorkers : call'[v] = Idle \/ WorkOK(call'[v])
    BY <1>10, <1>11 DEF RamInv, RamTypeOK, Procs
  <2>3. serving' = NoPacket \/ (serving'.by \in RamClients /\ ServesPacket(serving', call'[serving'.by]))
    BY <1>2, <1>3, <1>11, ServedStays DEF RamInv
  <2> QED BY <1>2, <1>12, <1>13, <2>1, <2>2, <2>3 DEF RamInv, RamTypeOK
<1>15. ASSUME NEW b \in Byte, c.addr + c.done <= b, b < c.addr + EndOfPage(c)
       PROVE  Near(c.req, b) /\ Covers(c.req, b)
  <2>1. c.addr <= b /\ b < c.addr + Len(c.data)
    <3>1. PICK a \in Nat, k \in Nat, e \in Nat, n \in Nat :
            a = c.addr /\ k = c.done /\ e = EndOfPage(c) /\ n = Len(c.data)
      BY <1>5, <1>6
    <3>2. a + k <= b /\ b < a + e /\ e <= n /\ b \in Nat
      BY <1>6, <1>15, <3>1, BytesAreNat
    <3>3. a <= b /\ b < a + n
      BY <3>2
    <3> QED BY <3>1, <3>3
  <2> QED BY <1>4, <2>1, StoredNear
<1>16. ASSUME ~contended
       PROVE  /\ ClientsApart'
              /\ \A q \in RamClients : call'[q] # Idle => Kept(call'[q], mem', last')
              /\ \A v \in RamWorkers : call'[v] # Idle => StoredIn(call'[v], mem')
              /\ serving' # NoPacket => Served(serving', mem')
              /\ \A b \in Byte : LastIs(b)'
  <2>1. RamTypeOK /\ RamKept /\ ClientsApart
    BY <1>16 DEF RamInv, RamKept
  <2>2. ClientsApart'
    <3> SUFFICES ASSUME NEW s \in Procs, NEW q \in Procs, s # q, call'[s] # Idle, call'[q] # Idle
                 PROVE  ~Clash(call'[s].req, call'[q].req)
      BY DEF ClientsApart
    <3>1. call'[s].req = call[s].req /\ call[s] # Idle
      BY <1>1, <1>3, <1>9, <1>11
    <3>2. call'[q].req = call[q].req /\ call[q] # Idle
      BY <1>1, <1>3, <1>9, <1>11
    <3> QED BY <2>1, <3>1, <3>2 DEF ClientsApart
  <2>3. \A b \in Byte : mem'[b] = mem[b] \/ (call[w] # Idle /\ call[w].kind = "write" /\ Near(call[w].req, b))
    BY <1>1, <1>3, <1>5, <1>13, <1>15
  <2>4. /\ \A q \in RamClients : q # w /\ call[q] # Idle => Kept(call[q], mem', last)
        /\ \A v \in RamWorkers : v # w /\ call[v] # Idle => StoredIn(call[v], mem')
    BY <1>3, <1>16, <2>1, <2>3, OthersKept
  <2>5. StoredIn(d, mem')
    <3> SUFFICES ASSUME NEW b \in Byte, d.addr <= b, b < d.addr + d.done
                 PROVE  mem'[b] = d.data[b - d.addr + 1]
      BY DEF StoredIn
    <3>1. c.addr <= b /\ b < c.addr + EndOfPage(c)
      BY <1>9
    <3>2. CASE c.addr + c.done <= b
      BY <1>9, <1>13, <3>1, <3>2
    <3>3. CASE ~(c.addr + c.done <= b)
      <4>1. mem'[b] = mem[b]
        BY <1>13, <3>3
      <4>2. b < c.addr + c.done
        BY <1>5, <3>3, BytesAreNat
      <4>3. StoredIn(c, mem)
        BY <1>1, <1>3, <1>16, <2>1 DEF RamKept
      <4>4. mem[b] = c.data[b - c.addr + 1]
        BY <3>1, <4>2, <4>3 DEF StoredIn
      <4> QED BY <1>9, <4>1, <4>4
    <3> QED BY <3>2, <3>3
  <2>6. \A q \in RamClients : call'[q] # Idle => Kept(call'[q], mem', last')
    BY <1>2, <1>3, <1>11, <2>4 DEF Procs
  <2>7. \A v \in RamWorkers : call'[v] # Idle => StoredIn(call'[v], mem')
    BY <1>11, <2>4, <2>5 DEF Procs
  <2>8. ASSUME serving' # NoPacket PROVE Served(serving', mem')
    <3>1. PICK p, x : x = serving /\ p = x.by
      OBVIOUS
    <3>2. p \in RamClients /\ ServesPacket(x, call[p]) /\ Served(x, mem)
      BY <1>2, <1>16, <2>1, <2>8, <3>1 DEF RamTypeOK, RamKept
    <3>3. call[p] # Idle /\ p \in Procs /\ p # w
      <4>1. call[p].step \in {"head", "tail", "send"}
        BY <3>2 DEF ServesPacket
      <4>2. Idle.step = "idle"
        BY DEF Idle
      <4> QED BY <1>3, <3>2, <4>1, <4>2 DEF Procs
    <3>4. call[p] \in ClientCall /\ InOrder(call[p])
      BY <2>1, <3>2, <3>3 DEF RamTypeOK, CallOK
    <3>5. ASSUME NEW i \in Nat, i < x.done PROVE mem'[x.addr + i] = x.data[i + 1]
      <4>1. PICK a \in Nat, k \in Nat, n \in Nat :
              a = x.addr /\ k = x.done /\ n = Len(x.data) /\ k <= n /\ a + n < MEM_SIZE
        <5>1. x.addr \in Nat /\ x.data \in Seq(Int) /\ x.done \in Nat
          BY <3>2, <3>4, ServedIs
        <5>2. Len(x.data) \in Nat
          BY <5>1
        <5>3. x.done <= Len(x.data) /\ x.addr + Len(x.data) < MEM_SIZE
          BY <3>2, <3>4, ServedIs
        <5> QED BY <5>1, <5>2, <5>3
      <4>2. PICK b \in Nat : b = a + i
        OBVIOUS
      <4>3. a <= b /\ b < a + n /\ b < MEM_SIZE
        <5>1. MEM_SIZE \in Nat
          BY RamConstants
        <5>2. i < k /\ k <= n /\ a + n < MEM_SIZE
          BY <3>5, <4>1
        <5> QED BY <4>2, <5>1, <5>2
      <4>4. b \in Byte
        BY <4>3, BytesAreNat
      <4>5. Near(call[p].req, b)
        <5>1. WordOf(call[p].addr) <= x.addr
              /\ x.addr + Len(x.data) <= WordOf(EndOf(call[p]) - 1) + MIN_RW_SIZE
              /\ Len(call[p].rest) # 0
          BY <3>2, <3>4, ServedIs
        <5>2. WordOf(call[p].addr) \in Nat
          BY <3>4, WordFacts DEF ClientCall
        <5>3. EndOf(call[p]) - 1 \in Nat
          <6>1. PartLen(call[p]) \in Nat \ {0} /\ call[p].addr \in Nat
            BY <3>4, <5>1, Parts DEF ClientCall
          <6> QED BY <6>1 DEF EndOf
        <5>4. PICK lo \in Nat, hi \in Nat, u \in Nat :
                lo = WordOf(call[p].addr) /\ hi = WordOf(EndOf(call[p]) - 1) /\ u = MIN_RW_SIZE
          BY <5>2, <5>3, WordFacts, RamConstants
        <5>5. lo <= a /\ a + n <= hi + u
          BY <4>1, <5>1, <5>4
        <5>6. lo <= b /\ b < hi + u
          BY <4>3, <5>5
        <5> QED BY <3>4, <5>1, <5>4, <5>6, NearBy
      <4>6. mem'[b] = mem[b]
        <5>1. ASSUME mem'[b] # mem[b] PROVE FALSE
          <6>1. call[w].kind = "write" /\ Near(call[w].req, b)
            BY <2>3, <4>4, <5>1
          <6> QED BY <1>1, <1>3, <2>1, <3>3, <4>5, <6>1, NotNear
        <5> QED BY <5>1
      <4>7. mem[a + i] = x.data[i + 1]
        BY <3>2, <3>5, <4>1 DEF Served
      <4> QED BY <4>1, <4>2, <4>6, <4>7
    <3> QED BY <1>2, <3>1, <3>5 DEF Served
  <2>9. ASSUME NEW b \in Byte PROVE LastIs(b)'
    <3>1. LastIs(b)
      BY <1>16, <2>1 DEF RamKept
    <3>2. ASSUME NEW q \in Procs, Writes(q, b) PROVE Writes(q, b)'
      BY <1>1, <1>9, <1>10, <1>11, <3>2 DEF Writes
    <3>3. CASE mem'[b] = mem[b]
      BY <1>2, <3>1, <3>2, <3>3 DEF LastIs
    <3>4. CASE mem'[b] # mem[b]
      <4>1. Writes(w, b)
        BY <1>1, <1>3, <1>5, <1>13, <1>15, <3>4 DEF Writes
      <4> QED BY <1>3, <3>2, <4>1 DEF LastIs
    <3> QED BY <3>3, <3>4
  <2> QED BY <2>2, <2>6, <2>7, <2>8, <2>9
<1> QED BY <1>2, <1>14, <1>16 DEF RamInv, RamKept

(* Every step keeps the invariant. *)
LEMMA RamStep ==
  ASSUME RamInv, [RamNext]_ramVars
  PROVE  RamInv'
<1>1. CASE UNCHANGED ramVars
  <2>1. mem' = mem /\ call' = call /\ serving' = serving /\ contended' = contended /\ last' = last
    BY <1>1 DEF ramVars
  <2>2. RamTypeOK'
    BY <2>1 DEF RamInv, RamTypeOK
  <2>3. RamKept'
    BY <2>1 DEF RamInv, RamKept, ClientsApart, LastIs, Writes
  <2> QED BY <2>2, <2>3 DEF RamInv
<1>2. CASE \E p \in RamClients : ClientCalls(p) \/ Receive(p) \/ RamTimeOut(p)
  BY <1>2, ClientCallsKeeps, ReceiveKeeps, TimeOutKeeps
<1>3. CASE \E w \in RamWorkers : WorkerCalls(w) \/ WorkerPage(w)
  BY <1>3, WorkerCallsKeeps, WorkerPageKeeps
<1>4. CASE ServePage
  BY <1>4, ServePageKeeps
<1>5. CASE \E p \in Procs : Return(p)
  BY <1>5, ReturnKeeps
<1> QED BY <1>1, <1>2, <1>3, <1>4, <1>5 DEF RamNext

(* The invariant says what the memory has. *)
LEMMA RamInvIs ==
  ASSUME RamInv
  PROVE  MemoryIsTheWrites
<1> SUFFICES ASSUME ~contended
             PROVE  /\ \A b \in Byte :
                         \/ last[b] = Unknown
                         \/ \E p \in Procs : call[p] # Idle /\ call[p].kind = "write" /\ Covers(call[p].req, b)
                         \/ mem[b] = last[b]
                    /\ \A p \in RamClients :
                         call[p] # Idle /\ call[p].kind = "read" /\ call[p].step = "done" =>
                           /\ Len(call[p].got) = Len(call[p].req.data)
                           /\ \A i \in DOMAIN call[p].got :
                                last[call[p].req.addr + i - 1] \in {Unknown, call[p].got[i]}
  BY DEF MemoryIsTheWrites
<1>1. \A b \in Byte :
        \/ last[b] = Unknown
        \/ \E p \in Procs : call[p] # Idle /\ call[p].kind = "write" /\ Covers(call[p].req, b)
        \/ mem[b] = last[b]
  BY DEF RamInv, RamKept, LastIs, Writes
<1>2. ASSUME NEW p \in RamClients, call[p] # Idle, call[p].kind = "read", call[p].step = "done"
      PROVE  /\ Len(call[p].got) = Len(call[p].req.data)
             /\ \A i \in DOMAIN call[p].got :
                  last[call[p].req.addr + i - 1] \in {Unknown, call[p].got[i]}
  <2>1. PICK c : c = call[p]
    OBVIOUS
  <2>2. c \in ClientCall /\ InOrder(c) /\ Kept(c, mem, last) /\ c.kind = "read" /\ c.step = "done"
    BY <1>2, <2>1 DEF RamInv, RamTypeOK, RamKept, CallOK
  <2>3. PICK a \in Nat, from \in Nat, n \in Nat, g \in Nat :
          a = c.addr /\ from = c.req.addr /\ n = Len(c.req.data) /\ g = Len(c.got)
    <3>1. c.addr \in Nat /\ c.req \in Requests /\ Len(c.got) \in Nat
      BY <2>2 DEF ClientCall
    <3> QED BY <3>1 DEF Requests
  <2>4. a = from + n /\ g = a - from /\ (from < a => a <= MEM_SIZE)
    <3>1. Len(c.rest) = 0 /\ c.addr + Len(c.rest) = c.req.addr + Len(c.req.data)
          /\ Len(c.got) = c.addr - c.req.addr /\ (c.req.addr < c.addr => c.addr <= MEM_SIZE)
      BY <2>2 DEF InOrder
    <3> QED BY <2>3, <3>1
  <2>5. g = n
    BY <2>4
  <2>6. ASSUME NEW i \in DOMAIN c.got PROVE last[from + i - 1] \in {Unknown, c.got[i]}
    <3>1. i \in 1 .. g
      <4>1. c.got \in Seq(Int)
        BY <2>2 DEF ClientCall
      <4> QED BY <2>3, <4>1
    <3>2. PICK b \in Nat : b = from + i - 1 /\ from <= b /\ b < a /\ b - from + 1 = i
      BY <2>4, <3>1
    <3>3. b \in Byte
      <4>1. MEM_SIZE \in Nat
        BY RamConstants
      <4>2. b < MEM_SIZE
        BY <2>4, <3>2, <4>1
      <4> QED BY <4>2, BytesAreNat
    <3>4. last[b] \in {Unknown, c.got[b - c.req.addr + 1]}
      BY <2>2, <2>3, <3>2, <3>3 DEF Kept
    <3> QED BY <2>3, <3>2, <3>4
  <2> QED BY <2>1, <2>3, <2>5, <2>6
<1> QED BY <1>1, <1>2

(* As long as no two calls, of clients or of the emulator's capture units, *)
(* have met in a word while one of them wrote: every byte holds what the   *)
(* last write to it wrote, and a read returns that, whatever their         *)
(* addresses and lengths, although packets have whole words and the memory *)
(* is reached page by page (udpaccess.py, upldispatcher.py, hbm.py).       *)
THEOREM MemoryHoldsTheWrites == RamSpec => []MemoryIsTheWrites
<1>1. RamInit => RamInv
  BY RamStarts
<1>2. RamInv /\ [RamNext]_ramVars => RamInv'
  BY RamStep
<1>3. RamInv => MemoryIsTheWrites
  BY RamInvIs
<1> QED BY <1>1, <1>2, <1>3, PTL DEF RamSpec
=============================================================================
