------------------------- MODULE SequencerCommands -------------------------
(***************************************************************************)
(* The commands of the sequencer and the reports of their errors           *)
(* (sequencercmd.py, CmdErrReceiver in udpaccess.py).                      *)
(*                                                                         *)
(* A command object is a record of its arguments.  Its constructor checks  *)
(* them (XxxOk) and lays them out in a word of 16 bytes (XxxFields): a     *)
(* field is its position, its width and the bits put there.  The width is  *)
(* that of the sequencer, which reads the word back; the code only shifts  *)
(* and ors, so a value that is too wide would spill into the next field.   *)
(* A list of ids is its set: order and repetition do not reach the word.   *)
(* A time is a sign and the bits of its magnitude; a key table is          *)
(* [int |-> k] or [list |-> <<...>>], as the argument is an int or a list. *)
(* Types of arguments and the text of messages are left out.               *)
(***************************************************************************)
EXTENDS HwDefs, HwParam, Sequences, RunningSums

CONSTANTS
  Candidates,        \* records of arguments that constructors are called with
  Reports,           \* errors that the sequencer may report, of any class
  MAX_CMD_NO,
  MaxEntries         \* MAX_WAVE_ and MAX_CAPTURE_PARAM_REGISTRY_ENTRIES

\* What the sequencer may say of a command of each class (the first field is the
\* id, the number is filled in when it is reported).
IsReport(e) ==
  \/ e \in [id : {1}, no : Nat, terminated : BOOLEAN, awgs : SUBSET AWG]
  \/ e \in [id : {2}, no : Nat, terminated : BOOLEAN, units : SUBSET CaptureUnit,
            inTime : BOOLEAN]
  \/ e \in [id : {3, 4}, no : Nat, terminated : BOOLEAN, readErr : BOOLEAN, writeErr : BOOLEAN]
  \/ e \in [id : {5}, no : Nat, terminated : BOOLEAN, writeErr : BOOLEAN]
  \/ e \in [id : {6}, no : Nat, terminated : BOOLEAN, readErr : BOOLEAN]
  \/ e \in [id : {7}, no : Nat, terminated : BOOLEAN, awgs : SUBSET AWG, inTime : BOOLEAN]
  \/ e \in [id : {8}, no : Nat, terminated : BOOLEAN, awgs : SUBSET AWG, readErr : BOOLEAN,
            writeErr : BOOLEAN]
  \/ e \in [id : {9}, no : Nat, terminated : BOOLEAN]
  \/ /\ e \in [id : {10}, no : Nat, terminated : BOOLEAN, outOfRange : BOOLEAN, counter : Int]
     /\ -(2 ^ 30) - (2 ^ 30) <= e.counter /\ e.counter - (2 ^ 30) < 2 ^ 30
  \/ e \in [id : {11}, no : Nat, terminated : BOOLEAN, awgs : SUBSET AWG, readErr : BOOLEAN,
            writeErr : BOOLEAN, timeoutErr : BOOLEAN]

\* There are eleven classes of commands; a place in a word of capture RAM has 7
\* bits, and an offset in the area of a capture unit no more than 31.
ASSUME CommandConstants ==
  /\ MAX_CMD_NO \in Nat /\ MAX_CMD_NO <= 65535 /\ MaxEntries \in 1 .. 1024
  /\ CAPTURE_RAM_WORD_SIZE <= 32 /\ MAX_CAPTURE_SIZE <= 2 ^ 30
  /\ \A c \in Candidates : c.id \in 1 .. 11
  /\ \A e \in Reports : IsReport(e)

VARIABLES
  cmd,     \* the last command constructed, or NoCommand
  word,    \* its 16 bytes, as a set of bits
  sent,    \* the error that the sequencer reports, or NoReport
  report,  \* the report's 16 bytes
  parsed   \* what the receiver made of it, or NoReport

commandVars == <<cmd, word, sent, report, parsed>>

NoCommand == [id |-> 0]
NoReport == [id |-> 0]

Field(at, width, bits) == [at |-> at, width |-> width, bits |-> bits]

\* The bits of a word made of fields: each is shifted to its place and or-ed.
Word(fields) == UNION {At(f.at, f.bits) : f \in fields}

(***************************************************************************)
(* Parts that several commands share.                                      *)
(***************************************************************************)
HeaderOk(c) == c.no \in 0 .. MAX_CMD_NO
HeaderFields(c) ==
  {Field(0, 1, Flag(c.stop)), Field(1, 7, BitsOf(c.id)), Field(8, 16, BitsOf(c.no))}

IdsOk(ids, all) == ids # {} /\ ids \subseteq all

KeysOk(keys) ==
  IF "int" \in DOMAIN keys
  THEN keys.int \in 0 .. MaxEntries - 1
  ELSE /\ Len(keys.list) = 4
       /\ \A i \in 1 .. 4 : keys.list[i] \in 0 .. MaxEntries - 1

KeyTable(keys) ==
  IF "int" \in DOMAIN keys THEN [i \in 1 .. 4 |-> keys.int] ELSE keys.list

\* Mutant: nine bits for a key.
KeyFieldsTight(at, keys) ==
  {Field(at + 9 * (i - 1), 10, BitsOf(KeyTable(keys)[i])) : i \in 1 .. 4}

KeyFields(at, keys) ==
  {Field(at + 10 * (i - 1), 10, BitsOf(KeyTable(keys)[i])) : i \in 1 .. 4}

\* 0 <= time <= MAX, where MAX has so many one bits
TimeOk(time, bits) == ~time.negative /\ time.bits \subseteq 0 .. bits - 1

OffsetOk(c) == c.offset \in 0 .. MAX_CAPTURE_SIZE - 1

(***************************************************************************)
(* The commands, by their id.                                              *)
(***************************************************************************)
\* A negative start time means at once, and is sent as 64 ones.
StartTime(time) == IF time.negative THEN 0 .. 63 ELSE time.bits

AwgStartOk(c) == IdsOk(c.awgs, AWG) /\ (c.time.negative \/ TimeOk(c.time, 63))
AwgStartFields(c) ==
  {Field(24, 16, c.awgs), Field(40, 64, StartTime(c.time)), Field(104, 1, Flag(c.wait))}

CaptureEndFenceOk(c) == IdsOk(c.units, CaptureUnit) /\ TimeOk(c.time, 63)
CaptureEndFenceFields(c) ==
  {Field(24, 10, c.units), Field(40, 64, c.time.bits),
   Field(104, 1, Flag(c.terminate)), Field(105, 1, Flag(c.wait))}

WaveSequenceSetOk(c) ==
  IdsOk(c.awgs, AWG) /\ c.channel \in FeedbackChannel /\ KeysOk(c.keys)
WaveSequenceSetFields(c) ==
  {Field(24, 16, c.awgs), Field(40, 4, BitsOf(c.channel))} \cup KeyFields(44, c.keys)

CaptureParamSetOk(c) ==
  /\ IdsOk(c.units, CaptureUnit) /\ c.channel \in FeedbackChannel
  /\ IdsOk(c.elems, CaptureParamElem) /\ KeysOk(c.keys)
CaptureParamSetFields(c) ==
  {Field(24, 10, c.units), Field(40, 4, BitsOf(c.channel)), Field(44, 16, c.elems)}
    \cup KeyFields(60, c.keys)

CaptureAddrSetOk(c) ==
  /\ IdsOk(c.units, CaptureUnit) /\ OffsetOk(c)
  /\ c.offset % CAPTURE_DATA_ALIGNMENT_SIZE = 0
CaptureAddrSetFields(c) == {Field(24, 10, c.units), Field(40, 36, BitsOf(c.offset))}

\* The bit address of a classification result of two bits.
BitOffset(c) == c.offset * 8 + c.elem * 2

FeedbackCalcOnClassificationOk(c) ==
  /\ IdsOk(c.units, CaptureUnit) /\ OffsetOk(c)
  /\ c.elem \in 0 .. MAX_CAPTURE_SIZE * 4 - 1
  /\ BitOffset(c) < MAX_CAPTURE_SIZE * 8

\* The word of capture RAM it lies in, and its place in that word.
WordOffset(c) == (BitOffset(c) \div (CAPTURE_RAM_WORD_SIZE * 8)) * CAPTURE_RAM_WORD_SIZE
ElemOffset(c) == (BitOffset(c) % (CAPTURE_RAM_WORD_SIZE * 8)) \div 2

FeedbackCalcOnClassificationFields(c) ==
  {Field(24, 10, c.units), Field(40, 36, BitsOf(WordOffset(c))),
   Field(76, 7, BitsOf(ElemOffset(c)))}

WaveGenEndFenceOk(c) == IdsOk(c.awgs, AWG) /\ TimeOk(c.time, 63)
WaveGenEndFenceFields(c) ==
  {Field(24, 16, c.awgs), Field(40, 64, c.time.bits),
   Field(104, 1, Flag(c.terminate)), Field(105, 1, Flag(c.wait))}

ResponsiveFeedbackOk(c) == IdsOk(c.awgs, AWG) /\ (c.time.negative \/ TimeOk(c.time, 63))
ResponsiveFeedbackFields(c) ==
  {Field(24, 16, c.awgs), Field(40, 64, StartTime(c.time)), Field(104, 1, Flag(c.wait))}

WaveSequenceSelectionOk(c) ==
  /\ IdsOk(c.awgs, AWG) /\ c.channel \in FourClassifierChannel /\ KeysOk(c.keys)
  /\ c.trig => c.channel = 0
WaveSequenceSelectionFields(c) ==
  {Field(24, 16, c.awgs), Field(40, 4, BitsOf(c.channel)), Field(127, 1, Flag(c.trig))}
    \cup KeyFields(44, c.keys)

BranchByFlagOk(c) == c.step \in Int /\ -32768 <= c.step /\ c.step <= 32767
BranchByFlagFields(c) == {Field(24, 16, BitsOf(c.step % 65536))}

\* A negative timeout passes the check and fails in to_bytes().
AwgStartWithExtTrigAndClsValOk(c) == IdsOk(c.awgs, AWG) /\ TimeOk(c.time, 64)
AwgStartWithExtTrigAndClsValFields(c) ==
  {Field(24, 16, c.awgs), Field(40, 64, c.time.bits), Field(104, 1, Flag(c.wait))}

Accepted(c) ==
  /\ HeaderOk(c)
  /\ CASE c.id = 1  -> AwgStartOk(c)
       [] c.id = 2  -> CaptureEndFenceOk(c)
       [] c.id = 3  -> WaveSequenceSetOk(c)
       [] c.id = 4  -> CaptureParamSetOk(c)
       [] c.id = 5  -> CaptureAddrSetOk(c)
       [] c.id = 6  -> FeedbackCalcOnClassificationOk(c)
       [] c.id = 7  -> WaveGenEndFenceOk(c)
       [] c.id = 8  -> ResponsiveFeedbackOk(c)
       [] c.id = 9  -> WaveSequenceSelectionOk(c)
       [] c.id = 10 -> BranchByFlagOk(c)
       [] c.id = 11 -> AwgStartWithExtTrigAndClsValOk(c)

Fields(c) ==
  HeaderFields(c) \cup
  CASE c.id = 1  -> AwgStartFields(c)
    [] c.id = 2  -> CaptureEndFenceFields(c)
    [] c.id = 3  -> WaveSequenceSetFields(c)
    [] c.id = 4  -> CaptureParamSetFields(c)
    [] c.id = 5  -> CaptureAddrSetFields(c)
    [] c.id = 6  -> FeedbackCalcOnClassificationFields(c)
    [] c.id = 7  -> WaveGenEndFenceFields(c)
    [] c.id = 8  -> ResponsiveFeedbackFields(c)
    [] c.id = 9  -> WaveSequenceSelectionFields(c)
    [] c.id = 10 -> BranchByFlagFields(c)
    [] c.id = 11 -> AwgStartWithExtTrigAndClsValFields(c)

(***************************************************************************)
(* Reports of errors.  ReportFields is where the sequencer puts what it    *)
(* has to tell; Parsed is what the receiver thread reads.                  *)
(***************************************************************************)
\* The number of at most 36 bits, the widest that a command has.
Number(bits) == SumAll([i \in 1 .. 36 |-> IF i - 1 \in bits THEN 2 ^ (i - 1) ELSE 0])

\* (val ^ 0x80000000) - 0x80000000
ToInt32(bits) == IF 31 \in bits THEN -Number((0 .. 31) \ bits) - 1 ELSE Number(bits)
Int32Bits(n) == IF n < 0 THEN (0 .. 31) \ BitsOf(-n - 1) ELSE BitsOf(n)

ReportFields(e) ==
  {Field(0, 1, Flag(e.terminated)), Field(1, 7, BitsOf(e.id)), Field(8, 16, BitsOf(e.no))}
  \cup CASE e.id = 1  -> {Field(24, 16, e.awgs)}
         [] e.id = 2  -> {Field(24, 10, e.units), Field(34, 1, Flag(~e.inTime))}
         [] e.id \in {3, 4} -> {Field(24, 1, Flag(e.readErr)), Field(25, 1, Flag(e.writeErr))}
         [] e.id = 5  -> {Field(25, 1, Flag(e.writeErr))}
         [] e.id = 6  -> {Field(24, 1, Flag(e.readErr))}
         [] e.id = 7  -> {Field(24, 16, e.awgs), Field(40, 1, Flag(~e.inTime))}
         [] e.id = 8  -> {Field(24, 16, e.awgs), Field(40, 1, Flag(e.readErr)),
                          Field(41, 1, Flag(e.writeErr))}
         [] e.id = 9  -> {}
         [] e.id = 10 -> {Field(24, 1, Flag(e.outOfRange)), Field(32, 32, Int32Bits(e.counter))}
         [] e.id = 11 -> {Field(24, 16, e.awgs), Field(40, 1, Flag(e.readErr)),
                          Field(41, 1, Flag(e.writeErr)), Field(42, 1, Flag(e.timeoutErr))}

\* Mutant: every class in one format.
ErrorBitOfAll(id, first) == first

\* The two commands that start AWGs by themselves report ids in bits 24 to 39,
\* so their flags come after.
ErrorBit(id, first) == IF id \in {8, 11} THEN first + 16 ELSE first

ReadErr(r, id) == ErrorBit(id, 24) \in r
WriteErr(r, id) == ErrorBit(id, 25) \in r
InTime(r, id) == IF id = 2 THEN 34 \notin r ELSE 40 \notin r

ErrAwgs(r) == {a \in AWG : 24 + a \in r}
ErrUnits(r) == {u \in CaptureUnit : 24 + u \in r}

\* The objects that the receiver makes of a report, one class a definition.
CmdId(r) == Number(Slice(r, 1, 7))
CmdNo(r) == Number(Slice(r, 8, 16))
Terminated(r) == 0 \in r

AwgStartCmdErr(r) ==
  [id |-> CmdId(r), no |-> CmdNo(r), terminated |-> Terminated(r), awgs |-> ErrAwgs(r)]
CaptureEndFenceCmdErr(r) ==
  [id |-> CmdId(r), no |-> CmdNo(r), terminated |-> Terminated(r), units |-> ErrUnits(r),
   inTime |-> InTime(r, 2)]
WaveSequenceSetCmdErr(r) ==
  [id |-> CmdId(r), no |-> CmdNo(r), terminated |-> Terminated(r), readErr |-> ReadErr(r, 3),
   writeErr |-> WriteErr(r, 3)]
CaptureParamSetCmdErr(r) ==
  [id |-> CmdId(r), no |-> CmdNo(r), terminated |-> Terminated(r), readErr |-> ReadErr(r, 4),
   writeErr |-> WriteErr(r, 4)]
CaptureAddrSetCmdErr(r) ==
  [id |-> CmdId(r), no |-> CmdNo(r), terminated |-> Terminated(r), writeErr |-> WriteErr(r, 5)]
FeedbackCalcOnClassificationCmdErr(r) ==
  [id |-> CmdId(r), no |-> CmdNo(r), terminated |-> Terminated(r), readErr |-> ReadErr(r, 6)]
WaveGenEndFenceCmdErr(r) ==
  [id |-> CmdId(r), no |-> CmdNo(r), terminated |-> Terminated(r), awgs |-> ErrAwgs(r),
   inTime |-> InTime(r, 7)]
ResponsiveFeedbackCmdErr(r) ==
  [id |-> CmdId(r), no |-> CmdNo(r), terminated |-> Terminated(r), awgs |-> ErrAwgs(r),
   readErr |-> ReadErr(r, 8), writeErr |-> WriteErr(r, 8)]
WaveSequenceSelectionCmdErr(r) ==
  [id |-> CmdId(r), no |-> CmdNo(r), terminated |-> Terminated(r)]
BranchByFlagCmdErr(r) ==
  [id |-> CmdId(r), no |-> CmdNo(r), terminated |-> Terminated(r), outOfRange |-> 24 \in r,
   counter |-> ToInt32(Slice(r, 32, 32))]
AwgStartWithExtTrigAndClsValCmdErr(r) ==
  [id |-> CmdId(r), no |-> CmdNo(r), terminated |-> Terminated(r), awgs |-> ErrAwgs(r),
   readErr |-> ReadErr(r, 11), writeErr |-> WriteErr(r, 11), timeoutErr |-> 42 \in r]

Parsed(r) ==
  LET id == CmdId(r)
  IN  CASE id = 1  -> AwgStartCmdErr(r)
        [] id = 2  -> CaptureEndFenceCmdErr(r)
        [] id = 3  -> WaveSequenceSetCmdErr(r)
        [] id = 4  -> CaptureParamSetCmdErr(r)
        [] id = 5  -> CaptureAddrSetCmdErr(r)
        [] id = 6  -> FeedbackCalcOnClassificationCmdErr(r)
        [] id = 7  -> WaveGenEndFenceCmdErr(r)
        [] id = 8  -> ResponsiveFeedbackCmdErr(r)
        [] id = 9  -> WaveSequenceSelectionCmdErr(r)
        [] id = 10 -> BranchByFlagCmdErr(r)
        [] id = 11 -> AwgStartWithExtTrigAndClsValCmdErr(r)

(***************************************************************************)
(* A command is made and sent; the sequencer may report that it failed.    *)
(***************************************************************************)
CommandInit ==
  /\ cmd = NoCommand /\ word = {} /\ sent = NoReport /\ report = {} /\ parsed = NoReport

\* A constructor that does not raise, and serialize().  A behaviour follows one
\* command.
Construct(c) ==
  /\ cmd = NoCommand
  /\ Accepted(c)
  /\ cmd' = c /\ word' = Word(Fields(c))
  /\ UNCHANGED <<sent, report, parsed>>

\* The sequencer copies id and number of the command it could not process.
ReportError(e) ==
  /\ e.id = CmdId(word) /\ sent = NoReport
  /\ sent' = [e EXCEPT !.no = CmdNo(word)]
  /\ report' = Word(ReportFields(sent'))
  /\ UNCHANGED <<cmd, word, parsed>>

ParseReport ==
  /\ sent # NoReport /\ parsed = NoReport
  /\ parsed' = Parsed(report)
  /\ UNCHANGED <<cmd, word, sent, report>>

CommandNext ==
  \/ \E c \in Candidates : Construct(c)
  \/ \E e \in Reports : ReportError(e)
  \/ ParseReport

CommandSpec == CommandInit /\ [][CommandNext]_commandVars

(***************************************************************************)
(* Properties.                                                             *)
(***************************************************************************)
\* What the sequencer reads in a field is what the constructor was given: no
\* accepted argument spills into another field or out of the 16 bytes, and the
\* word and element that a feedback command names are the classification result
\* that its two offsets mean (sequencercmd.py, __gen_cmd_bytes of each class).
CommandReadBack ==
  cmd # NoCommand =>
    /\ word \subseteq 0 .. 127
    /\ \A f \in Fields(cmd) : Slice(word, f.at, f.width) = f.bits
    /\ cmd.id = 6 =>
         Number(Slice(word, 40, 36)) * 8 + Number(Slice(word, 76, 7)) * 2
           = cmd.offset * 8 + cmd.elem * 2

\* A report is about the command that failed and says of it what the sequencer
\* said: the flags and ids of a class are read where that class has them
\* (udpaccess.py, __gen_seq_cmd_err_from_bytes).
ReportTellsTheError ==
  parsed # NoReport => /\ parsed = sent
                       /\ parsed.id = cmd.id /\ parsed.no = cmd.no
=============================================================================
