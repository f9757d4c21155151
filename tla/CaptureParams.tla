--------------------------- MODULE CaptureParams ---------------------------
(***************************************************************************)
(* Capture parameters and what a capture unit stores for them: the object  *)
(* (captureparam.py), the registers it is written to and the checks before *)
(* (capturectrl.py), the capture of the emulator (capture.py), its signal  *)
(* processing (dspmodule.py), and the data the client reads.               *)
(*                                                                         *)
(* The value of a sample is the set of the samples of the wave that are    *)
(* added up in it: filters, windows and decision functions change what is  *)
(* made of a sample and not which one it is, and are left out with their   *)
(* coefficients.  {} is a zero, {-1} what memory held before, or no data.  *)
(* Positions count from 0.                                                 *)
(***************************************************************************)
EXTENDS HwDefs, HwParam, RunningSums, SequencesExt, FiniteSetsExt, Functions

CONSTANTS
  Sections,              \* arguments of add_sum_section
  IntegCounts, UnitSets, SumStarts, SumCounts, Delays,   \* other arguments
  OldSections,           \* sections whose lengths earlier parameters left behind
  WaveLen,               \* samples of the wave that is captured
  MAX_SUM_SECTIONS, MAX_INTEG_SECTIONS, MAX_SUM_SECTION_LEN,
  MAX_INTEG_VEC_ELEMS, CAPTURE_START_DELAY

ASSUME CaptureConstants ==
  /\ MAX_INTEG_VEC_ELEMS \in Nat /\ (4 * MAX_INTEG_VEC_ELEMS + 3) * 8 <= MAX_CAPTURE_SIZE
  /\ MAX_SUM_SECTION_LEN \in Nat \ {0} /\ MAX_SUM_SECTIONS \in Nat /\ MAX_INTEG_SECTIONS \in Nat
  /\ CAPTURE_START_DELAY \in Nat /\ WaveLen \in Nat
  /\ CAPTURE_RAM_WORD_SIZE >= 8
  /\ Sections \subseteq Int \X Int
  /\ Delays \subseteq Int /\ SumStarts \subseteq Int /\ SumCounts \subseteq Int

VARIABLES
  param,     \* the CaptureParam object
  regs,      \* the parameter registers of the unit
  stored,       \* the words that the unit has written to its area
  captured,  \* NUM_CAPTURED_SAMPLES
  taken,     \* the parameters that the capture was asked for (for the properties)
  got        \* what the client read, or NoData

captureVars == <<param, regs, stored, captured, taken, got>>

NUM_SAMPLES_IN_ADC_WORD == 4
CAPTURED_SAMPLE_SIZE == 8
NoParam == [units |-> {}]
NoData == <<{-1}>>
NothingStored == <<NoData>>

(***************************************************************************)
(* Counts and sizes (captureparam.py, capturectrl.py).                     *)
(***************************************************************************)
Enabled(p, unit) == unit \in p.units

\* Of four words decimation leaves one; a rest of less is dropped.
NumWordsLeft(p, words) == IF Enabled(p, "DECIMATION") THEN words \div 4 ELSE words

SamplesOfSection(p, section) ==
  LET n == NumWordsLeft(p, section[1]) * NUM_SAMPLES_IN_ADC_WORD
  IN  IF Enabled(p, "SUM") /\ n > 0 THEN 1 ELSE n

CalcCaptureSamples(p) ==
  SumAll([j \in DOMAIN p.sections |-> SamplesOfSection(p, p.sections[j])])
    * (IF Enabled(p, "INTEGRATION") THEN 1 ELSE p.integ)

CeilDiv(n, d) == (n + d - 1) \div d

MemSize(p, n) ==
  (IF Enabled(p, "CLASSIFICATION")
   THEN CeilDiv(n * 2, CAPTURE_DATA_ALIGNMENT_SIZE * 8)
   ELSE CeilDiv(n * CAPTURED_SAMPLE_SIZE, CAPTURE_DATA_ALIGNMENT_SIZE))
  * CAPTURE_DATA_ALIGNMENT_SIZE

CalcRequiredCaptureMemSize(p) == MemSize(p, CalcCaptureSamples(p))

\* Mutant: integrated samples are not counted.
SizeOkUncounted(p, n) ==
  /\ Enabled(p, "CLASSIFICATION") => n <= MAX_CAPTURE_SIZE * 4
  /\ p.units \cap {"INTEGRATION", "CLASSIFICATION"} = {} =>
       n <= MAX_CAPTURE_SIZE \div CAPTURED_SAMPLE_SIZE

\* n, the number of samples, is one that the unit can hold.
SizeOk(p, n) ==
  /\ Enabled(p, "INTEGRATION") =>
       (IF Enabled(p, "SUM") THEN n ELSE n \div NUM_SAMPLES_IN_ADC_WORD) <= MAX_INTEG_VEC_ELEMS
  /\ Enabled(p, "CLASSIFICATION") => n <= MAX_CAPTURE_SIZE * 4
  /\ p.units \cap {"INTEGRATION", "CLASSIFICATION"} = {} =>
       n <= MAX_CAPTURE_SIZE \div CAPTURED_SAMPLE_SIZE

CheckCaptureSize(p) == SizeOk(p, CalcCaptureSamples(p))

NumSamplesToProcess(p) ==
  SumAll([j \in DOMAIN p.sections |-> (p.sections[j][1] + p.sections[j][2])])
    * NUM_SAMPLES_IN_ADC_WORD * p.integ

(***************************************************************************)
(* Registers.  Lengths are kept by section, beyond the number in use too.  *)
(***************************************************************************)
Lowest(a, b) == IF a < b THEN a ELSE b

\* set_capture_params.
RegistersOf(p, old) ==
  [numSections |-> Len(p.sections),
   sections |-> [i \in 1 .. MAX_SUM_SECTIONS |->
                   IF i <= Len(p.sections) THEN p.sections[i] ELSE old.sections[i]],
   integ |-> p.integ, units |-> p.units, delay |-> p.delay, sumStart |-> p.start,
   sumEnd |-> Lowest(p.start + p.count - 1, MAX_SUM_SECTION_LEN)]

\* Mutant: the emulator takes the end of the sum for its length.
GenCaptureParamToEnd(r) ==
  [integ |-> r.integ, sections |-> SubSeq(r.sections, 1, r.numSections), units |-> r.units,
   delay |-> r.delay, start |-> r.sumStart, count |-> r.sumEnd]

\* __gen_capture_param of the emulator.
GenCaptureParam(r) ==
  [integ |-> r.integ, sections |-> SubSeq(r.sections, 1, r.numSections), units |-> r.units,
   delay |-> r.delay, start |-> r.sumStart, count |-> r.sumEnd - r.sumStart + 1]

(***************************************************************************)
(* Signal processing (dspmodule.py).                                       *)
(***************************************************************************)
\* The wave from the block in which the delay ends, with zeros after its end.
NumSamplesToWaste(delay) ==
  CeilDiv((CAPTURE_START_DELAY + delay + 1) * NUM_SAMPLES_IN_ADC_WORD,
          NUM_SAMPLES_IN_WAVE_BLOCK) * NUM_SAMPLES_IN_WAVE_BLOCK

Input(p) ==
  [i \in 1 .. NumSamplesToProcess(p) |->
     LET position == NumSamplesToWaste(p.delay) + i - 1
     IN  IF position < WaveLen THEN {position} ELSE {}]

\* Where section k begins, counted through all integration sections from 0.
SectionStart(p, k) ==
  LET S == Len(p.sections)
      words == [j \in 1 .. S |-> p.sections[j][1] + p.sections[j][2]]
  IN  ((k \div S) * SumAll(words) + Sums(words)[k % S]) * NUM_SAMPLES_IN_ADC_WORD

\* decimation, or remove_samples_in_post_blank: the samples section by section.
Cut(p, samples) ==
  LET S == Len(p.sections)
  IN  [k \in 1 .. p.integ * S |->
         LET words == p.sections[((k - 1) % S) + 1][1]
             start == SectionStart(p, k - 1)
             step == IF Enabled(p, "DECIMATION") THEN 4 ELSE 1
         IN  [i \in 1 .. NumWordsLeft(p, words) * NUM_SAMPLES_IN_ADC_WORD |->
                samples[start + (i - 1) * step + 1]]]

Summation(p, list) ==
  [k \in DOMAIN list |->
     LET first == p.start * NUM_SAMPLES_IN_ADC_WORD
         last == Lowest((p.start + p.count) * NUM_SAMPLES_IN_ADC_WORD, Len(list[k]))
     IN  IF first < last THEN <<UNION {list[k][i] : i \in first + 1 .. last}>> ELSE <<>>]

Integration(p, list) ==
  [j \in DOMAIN p.sections |->
     [i \in DOMAIN list[j] |->
        UNION {list[k * Len(p.sections) + j][i] : k \in 0 .. p.integ - 1}]]

Dsp(p) ==
  LET cut == Cut(p, Input(p))
      summed == IF Enabled(p, "SUM") THEN Summation(p, cut) ELSE cut
  IN  FlattenSeq(IF Enabled(p, "INTEGRATION") THEN Integration(p, summed) ELSE summed)

(***************************************************************************)
(* Capture RAM: words of samples of eight bytes, or of results of two bits *)
(* four to a byte (__serialize_capture_data; classification.py).           *)
(***************************************************************************)
SlotsInWord(p) ==
  IF Enabled(p, "CLASSIFICATION") THEN CAPTURE_RAM_WORD_SIZE * 4
  ELSE CAPTURE_RAM_WORD_SIZE \div CAPTURED_SAMPLE_SIZE

Words(p, data) ==
  LET n == SlotsInWord(p)
  IN  [w \in 1 .. CeilDiv(Len(data), n) |->
         [i \in 1 .. n |-> LET k == (w - 1) * n + i IN IF k <= Len(data) THEN data[k] ELSE {}]]

\* get_capture_data and get_classification_results: whole words are read, and
\* the first n of their slots are the result.  Words that the unit did not write
\* are what they were.
ReadData(p, words, n) ==
  LET m == SlotsInWord(p)
      w(k) == ((k - 1) \div m) + 1
  IN  [k \in 1 .. n |-> IF w(k) <= Len(words) THEN words[w(k)][((k - 1) % m) + 1] ELSE {-1}]

(***************************************************************************)
(* Operations.                                                             *)
(***************************************************************************)
InitialParam ==
  [integ |-> 1, sections |-> <<>>, units |-> {}, delay |-> 0, start |-> 0,
   count |-> MAX_SUM_SECTION_LEN]

CaptureInit ==
  /\ param = InitialParam
  /\ regs \in {RegistersOf(InitialParam, [sections |-> [i \in 1 .. MAX_SUM_SECTIONS |-> s]]) :
                 s \in OldSections}
  /\ stored = NothingStored /\ captured = 0 /\ taken = NoParam /\ got = NoData

Change(p) == taken = NoParam /\ param' = p /\ UNCHANGED <<regs, stored, captured, taken, got>>

AddSumSection(s) ==
  /\ Len(param.sections) < MAX_SUM_SECTIONS
  /\ s[1] \in 1 .. MAX_SUM_SECTION_LEN /\ s[2] >= 1
  /\ Change([param EXCEPT !.sections = Append(@, s)])

\* A negative index counts from the end.
DelSumSection(i) ==
  /\ i \in -Len(param.sections) .. Len(param.sections) - 1
  /\ Change([param EXCEPT !.sections = RemoveAt(@, IF i < 0 THEN Len(@) + i + 1 ELSE i + 1)])

ClearSumSections == Change([param EXCEPT !.sections = <<>>])

SetNumIntegSections(n) ==
  n \in 1 .. MAX_INTEG_SECTIONS /\ Change([param EXCEPT !.integ = n])

SelDspUnitsToEnable(units) == units \subseteq DspUnit /\ Change([param EXCEPT !.units = units])

SetCaptureDelay(n) == n >= 0 /\ Change([param EXCEPT !.delay = n])

SetSumStartWordNo(n) ==
  n \in 0 .. MAX_SUM_SECTION_LEN /\ Change([param EXCEPT !.start = n])

SetNumWordsToSum(n) == n >= 1 /\ Change([param EXCEPT !.count = n])

SetCaptureParams ==
  /\ taken = NoParam
  /\ CheckCaptureSize(param)
  /\ regs' = RegistersOf(param, regs)
  /\ taken' = param
  /\ UNCHANGED <<param, stored, captured, got>>

\* The unit is started, and writes samples and their number.
CaptureWave ==
  LET p == GenCaptureParam(regs)
  IN  /\ taken # NoParam /\ stored = NothingStored
      /\ stored' = Words(p, Dsp(p))
      /\ captured' = CalcCaptureSamples(p)
      /\ UNCHANGED <<param, regs, taken, got>>

\* The client reads as many as the unit says it has stored.
GetCaptureData ==
  /\ stored # NothingStored /\ got = NoData
  /\ got' = ReadData(taken, stored, captured)
  /\ UNCHANGED <<param, regs, stored, captured, taken>>

CaptureNext ==
  \/ \E s \in Sections : AddSumSection(s)
  \/ \E i \in {-1, 0} : DelSumSection(i)
  \/ ClearSumSections
  \/ \E n \in IntegCounts : SetNumIntegSections(n)
  \/ \E units \in UnitSets : SelDspUnitsToEnable(units)
  \/ \E n \in Delays : SetCaptureDelay(n)
  \/ \E n \in SumStarts : SetSumStartWordNo(n)
  \/ \E n \in SumCounts : SetNumWordsToSum(n)
  \/ SetCaptureParams \/ CaptureWave \/ GetCaptureData

CaptureSpec == CaptureInit /\ [][CaptureNext]_captureVars

(***************************************************************************)
(* Properties.                                                             *)
(***************************************************************************)
\* The samples of section j of integration section i that are kept, by number:
\* a block of the wave is awaited, blanks are left out, and decimation keeps
\* one sample of four in groups of four words.
KeptSample(p, i, j, n) ==
  LET section == i * Len(p.sections) + j - 1
      delay == (CAPTURE_START_DELAY + p.delay + 1) * 4
      from == CHOOSE b \in delay .. delay + NUM_SAMPLES_IN_WAVE_BLOCK - 1 :
                b % NUM_SAMPLES_IN_WAVE_BLOCK = 0
      position == from + SectionStart(p, section) + n * (IF Enabled(p, "DECIMATION") THEN 4 ELSE 1)
  IN  IF position < WaveLen THEN {position} ELSE {}

KeptCount(p, j) == 4 * NumWordsLeft(p, p.sections[j][1])

\* The words of a section that are summed are those from start, count many.
Summed(p, j) == {n \in 0 .. KeptCount(p, j) - 1 : n \div 4 \in p.start .. p.start + p.count - 1}

\* What section j of integration section i gives.
Results(p, i, j) ==
  IF Enabled(p, "SUM") THEN <<UNION {KeptSample(p, i, j, n) : n \in Summed(p, j)}>>
  ELSE [n \in 1 .. KeptCount(p, j) |-> KeptSample(p, i, j, n - 1)]

Meant(p) ==
  LET S == Len(p.sections)
      parts(i) == FlattenSeq([j \in 1 .. S |->
                    IF KeptCount(p, j) = 0 THEN <<>> ELSE Results(p, i, j)])
  IN  IF Enabled(p, "INTEGRATION")
      THEN [n \in DOMAIN parts(0) |-> UNION {parts(i)[n] : i \in 0 .. p.integ - 1}]
      ELSE FlattenSeq([i \in 1 .. p.integ |-> parts(i - 1)])

\* The range of words to sum begins inside each section.
SumReachesSections(p) ==
  Enabled(p, "SUM") => \A j \in DOMAIN p.sections :
                         KeptCount(p, j) > 0 => p.start < KeptCount(p, j) \div 4

\* What a client reads after a capture is what its parameters mean, sample by
\* sample, whatever parameters were set before: registers, cutting, decimation,
\* sum, integration, packing and the two computations of the number agree
\* (captureparam.py:391 calc_capture_samples, dspmodule.py:7 dsp,
\* capture.py:100, capturectrl.py:846).  Where the range to sum begins after the
\* end of a section the number counts a sum that is not stored.
DataIsTheCapture ==
  got # NoData /\ SumReachesSections(taken) => got = Meant(taken)

\* Parameters that set_capture_params accepts need no more memory than the area
\* of a unit (capturectrl.py:1123 against captureparam.py:421).
AcceptedFits == taken # NoParam => CalcRequiredCaptureMemSize(taken) <= MAX_CAPTURE_SIZE
=============================================================================
