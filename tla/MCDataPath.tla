----------------------------- MODULE MCDataPath -----------------------------
(* The modules about what is sent, stored and computed, one at a time: a    *)
(* behaviour has one subject, and the variables of the others keep still.   *)
EXTENDS SequencerCommands, WaveSamples, CaptureParams, CaptureFilters, WaveRam,
        AddressMap, MCWaveStore

CONSTANTS
  Subjects,   \* which modules are checked
  v1

VARIABLE subject

dataVars == <<subject, commandVars, waveVars, captureVars, filterVars, ramVars, mapVars,
              storeVars, arguments>>

-----------------------------------------------------------------------------
(* Commands: arguments at both sides of each limit. *)
Positive(bits) == [negative |-> FALSE, bits |-> bits]

Times1 == {[negative |-> TRUE, bits |-> {0}], Positive({}), Positive(0 .. 62),
           Positive({63}), Positive({64})}
Nos == {-1, 0, 258, 65535, 65536}
AwgLists == {{}, {0}, 0 .. 15, {16}}
UnitLists == {{}, {9}, 0 .. 9, {10}}
KeyArgs ==
  {[int |-> k] : k \in {-1, 0, 511, 512}} \cup
  {[list |-> l] : l \in {<<1, 2>>, <<511, 0, 511, 0>>, <<0, 511, 0, 256>>, <<0, 1, 2, 512>>}}

MCCandidates ==
  UNION {
    [id : {1, 8, 11}, no : Nos, stop : BOOLEAN, awgs : AwgLists, time : Times1, wait : BOOLEAN],
    [id : {2}, no : {65535}, stop : BOOLEAN, units : UnitLists, time : Times1, wait : BOOLEAN,
     terminate : BOOLEAN],
    [id : {7}, no : {65535}, stop : BOOLEAN, awgs : AwgLists, time : Times1, wait : BOOLEAN,
     terminate : BOOLEAN],
    [id : {3}, no : {65535}, stop : {TRUE}, awgs : AwgLists, channel : {0, 9, 10}, keys : KeyArgs],
    [id : {4}, no : {65535}, stop : {TRUE}, units : UnitLists,
     elems : {{}, {0}, 0 .. 10, {11}}, channel : {0, 9, 10}, keys : KeyArgs],
    [id : {5}, no : {0}, stop : BOOLEAN, units : UnitLists, offset : {-1, 0, 16, 64, 256, 320}],
    [id : {6}, no : {0}, stop : BOOLEAN, units : UnitLists,
     offset : {-1, 0, 1, 31, 33, 319, 320}, elem : {-1, 0, 3, 127, 128, 1279, 1280}],
    [id : {9}, no : {0}, stop : BOOLEAN, awgs : AwgLists, channel : {0, 9, 10}, keys : KeyArgs,
     trig : BOOLEAN],
    [id : {10}, no : {0}, stop : BOOLEAN, step : {-32769, -32768, -1, 0, 32767, 32768}]}

Some(lists) == {l \in lists : l \subseteq 0 .. 15 /\ l # {10}}

MCReports ==
  UNION {
    [id : {1}, no : {0}, terminated : BOOLEAN, awgs : Some(AwgLists)],
    [id : {2}, no : {0}, terminated : BOOLEAN, units : Some(UnitLists), inTime : BOOLEAN],
    [id : {3, 4}, no : {0}, terminated : BOOLEAN, readErr : BOOLEAN, writeErr : BOOLEAN],
    [id : {5}, no : {0}, terminated : BOOLEAN, writeErr : BOOLEAN],
    [id : {6}, no : {0}, terminated : BOOLEAN, readErr : BOOLEAN],
    [id : {7}, no : {0}, terminated : BOOLEAN, awgs : Some(AwgLists), inTime : BOOLEAN],
    [id : {8}, no : {0}, terminated : BOOLEAN, awgs : Some(AwgLists), readErr : BOOLEAN,
     writeErr : BOOLEAN],
    [id : {9}, no : {0}, terminated : BOOLEAN],
    [id : {10}, no : {0}, terminated : BOOLEAN, outOfRange : BOOLEAN,
     counter : {-1, 0, 70000, -70000}],
    [id : {11}, no : {0}, terminated : BOOLEAN, awgs : Some(AwgLists), readErr : BOOLEAN,
     writeErr : BOOLEAN, timeoutErr : BOOLEAN]}

-----------------------------------------------------------------------------
(* Samples: blocks of two words; lengths, blanks and repetitions   *)
(* out of range, and samples at both ends of theirs.                        *)
Ramp(n) == [i \in 1 .. n |-> <<i, n - i>>]
Limits == <<<<7, 0>>, <<-32768, 65535>>>> \o Ramp(6)

MCChunkArgs ==
  {Chunk(Limits, 3, 1), Chunk(Ramp(16), 0, 2), Chunk(Ramp(8), 1, 1),
   Chunk(Ramp(4), 0, 1), Chunk(<<>>, 0, 1), Chunk([Ramp(8) EXCEPT ![3] = <<1, 65536>>], 0, 1),
   Chunk(Ramp(8), -1, 1), Chunk(Ramp(8), 0, 0)}
MCIndexes == {-1, 0, 1}
MCWaitLens == {-1, 0, 2}

-----------------------------------------------------------------------------
(* Capture parameters: sections that decimation leaves words of, or none.   *)
MCUnitSets == SUBSET {"DECIMATION", "SUM", "INTEGRATION", "CLASSIFICATION"}
MCSections == {<<3, 1>>, <<8, 2>>, <<5, 1>>}
MCOldSections == {<<9, 9>>, <<1, 1>>}

-----------------------------------------------------------------------------
(* Filters: coefficients at both ends of their ranges, lists that are       *)
(* shorter or longer than the unit has; waves longer and shorter than what  *)
(* is captured.                                                             *)
MCNumCoefs == [complex_fir |-> 2, real_fir_i |-> 3, real_fir_q |-> 3, complex_window |-> 3]
MCCoefLists ==
  [complex_fir |-> {<<<<-32, 31>>>>, <<<<1, -2>>, <<3, 0>>>>, <<<<1, 1>>, <<1, 1>>, <<1, 1>>>>,
                    <<<<0, 32>>>>},
   real_fir_i |-> {<<1, -2, 3>>, <<>>},
   real_fir_q |-> {<<-32, 0, 31>>, <<-33>>},
   complex_window |-> {<<<<-512, 511>>, <<2, -1>>>>, <<<<512, 0>>>>}]
MCInputs ==
  {[i \in 1 .. 70 |-> <<((i * 7) % 5) - 2, ((i * i) % 7) - 3>>], [i \in 1 .. 20 |-> <<i % 3, 1>>]}
MCFilterUnits == SUBSET {"COMPLEX_FIR", "REAL_FIR", "COMPLEX_WINDOW", "DECIMATION"}
MCFilterSections == {<<<<4, 1>>, <<3, 2>>>>, <<<<9, 2>>>>}

-----------------------------------------------------------------------------
(* Memory: words of four bytes, packets and pages of two words.  Writes     *)
(* begin and end within words, cross words, packets and pages, or reach the *)
(* end of the memory.                                                       *)
Bytes(from, n) == [i \in 1 .. n |-> from + i]

MCRamRequests ==
  {RamWrite(3, <<1, 2>>), RamWrite(2, Bytes(10, 9)), RamWrite(8, Bytes(20, 4)), RamRead(1, 12),
   RamRead(6, 3), RamWrite(21, <<9>>)}
MCWorkerWrites == {RamWrite(4, Bytes(30, 8))}

-----------------------------------------------------------------------------
FirstShape(s) == s.filters = {} /\ s.integ = 1 /\ Len(s.sections) = 1

DataInit ==
  /\ subject \in Subjects
  /\ CommandInit /\ WaveInit /\ CaptureInit /\ RamInit
  /\ FilterInit /\ MapInit /\ MCInit
  /\ subject # "store" => arguments = DirectMaps
  /\ subject # "filters" => FirstShape(shape)
  /\ subject # "addresses" => place.space = "sequencer" /\ place.name = "CTRL"
  /\ subject # "capture" => regs.sections[1] = <<9, 9>>

DataNext ==
  /\ UNCHANGED <<subject, arguments>>
  /\ \/ /\ subject = "commands" /\ CommandNext
        /\ UNCHANGED <<waveVars, captureVars, filterVars, ramVars, mapVars, storeVars>>
     \/ /\ subject = "samples" /\ WaveNext
        /\ UNCHANGED <<commandVars, captureVars, filterVars, ramVars, mapVars, storeVars>>
     \/ /\ subject = "capture" /\ CaptureNext
        /\ UNCHANGED <<commandVars, waveVars, filterVars, ramVars, mapVars, storeVars>>
     \/ /\ subject = "filters" /\ FilterNext
        /\ UNCHANGED <<commandVars, waveVars, captureVars, ramVars, mapVars, storeVars>>
     \/ /\ subject = "memory" /\ RamNext
        /\ UNCHANGED <<commandVars, waveVars, captureVars, filterVars, mapVars, storeVars>>
     \/ /\ subject = "addresses" /\ MapNext
        /\ UNCHANGED <<commandVars, waveVars, captureVars, filterVars, ramVars, storeVars>>
     \/ /\ subject = "store" /\ MCNext
        /\ UNCHANGED <<commandVars, waveVars, captureVars, filterVars, ramVars, mapVars>>

DataSpec == DataInit /\ [][DataNext]_dataVars
=============================================================================
