---------------------------- MODULE WaveSamples ----------------------------
(***************************************************************************)
(* The contents of a wave sequence (wavesequence.py): chunks of samples    *)
(* with blanks and repetitions, the list of all samples, and the lazy list *)
(* that computes a sample when it is asked for (__WaveSampleList).         *)
(*                                                                         *)
(* A sample is a pair <<i, q>>.  Positions count from 0, as in the code.   *)
(***************************************************************************)
EXTENDS Integers, HwParam, RunningSums, SequencesExt, Functions

CONSTANTS
  ChunkArgs,                  \* arguments of add_chunk, some out of range
  WaitLens, Repeats, Indexes, \* other arguments, some out of range
  MAX_CHUNKS,
  NUM_SAMPLES_IN_AWG_WORD

ASSUME WaveConstants ==
  /\ MAX_CHUNKS \in Nat
  /\ NUM_SAMPLES_IN_AWG_WORD \in Nat \ {0}
  /\ NUM_SAMPLES_IN_WAVE_BLOCK % NUM_SAMPLES_IN_AWG_WORD = 0
  /\ ChunkArgs \subseteq [samples : Seq(Int \X Int), blank : Int, repeats : Int]
  /\ WaitLens \subseteq Int /\ Repeats \subseteq Int /\ Indexes \subseteq Int

VARIABLES
  seq,    \* the WaveSequence object, or NoSequence
  list,   \* the lazy list made of it, or NoList
  then    \* all its samples when the lazy list was made (for the property)

waveVars == <<seq, list, then>>

NoSequence == [wait |-> -1]
NoList == [len |-> -1]

(***************************************************************************)
(* Sizes and contents.                                                     *)
(***************************************************************************)
Chunk(samples, blank, repeats) == [samples |-> samples, blank |-> blank, repeats |-> repeats]

NumWaveWords(chunk) == Len(chunk.samples) \div NUM_SAMPLES_IN_AWG_WORD
NumWords(chunk) == NumWaveWords(chunk) + chunk.blank
NumSamples(chunk) == NumWords(chunk) * NUM_SAMPLES_IN_AWG_WORD

NumAllWords(s) ==
  SumAll([i \in DOMAIN s.chunks |-> NumWords(s.chunks[i]) * s.chunks[i].repeats]) * s.repeats
    + s.wait
NumAllSamples(s) == NumAllWords(s) * NUM_SAMPLES_IN_AWG_WORD
NumWaitSamples(s) == s.wait * NUM_SAMPLES_IN_AWG_WORD

Zeros(n) == [i \in 1 .. n |-> <<0, 0>>]
Times(n, s) == FlattenSeq([i \in 1 .. n |-> s])

ChunkSamples(chunk) ==
  Times(chunk.repeats, chunk.samples \o Zeros(chunk.blank * NUM_SAMPLES_IN_AWG_WORD))

AllSamples(s, wait) ==
  (IF wait THEN Zeros(NumWaitSamples(s)) ELSE <<>>)
    \o Times(s.repeats, FlattenSeq([i \in DOMAIN s.chunks |-> ChunkSamples(s.chunks[i])]))

(***************************************************************************)
(* The lazy list: a copy of the chunks, and where each begins and ends.    *)
(***************************************************************************)
\* Mutant: the end of a chunk is where the next one begins.
ChunkRangesClosed(chunks) ==
  LET ends == Sums([i \in DOMAIN chunks |-> chunks[i].repeats * NumSamples(chunks[i])])
  IN  [i \in DOMAIN chunks |-> <<ends[i - 1], ends[i]>>]

ChunkRanges(chunks) ==
  LET ends == Sums([i \in DOMAIN chunks |-> chunks[i].repeats * NumSamples(chunks[i])])
  IN  [i \in DOMAIN chunks |-> <<ends[i - 1], ends[i] - 1>>]

LazyList(s, wait) ==
  LET waits == IF wait THEN NumWaitSamples(s) ELSE 0
      len == IF wait THEN NumAllSamples(s) ELSE NumAllSamples(s) - NumWaitSamples(s)
  IN  [chunks |-> s.chunks, waits |-> waits, len |-> len,
       ranges |-> ChunkRanges(s.chunks), inSeq |-> (len - waits) \div s.repeats]

\* The number of the chunk that has the sample idx, by binary search; the 0 is
\* an assertion that it is found.
FindChunk(l, idx) ==
  LET search[part \in (1 .. Len(l.chunks) + 1) \X (0 .. Len(l.chunks))] ==
        LET first == part[1]
            last == part[2]
            target == (first + last) \div 2
        IN  IF first > last THEN 0
            ELSE IF l.ranges[target][1] <= idx /\ idx <= l.ranges[target][2] THEN target
            ELSE IF l.ranges[target][2] < idx THEN search[<<target + 1, last>>]
            ELSE search[<<first, target - 1>>]
  IN  search[<<1, Len(l.chunks)>>]

\* list[key]: a negative key counts from the end.
Get(l, key) ==
  LET k == IF key < 0 THEN key + l.len ELSE key
      inSeq == (k - l.waits) % l.inSeq
      c == FindChunk(l, inSeq)
      inChunk == (inSeq - l.ranges[c][1]) % NumSamples(l.chunks[c])
  IN  IF k < l.waits \/ inChunk >= Len(l.chunks[c].samples)
      THEN <<0, 0>> ELSE l.chunks[c].samples[inChunk + 1]

Includes(l, item) ==
  \/ item = <<0, 0>> /\ (l.waits > 0 \/ \E c \in Range(l.chunks) : c.blank > 0)
  \/ \E c \in Range(l.chunks) : item \in Range(c.samples)

(***************************************************************************)
(* Bytes: each part of a sample takes two, the lower one first.            *)
(***************************************************************************)
Serialize(samples) ==
  FlattenSeq([n \in DOMAIN samples |->
    LET i == samples[n][1] % 65536
        q == samples[n][2] % 65536
    IN  <<i % 256, i \div 256, q % 256, q \div 256>>])

\* Mutant: the bytes are taken for an unsigned number.
ToUInt16(lo, hi) == 256 * hi + lo

\* (x ^ 0x8000) - 0x8000
ToInt16(lo, hi) == ((256 * hi + lo + 32768) % 65536) - 32768

Deserialize(bytes) ==
  [n \in 1 .. Len(bytes) \div 4 |->
     <<ToInt16(bytes[4 * n - 3], bytes[4 * n - 2]), ToInt16(bytes[4 * n - 1], bytes[4 * n])>>]

(***************************************************************************)
(* Operations.                                                             *)
(***************************************************************************)
WaveInit == seq = NoSequence /\ list = NoList /\ then = <<>>

NewSequence(wait, repeats) ==
  /\ seq = NoSequence
  /\ wait >= 0 /\ repeats >= 1
  /\ seq' = [wait |-> wait, repeats |-> repeats, chunks |-> <<>>]
  /\ UNCHANGED <<list, then>>

\* Signed and unsigned numbers of 16 bits.
SampleValues == -32768 .. 65535

AddChunk(samples, blank, repeats) ==
  /\ seq # NoSequence
  /\ Len(seq.chunks) < MAX_CHUNKS
  /\ samples # <<>> /\ Len(samples) % NUM_SAMPLES_IN_WAVE_BLOCK = 0
  /\ \A s \in Range(samples) : s[1] \in SampleValues /\ s[2] \in SampleValues
  /\ blank >= 0 /\ repeats >= 1
  /\ seq' = [seq EXCEPT !.chunks = Append(@, Chunk(samples, blank, repeats))]
  /\ UNCHANGED <<list, then>>

\* An index that is too large is ignored; a negative one counts from the end.
DelChunk(index) ==
  /\ seq # NoSequence
  /\ index \in -Len(seq.chunks) .. Len(seq.chunks) - 1
  /\ seq' = [seq EXCEPT !.chunks =
               RemoveAt(@, IF index < 0 THEN index + Len(@) + 1 ELSE index + 1)]
  /\ UNCHANGED <<list, then>>

\* The setter takes anything; a list of no repetitions cannot be made.
SetNumRepeats(n) ==
  /\ seq # NoSequence
  /\ seq' = [seq EXCEPT !.repeats = n]
  /\ UNCHANGED <<list, then>>

AllSamplesLazy(wait) ==
  /\ seq # NoSequence /\ list = NoList
  /\ seq.repeats # 0
  /\ list' = LazyList(seq, wait)
  /\ then' = AllSamples(seq, wait)
  /\ UNCHANGED seq

WaveNext ==
  \/ \E w \in WaitLens, n \in Repeats : NewSequence(w, n)
  \/ \E c \in ChunkArgs : AddChunk(c.samples, c.blank, c.repeats)
  \/ \E i \in Indexes : DelChunk(i)
  \/ \E n \in Repeats : SetNumRepeats(n)
  \/ \E wait \in BOOLEAN : AllSamplesLazy(wait)

WaveSpec == WaveInit /\ [][WaveNext]_waveVars

(***************************************************************************)
(* Properties.                                                             *)
(***************************************************************************)
\* The lazy list is the list of all samples as they were when it was made,
\* whatever is added to and deleted from the sequence afterwards: its length,
\* each sample by either index, and which samples it contains
\* (wavesequence.py:313, __WaveSampleList, against all_samples).
LazyListIsTheList ==
  list # NoList =>
    /\ list.len = Len(then)
    /\ \A i \in 0 .. Len(then) - 1 :
         Get(list, i) = then[i + 1] /\ Get(list, i - Len(then)) = then[i + 1]
    /\ \A s \in UNION {Range(c.samples) : c \in ChunkArgs} : Includes(list, s) <=> s \in Range(then)

Int16 == -32768 .. 32767

\* The bytes that are sent of a chunk are its samples: read back as signed
\* numbers of 16 bits, they are equal modulo 2^16, for signed and for unsigned
\* arguments alike (wavesequence.py:595, serialize and deserialize).
BytesAreTheSamples ==
  seq # NoSequence =>
    \A c \in Range(seq.chunks) :
      LET back == Deserialize(Serialize(c.samples))
      IN  /\ Len(back) = Len(c.samples)
          /\ \A n \in DOMAIN back : \A part \in 1 .. 2 :
               /\ back[n][part] \in Int16
               /\ (back[n][part] - c.samples[n][part]) % 65536 = 0
=============================================================================
