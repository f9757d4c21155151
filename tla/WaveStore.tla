----------------------------- MODULE WaveStore -----------------------------
(***************************************************************************)
(* e7awgsw/awgctrl.py: where AwgCtrl puts the wave sequences of one AWG.   *)
(* A sequence is a list of chunks.  Its parameters, which name the address *)
(* of each chunk, go to the registers of the AWG or to an entry of its     *)
(* wave registry; the samples of all of them go to one area of the wave    *)
(* RAM, from its first address on, with nothing that says which part of    *)
(* the area is in use.                                                     *)
(*                                                                         *)
(* Addresses count wave blocks, the unit a chunk is a multiple of.  A      *)
(* block holds which block of which chunk of which sequence it is.         *)
(*                                                                         *)
(* No lock is taken: several clients may do this for one AWG at once.  And *)
(* the parameters of one slot are many registers, written one after the    *)
(* other: a call that fails on its way, or that another one crosses,       *)
(* leaves a slot with registers of several calls.                          *)
(*                                                                         *)
(* Of these registers the model has the number of chunks and the address   *)
(* and the length of each.  The numbers of waits, blanks and repetitions,  *)
(* which are written between them, do not matter to where samples are.     *)
(***************************************************************************)
EXTENDS RunningSums, SequencesExt

CONSTANTS
  Callers,    (* clients of the AWG                                        *)
  Waves,      (* wave sequences                                            *)
  Chunks,     (* the chunks of each: their lengths in blocks               *)
  Keys,       (* keys of the wave registry                                 *)
  Direct,     (* the key None: the registers of the AWG                    *)
  Maps,       (* the arguments key_to_wave_seq: lists of keys and waves    *)
  AreaSize,   (* blocks in the area of the AWG                             *)
  Nothing     (* what memory and registry hold before anything is written  *)

Slots == Keys \cup {Direct}

Entries == [key : Slots, wave : Waves]

ASSUME WaveStoreAssumption ==
  /\ Chunks \in [Waves -> Seq(Nat \ {0}) \ {<<>>}]
  /\ Maps \subseteq Seq(Entries)
  /\ \A l \in Maps : \A i, j \in DOMAIN l : l[i].key = l[j].key => i = j
  /\ Direct \notin Keys /\ Nothing \notin Waves /\ AreaSize \in Nat

VARIABLES
  ram,        (* the blocks of the area, and as many after it              *)
  params,     (* the registers of each slot                                *)
  todo,       (* the transfers that the call of a client has still to make *)
  entries,    (* its argument                                              *)
  (* history, for the properties only *)
  alone,      (* the clients whose call no other call has overlapped       *)
  asked,      (* what the last call has put into each slot, if it was alone *)
  crossed,    (* slots others have written to while a call was under way   *)
  whole       (* slots whose registers are all of one call                 *)

history == <<alone, asked, crossed, whole>>
storeVars == <<ram, params, todo, entries, history>>

-----------------------------------------------------------------------------
(* The registers of a slot (WaveParamRegs). *)
ChunkNos == UNION {DOMAIN Chunks[w] : w \in Waves}

NumChunks == <<0, "NUM_CHUNKS">>
StartAddr(n) == <<n, "CHUNK_START_ADDR">>
PartWords(n) == <<n, "NUM_WAVE_PART_WORDS">>

WaveRegisters ==
  {NumChunks} \cup {StartAddr(n) : n \in ChunkNos} \cup {PartWords(n) : n \in ChunkNos}

Size(w) == SumAll(Chunks[w])

(* Mutant: each wave is compared with the area, not all of them together.  *)
FitsOneByOne(list) ==
  \A i \in DOMAIN list : Size(list[i].wave) <= AreaSize

(* __check_wave_seq_data_size *)
Fits(list) == SumAll([i \in DOMAIN list |-> Size(list[i].wave)]) <= AreaSize

(* __calc_chunk_addr *)
ChunkParams(w, offset) ==
  [i \in DOMAIN Chunks[w] |->
    [addr |-> offset + Sums(Chunks[w])[i - 1], size |-> Chunks[w][i]]]

(* Mutant: the offset is that of the first chunks only. *)
OffsetOfHead(list, i) ==
  IF list[i].key = Direct THEN 0
  ELSE Sums([j \in DOMAIN list |->
         IF list[j].key = Direct THEN 0 ELSE Head(Chunks[list[j].wave])])[i - 1]

(* Each registered wave comes after those before it; the one for None is   *)
(* at the start of the area, and is not counted.                           *)
Offset(list, i) ==
  IF list[i].key = Direct THEN 0
  ELSE Sums([j \in DOMAIN list |->
         IF list[j].key = Direct THEN 0 ELSE Size(list[j].wave)])[i - 1]

Write(key, reg, value) == [kind |-> "param", key |-> key, reg |-> reg, value |-> value]

(* __set_wave_params *)
ParamWrites(key, chunks) ==
  <<Write(key, NumChunks, Len(chunks))>>
  \o FlattenSeq([n \in DOMAIN chunks |->
       <<Write(key, StartAddr(n), chunks[n].addr), Write(key, PartWords(n), chunks[n].size)>>])

(* __send_wave_samples *)
SampleWrites(w, chunks) ==
  [n \in DOMAIN chunks |-> [kind |-> "samples", wave |-> w, no |-> n, chunk |-> chunks[n]]]

(* One entry: its parameters, then its samples chunk by chunk. *)
Transfers(list, i) ==
  LET w == list[i].wave
      chunks == ChunkParams(w, Offset(list, i))
  IN  ParamWrites(list[i].key, chunks) \o SampleWrites(w, chunks)

-----------------------------------------------------------------------------
StoreInit ==
  /\ ram = [a \in 0..(2 * AreaSize - 1) |-> Nothing]
  /\ params = [s \in Slots |-> [r \in WaveRegisters |-> 0]]
  /\ todo = [c \in Callers |-> <<>>] /\ entries = [c \in Callers |-> <<>>]
  /\ alone = {}
  /\ asked = [s \in Slots |-> Nothing]
  /\ crossed = [c \in Callers |-> {}] /\ whole = Slots

(* register_wave_sequences; with None as only key, set_wave_sequence.  What *)
(* was in the registry and in the AWG before is given up.                  *)
Register(c) ==
  /\ todo[c] = <<>>
  /\ \E list \in Maps :
       /\ Fits(list)
       /\ entries' = [entries EXCEPT ![c] = list]
       /\ todo' = [todo EXCEPT ![c] =
                    FlattenSeq([i \in DOMAIN list |-> Transfers(list, i)])]
  /\ alone' = IF \A d \in Callers : todo[d] = <<>> THEN {c} ELSE {}
  /\ asked' = [s \in Slots |-> Nothing]
  /\ crossed' = [crossed EXCEPT ![c] = {}]
  /\ UNCHANGED <<ram, params, whole>>

(* After the last transfer the call returns. *)
Advance(c) ==
  /\ todo' = [todo EXCEPT ![c] = Tail(@)]
  /\ asked' = IF todo'[c] # <<>> \/ c \notin alone THEN asked
              ELSE [s \in Slots |->
                     IF \E i \in DOMAIN entries[c] : entries[c][i].key = s
                     THEN LET i == CHOOSE i \in DOMAIN entries[c] : entries[c][i].key = s
                          IN  entries[c][i].wave
                     ELSE Nothing]
  /\ entries' = [entries EXCEPT ![c] = IF todo'[c] = <<>> THEN <<>> ELSE @]
  /\ UNCHANGED alone

(* A register of a slot is written.  If it was the last one, and no other   *)
(* client has written to the slot, the slot is whole again.                *)
SetWaveParams(c) ==
  /\ todo[c] # <<>> /\ Head(todo[c]).kind = "param"
  /\ LET x == Head(todo[c]) IN
     /\ params' = [params EXCEPT ![x.key][x.reg] = x.value]
     /\ crossed' = [d \in Callers |-> IF d = c \/ todo[d] = <<>> THEN crossed[d]
                                      ELSE crossed[d] \cup {x.key}]
     /\ whole' = IF \/ x.key \in crossed[c]
                    \/ \E t \in Range(Tail(todo[c])) : t.kind = "param" /\ t.key = x.key
                 THEN whole \ {x.key} ELSE whole \cup {x.key}
  /\ Advance(c)
  /\ UNCHANGED ram

SendWaveSamples(c) ==
  /\ todo[c] # <<>> /\ Head(todo[c]).kind = "samples"
  /\ LET x == Head(todo[c]) IN
     ram' = [a \in DOMAIN ram |->
       IF a \in x.chunk.addr..(x.chunk.addr + x.chunk.size - 1)
       THEN <<x.wave, x.no, a - x.chunk.addr>> ELSE ram[a]]
  /\ Advance(c)
  /\ UNCHANGED <<params, crossed, whole>>

(* A transfer fails: the rest is not made. *)
AccessFails(c) ==
  /\ todo[c] # <<>>
  /\ todo' = [todo EXCEPT ![c] = <<>>] /\ entries' = [entries EXCEPT ![c] = <<>>]
  /\ UNCHANGED <<ram, params, history>>

StoreNext ==
  \E c \in Callers : Register(c) \/ SetWaveParams(c) \/ SendWaveSamples(c) \/ AccessFails(c)

StoreSpec == StoreInit /\ [][StoreNext]_storeVars

-----------------------------------------------------------------------------
(* The samples that an AWG would read for a slot (Awg.generate_wave), and  *)
(* those of a wave sequence.                                               *)
Played(s) ==
  [i \in 1 .. params[s][NumChunks] |->
    [b \in 0..(params[s][PartWords(i)] - 1) |-> ram[params[s][StartAddr(i)] + b]]]

Samples(w) ==
  [i \in DOMAIN Chunks[w] |-> [b \in 0..(Chunks[w][i] - 1) |-> <<w, i, b>>]]

(* register_wave_sequences (awgctrl.py:74-83): after the call each key has *)
(* its wave, and with the key None the AWG has one, whatever calls that    *)
(* failed half way have left in the registers, unless another client was   *)
(* writing waves of the same AWG: then a slot may name the samples of      *)
(* another wave (awgctrl.py:468).                                          *)
AsRegistered ==
  \A s \in Slots : asked[s] # Nothing => Played(s) = Samples(asked[s])

(* The captured samples after the area of the AWG are not written to, and  *)
(* a slot names no samples there (awgctrl.py:536), unless the last call    *)
(* that wrote to it has failed between two of its registers or was crossed *)
(* there by another (awgctrl.py:491-503).                                  *)
StaysInArea ==
  /\ \A a \in AreaSize..(2 * AreaSize - 1) : ram[a] = Nothing
  /\ \A s \in whole : \A i \in 1 .. params[s][NumChunks] :
       params[s][StartAddr(i)] + params[s][PartWords(i)] <= AreaSize

=============================================================================
