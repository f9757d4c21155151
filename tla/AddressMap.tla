----------------------------- MODULE AddressMap -----------------------------
(***************************************************************************)
(* Addresses: the register map (memorymap.py), the areas of the memory     *)
(* (awgctrl.py, capturectrl.py), and how the emulator finds the register   *)
(* that an address means (awgcontroller.py, capturecontroller.py).         *)
(*                                                                         *)
(* A place is [space, part, unit, key, name, index]: a register of an AWG, *)
(* a capture unit or the sequencer, a register kept in a registry entry,   *)
(* or a byte of an area.  An address is [hi, lo], its upper bits and lower *)
(* 16, because the memory has 33 bits.                                     *)
(***************************************************************************)
EXTENDS HwDefs, FiniteSetsExt

CONSTANTS
  MapUnits,   \* numbers of AWGs and capture units that are tried
  MapKeys     \* keys of registry entries that are tried

VARIABLES
  place,      \* what a client means to access, or Nowhere
  address,    \* the address it sends
  found       \* what that address means

mapVars == <<place, address, found>>

Nowhere == [space |-> "none"]

Addr(hi, lo) == [hi |-> hi, lo |-> lo]

(***************************************************************************)
(* Register names: <<offset, number, distance>> of each.                   *)
(***************************************************************************)
One(offset) == <<offset, 1, 4>>

AwgMasterCtrlRegs ==
  [VERSION |-> One(\h0), CTRL_TARGET_SEL |-> One(\h4), CTRL |-> One(\h8),
   WAKEUP_STATUS |-> One(\hC), BUSY_STATUS |-> One(\h10), READY_STATUS |-> One(\h14),
   DONE_STATUS |-> One(\h18), READ_ERR |-> One(\h1C), SAMPLE_SHORTAGE_ERR |-> One(\h20)]

AwgCtrlRegs == [CTRL |-> One(\h0), STATUS |-> One(\h4), ERR |-> One(\h8)]

\* Four registers for each of 16 chunks.
WaveParamRegs ==
  [NUM_WAIT_WORDS |-> One(\h0), NUM_REPEATS |-> One(\h4), NUM_CHUNKS |-> One(\h8),
   WAVE_STARTABLE_BLOCK_INTERVAL |-> One(\hC),
   CHUNK_START_ADDR |-> <<\h40, 16, \h10>>, NUM_WAVE_PART_WORDS |-> <<\h44, 16, \h10>>,
   NUM_BLANK_WORDS |-> <<\h48, 16, \h10>>, NUM_CHUNK_REPEATS |-> <<\h4C, 16, \h10>>]

CaptureMasterCtrlRegs ==
  [VERSION |-> One(\h0), CAP_MOD_TRIG_SEL_0 |-> One(\h4), CAP_MOD_TRIG_SEL_1 |-> One(\h8),
   AWG_TRIG_MASK |-> One(\hC), CTRL_TARGET_SEL |-> One(\h10), CTRL |-> One(\h14),
   WAKEUP_STATUS |-> One(\h18), BUSY_STATUS |-> One(\h1C), DONE_STATUS |-> One(\h20),
   OVERFLOW_ERR |-> One(\h24), WRITE_ERR |-> One(\h28), CAP_MOD_TRIG_SEL_2 |-> One(\h2C),
   CAP_MOD_TRIG_SEL_3 |-> One(\h30)]

CaptureCtrlRegs ==
  [CTRL |-> One(\h0), STATUS |-> One(\h4), ERR |-> One(\h8), CAP_MOD_SEL |-> One(\hC)]

\* Mutant: the coefficients of the window are taken for half as many.
CaptureParamRegsNarrow ==
  [DSP_MODULE_ENABLE |-> One(\h0), CAPTURE_DELAY |-> One(\h4), CAPTURE_ADDR |-> One(\h8),
   NUM_CAPTURED_SAMPLES |-> One(\hC), NUM_INTEG_SECTIONS |-> One(\h10),
   NUM_SUM_SECTIONS |-> One(\h14), SUM_START_TIME |-> One(\h18), SUM_END_TIME |-> One(\h1C),
   sum_section_length |-> <<\h1000, 4096, 4>>, post_blank_length |-> <<\h5000, 4096, 4>>,
   comp_fir_re_coef |-> <<\h9000, 16, 4>>, comp_fir_im_coef |-> <<\h9040, 16, 4>>,
   real_fir_i_coef |-> <<\hA000, 8, 4>>, real_fir_q_coef |-> <<\hA020, 8, 4>>,
   comp_window_re_coef |-> <<\hB000, 2048, 4>>, comp_window_im_coef |-> <<\hC000, 2048, 4>>,
   decision_func_params |-> <<\hF000, 6, 4>>]

CaptureParamRegs ==
  [DSP_MODULE_ENABLE |-> One(\h0), CAPTURE_DELAY |-> One(\h4), CAPTURE_ADDR |-> One(\h8),
   NUM_CAPTURED_SAMPLES |-> One(\hC), NUM_INTEG_SECTIONS |-> One(\h10),
   NUM_SUM_SECTIONS |-> One(\h14), SUM_START_TIME |-> One(\h18), SUM_END_TIME |-> One(\h1C),
   sum_section_length |-> <<\h1000, 4096, 4>>, post_blank_length |-> <<\h5000, 4096, 4>>,
   comp_fir_re_coef |-> <<\h9000, 16, 4>>, comp_fir_im_coef |-> <<\h9040, 16, 4>>,
   real_fir_i_coef |-> <<\hA000, 8, 4>>, real_fir_q_coef |-> <<\hA020, 8, 4>>,
   comp_window_re_coef |-> <<\hB000, 2048, 4>>, comp_window_im_coef |-> <<\hD000, 2048, 4>>,
   decision_func_params |-> <<\hF000, 6, 4>>]

SequencerCtrlRegs ==
  [VERSION |-> One(\h0), CTRL |-> One(\h4), DEST_UDP_PORT |-> One(\h8),
   DEST_IP_ADDR |-> One(\hC), STATUS |-> One(\h10), ERR |-> One(\h14),
   NUM_STORED_CMDS |-> One(\h18), NUM_SUCCESSFUL_CMDS |-> One(\h1C), NUM_ERR_CMDS |-> One(\h20),
   CMD_BUF_FREE_SPACE |-> One(\h24), NUM_ERR_REPORTS |-> One(\h28), CMD_COUNTER |-> One(\h2C)]

OffsetOf(regs, name, index) == regs[name][1] + index * regs[name][3]

\* The registers of a table that begin at an offset.
Named(regs, offset) ==
  {[name |-> n, index |-> (offset - regs[n][1]) \div regs[n][3]] :
     n \in {m \in DOMAIN regs :
              /\ (offset - regs[m][1]) % regs[m][3] = 0
              /\ (offset - regs[m][1]) \div regs[m][3] \in 0 .. regs[m][2] - 1}}

(***************************************************************************)
(* Register spaces of the device.  The unit's own registers and its        *)
(* parameters are at multiples of a distance from a first one.             *)
(***************************************************************************)
Spaces ==
  [awg |-> [units |-> AWG, master |-> AwgMasterCtrlRegs,
            own |-> AwgCtrlRegs, ownAt |-> [u \in AWG |-> \h80 + \h80 * u],
            param |-> WaveParamRegs, paramAt |-> [u \in AWG |-> \h1000 + \h400 * u]],
   capture |-> [units |-> CaptureUnit, master |-> CaptureMasterCtrlRegs,
                own |-> CaptureCtrlRegs, ownAt |-> [u \in CaptureUnit |-> \h100 + \h100 * u],
                param |-> CaptureParamRegs,
                paramAt |-> [u \in CaptureUnit |-> \h10000 + \h10000 * u]]]

Place(space, part, unit, key, reg) ==
  [space |-> space, part |-> part, unit |-> unit, key |-> key,
   name |-> reg.name, index |-> reg.index]

\* write_reg and read_reg: the parameters of the last unit whose first register
\* is not after the address; then the registers of a unit; then the common ones.
FindRegister(space, at) ==
  LET s == Spaces[space]
      behind == {u \in s.units : at >= s.paramAt[u]}
      owns == {u \in s.units : Named(s.own, at - s.ownAt[u]) # {}}
  IN  IF behind # {}
      THEN LET u == Max(behind)
           IN  {Place(space, "param", u, 0, r) : r \in Named(s.param, at - s.paramAt[u])}
      ELSE IF owns # {}
      THEN UNION {{Place(space, "own", u, 0, r) : r \in Named(s.own, at - s.ownAt[u])} : u \in owns}
      ELSE {Place(space, "master", 0, 0, r) : r \in Named(s.master, at)}

(***************************************************************************)
(* Areas of the memory, in blocks of 2^16 bytes: the samples of an AWG, of *)
(* a capture unit, and the registries.                                     *)
(***************************************************************************)
\* 256 MiB for waves and 255 MiB for captures.
AWG_WAVE_SRC_ADDR(a) == \h2000 * a
CAPTURE_ADDR(u) == IF u < 8 THEN \h1000 + \h2000 * u ELSE \h15000 + \h2000 * (u - 8)
WAVE_REGISTRY_ADDR(a) == IF a = 15 THEN \h1F200 ELSE \h1FF0 + \h2000 * a
CAP_PARAM_REGISTRY_ADDR == \h1F000

MAX_RAM_BLOCKS == \h1000
MAX_CAPTURE_BLOCKS == \hFF0
ENTRIES_IN_BLOCK == 64           \* of a wave registry: an entry has 0x400 bytes
MEMORY_BLOCKS == \h20000

Areas ==
  {[part |-> "waves", unit |-> a, from |-> AWG_WAVE_SRC_ADDR(a), size |-> MAX_RAM_BLOCKS] : a \in AWG}
  \cup {[part |-> "captures", unit |-> u, from |-> CAPTURE_ADDR(u), size |-> MAX_CAPTURE_BLOCKS] :
          u \in CaptureUnit}
  \cup {[part |-> "wave registry", unit |-> a, from |-> WAVE_REGISTRY_ADDR(a),
         size |-> 512 \div ENTRIES_IN_BLOCK] : a \in AWG}
  \cup {[part |-> "param registry", unit |-> 0, from |-> CAP_PARAM_REGISTRY_ADDR, size |-> 512]}

\* What is at an address of the memory.
FindInArea(x, at) ==
  LET block == at.hi - x.from
  IN  CASE x.part = "wave registry" ->
             {Place("memory", x.part, x.unit, block * ENTRIES_IN_BLOCK + at.lo \div \h400, r) :
                r \in Named(WaveParamRegs, at.lo % \h400)}
        [] x.part = "param registry" ->
             {Place("memory", x.part, x.unit, block, r) : r \in Named(CaptureParamRegs, at.lo)}
        [] OTHER -> {Place("memory", x.part, x.unit, block, [name |-> "samples", index |-> at.lo])}

FindInMemory(at) ==
  UNION {FindInArea(x, at) : x \in {y \in Areas : at.hi \in y.from .. y.from + y.size - 1}}

(***************************************************************************)
(* Accesses.                                                               *)
(***************************************************************************)
AddressOf(p) ==
  CASE p.space = "sequencer" -> Addr(0, OffsetOf(SequencerCtrlRegs, p.name, p.index))
    [] p.space \in {"awg", "capture"} ->
         LET s == Spaces[p.space]
             at == CASE p.part = "master" -> OffsetOf(s.master, p.name, p.index)
                     [] p.part = "own" -> s.ownAt[p.unit] + OffsetOf(s.own, p.name, p.index)
                     [] p.part = "param" -> s.paramAt[p.unit] + OffsetOf(s.param, p.name, p.index)
         IN  Addr(at \div \h10000, at % \h10000)
    [] p.space = "memory" ->
         CASE p.part = "waves" -> Addr(AWG_WAVE_SRC_ADDR(p.unit) + p.key, p.index)
           [] p.part = "captures" -> Addr(CAPTURE_ADDR(p.unit) + p.key, p.index)
           [] p.part = "wave registry" ->
                Addr(WAVE_REGISTRY_ADDR(p.unit) + p.key \div ENTRIES_IN_BLOCK,
                     (p.key % ENTRIES_IN_BLOCK) * \h400 + OffsetOf(WaveParamRegs, p.name, p.index))
           [] p.part = "param registry" ->
                Addr(CAP_PARAM_REGISTRY_ADDR + p.key, OffsetOf(CaptureParamRegs, p.name, p.index))

Found(space, at) ==
  CASE space = "memory" -> FindInMemory(at)
    [] space = "sequencer" ->
         {Place("sequencer", "master", 0, 0, r) : r \in Named(SequencerCtrlRegs, at.lo)}
    [] OTHER -> FindRegister(space, at.hi * \h10000 + at.lo)

\* The first register of a name, the second, and the last.
Regs(table) ==
  UNION {{[name |-> n, index |-> i] : i \in {0, 1, table[n][2] - 1} \cap (0 .. table[n][2] - 1)} :
           n \in DOMAIN table}

Places ==
  {Place("sequencer", "master", 0, 0, r) : r \in Regs(SequencerCtrlRegs)}
  \cup UNION {{Place(s, "master", 0, 0, r) : r \in Regs(Spaces[s].master)} : s \in DOMAIN Spaces}
  \cup UNION {{Place(s, "own", u, 0, r) : u \in MapUnits \cap Spaces[s].units, r \in Regs(Spaces[s].own)} :
                s \in DOMAIN Spaces}
  \cup UNION {{Place(s, "param", u, 0, r) : u \in MapUnits \cap Spaces[s].units,
                                            r \in Regs(Spaces[s].param)} : s \in DOMAIN Spaces}
  \cup {Place("memory", "waves", a, k, [name |-> "samples", index |-> 0]) :
          a \in MapUnits \cap AWG, k \in {0, MAX_RAM_BLOCKS - 1}}
  \cup {Place("memory", "captures", u, k, [name |-> "samples", index |-> 0]) :
          u \in MapUnits \cap CaptureUnit, k \in {0, MAX_CAPTURE_BLOCKS - 1}}
  \cup {Place("memory", "wave registry", a, k, r) :
          a \in MapUnits \cap AWG, k \in MapKeys, r \in Regs(WaveParamRegs)}
  \cup {Place("memory", "param registry", 0, k, r) : k \in MapKeys, r \in Regs(CaptureParamRegs)}

MapInit == place \in Places /\ address = Addr(0, 0) /\ found = {Nowhere}

SendAddress ==
  /\ found = {Nowhere} /\ address # AddressOf(place)
  /\ address' = AddressOf(place)
  /\ UNCHANGED <<place, found>>

FindAddress ==
  /\ found = {Nowhere} /\ address = AddressOf(place)
  /\ found' = Found(place.space, address)
  /\ UNCHANGED <<place, address>>

MapNext == SendAddress \/ FindAddress

MapSpec == MapInit /\ [][MapNext]_mapVars

(***************************************************************************)
(* Properties.                                                             *)
(***************************************************************************)
\* The address of a place means that place and no other, and lies in the memory
\* if it is one of it: registers, tables of registers and areas do not overlap,
\* and the search of the emulator stops at the right one (memorymap.py,
\* awgctrl.py:381, capturectrl.py:610, awgcontroller.py:287).
AddressesApart ==
  found # {Nowhere} => found = {place} /\ address.hi < MEMORY_BLOCKS
=============================================================================
