# Verification of e7awg_sw

`src/e7awgsw` is the Python library that drives an e7awg device: arbitrary
waveform generators (AWGs), capture units and a sequencer in one FPGA, reached
over UDP, by several threads and several processes of one PC. `src/emulator` is
a program that stands in for the device. This directory has TLA+ models of the
library and of the part of the device it relies on, TLC runs that check them on
small instances, and TLAPS proofs for every size of instance.

Contents: 1 the system, 2 the models, 3 the runs, 4 the proofs, 5 what the code
does not keep, 6 what is not modelled, 7 plan.

## 1. The system

A client is a process that makes controller objects. Every operation of a
controller is a list of register accesses, and an access is one UDP request and
one UDP reply. A bit of a register is changed by two accesses (read, write
back). Registers that are shared by all AWGs (or all capture units) are guarded
by a lock file; everything else is not.

| Part | State | Operations | Talks to |
|---|---|---|---|
| Lock (`lock.py`) | an RLock, an open file, a counter, per object; the flock on the file | acquire, release, discard | the kernel; used by both controllers |
| AWG controller (`awgctrl.py`) | none between calls but sockets, lock, wave registry | start, terminate, reset, clear, initialize, wait; set and register waves | registers and wave RAM of the AWGs |
| Capture controller (`capturectrl.py`) | sockets, lock | start, reset, clear, triggers, modules, initialize, waits; parameters; samples | registers and capture RAM |
| Sequencer controller (`sequencerctrl.py`) | sockets, a router thread, an error receiver thread | push commands, start, terminate, clear, wait, enable reports | command FIFO and registers of the sequencer |
| Register and memory access (`udpaccess.py`, `uplpacket.py`) | a socket per object | read, write, bit fields | the device |
| Commands and data (`sequencercmd.py`, `wavesequence.py`, `captureparam.py`, `classification.py`, `dspmodule.py`) | values | encodings, sizes, sample lists | - |
| LabRAD server (`labrad/`) | tables of handles to controllers | each controller operation as a remote call, in a pool of 16 threads | the controllers |
| Emulator (`src/emulator`) | registers, states of AWGs and capture units, memory | register writes, memory accesses, wave generation, capture in a pool of two workers per unit | its clients; AWGs start capture units |

What is hard about it:

* several processes read-modify-write shared registers; the lock that guards
  them is made of two locks and a counter;
* operations that take no lock (`terminate_awgs`, the waits, wave registration)
  run between the steps of those that do;
* the device acts on rising edges, so the order and the value before a write
  matter, and what a failed call has left in a register matters to the next;
* a request or its reply may be lost or late; the call raises after a timeout,
  and the access may have happened, or happen later;
* threads share a controller, and so a socket and a lock object;
* a capture is done by a worker thread that sets samples, their number and the
  unit's state one after the other, while register writes change that state.

What makes each part correct:

* Lock: no two threads inside; nested blocks do not open it; a death or a close
  leaves nothing locked; every caller gets in.
* AWG and capture controllers: no update of a shared register is lost; nothing
  is left behind by a call; a start starts what it was given, all of it and
  nothing else; a wait that returns has waited; every call returns.
* Register access: a register, that is, each access happens once, between call
  and return, unless the call raised.
* Capture unit: DONE means saved; a capture ends.
* Wave store: after a registration each key plays the wave it was given, and the
  waves of an AWG stay in its part of the memory.
* Sequencer: the FIFO holds what was pushed, in order; the control register holds
  what was asked for; a call that returns has told the truth; each report reaches
  the client once; closing a controller ends its threads.
* LabRAD server: a handle names one controller, until it is discarded; every
  controller is closed once, or can still be reached; a request is answered unless
  it waits for something that does not come.
* Commands, samples, parameters: what the other side reads in the bits is what
  the caller gave; what a client reads of a capture is what its parameters mean.
* Memory: a byte holds what was last written to it, whatever is beside it; an
  address means one register or one byte.

## 2. The models

A comment at the head of each module says what it abstracts. Every definition
that stands for code is listed with its lines in `PROJECT.json`, `map`. A
definition whose comment begins with "Mutant" is a wrong variant of the one
after it: a run of the same configuration with that variant must fail, which
shows that the property can see the mistake.

```
Mutex  <=(refines)=  ReentrantFileLock            the lock
  |  used as lockHolder by
  +-- AwgControl     EXTENDS AwgDevice            AWG controllers on the AWGs
  +-- CaptureControl EXTENDS CaptureDevice        capture controllers on the units
                        CaptureUnit               one unit and its workers
Register <=(refines)= UdpRw                       one access, over UDP
  |  used as an atomic access (or one that fails) by both controllers
Sequencer                                         sequencer controllers, sequencer
ErrReports, LabradServer    (MCLabrad)            threads behind a controller
SequencerCommands, WaveSamples, CaptureParams,
CaptureFilters, WaveRam, AddressMap               what is sent, stored, computed
   EXTENDS HwDefs, HwParam, RunningSums  (MCDataPath)
WaveStore  EXTENDS RunningSums                    waves in the memory of an AWG
```

Each layer is checked against a small specification of what it promises, and
the layer above uses that promise: the controllers take the lock as one variable
`lockHolder` because `ReentrantFileLock` implements `Mutex`, and take an access as
one step, possibly a failed one, because `UdpRw` implements `Register`.

* **`ReentrantFileLock`** (`lock.py`). `pc`, `depth` are a thread's place in acquire
  and release and its nesting of `with` blocks; `owner`, `count` the RLock of each
  object; `holds` is `num_holds`; `flocked` the kernel's lock. One action per
  statement that another thread can observe: `AcquireRLock` (lines 38-39),
  `AcquireFlock` (40), `ReleaseFlock` (44-46), `ReleaseRLock` (47), and `FlockRaises`,
  `DiscardUnused`, `Discard`, `Crash`. Three next-state relations differ in what
  may go wrong: `Next` (crashes), `InterruptNext` (and interrupted waits),
  `SharedDiscardNext` (and a close under a user).
* **`AwgDevice`** (`emulator/awgcontroller.py`, `awg.py`, `register.py`). The control
  registers as sets of bits, the states of the AWGs, and what a write does, in the
  order in which the emulator registers its handlers.
* **`AwgControl`** (`awgctrl.py`). A method is a sequence of steps (`StartAwgs`,
  `TerminateAwgs`, ...), written as the method body reads; an action per kind of
  step. A step is one register access, so every interleaving of accesses of two
  clients is there. `AccessFails` ends a call anywhere. `fired`, `cancelled`,
  `ongoing` and `aborted` are history: nothing but properties reads them.
* **`CaptureDevice`, `CaptureControl`** (`emulator/capturecontroller.py`,
  `capturectrl.py`). The same for capture units, with the trigger mask, the capture
  modules and the wave of an AWG that starts units (`WaveGenerated`).
  `construct_capture_module` decides what to write from what it has read: its steps
  `Leave` and `LeaveModule` write only where the units that were read say so. `armed`
  and `wanted` are history: what the calls that ended have asked for.
* **`CaptureUnit`** (`emulator/capture.py`). Register writes in the dispatcher's
  thread; `queue` and `task` are the pool. `latest`, `wanted`, `intact`, `alone` and
  `failed` are history of the latest capture.
* **`UdpRw`** (`udpaccess.py`). `requests` and `replies` are packets on their way, lost
  or overtaken freely; `buffer` is a socket's receive queue; the check of a reply is
  the one of lines 503 and 539. `Register` is the promise: an access has effect at
  one moment between call and return, and only a call that raised may have effect
  later.
* **`WaveStore`** (`awgctrl.py` 460-543). Memory in wave blocks. A registration is a list
  of transfers: the registers of a slot one by one (`ParamWrites`: the number of chunks,
  then address and length of each), then the samples chunk by chunk (`SampleWrites`). It
  may break off before any of them, and several clients may register waves of one AWG
  at once, under no lock, so a slot may hold registers of two calls. `alone` and `asked`
  are history (a slot is only promised to a call that no other call overlapped), and so
  are `crossed` and `whole`: the slots whose registers are all of one call.
* **`Sequencer`** (`sequencerctrl.py`, `SequencerCmdSender` of `udpaccess.py`). A method
  is the list of its accesses, as in `AwgControl`; an access is a request (`SendRequest`:
  lost, or served) and the reply to it (`ReplyAccepted`, `ReplyRefused`, `NoReply`). Replies
  go to the port of the client that initialized last, whoever asked. A reply arrives
  at once or is lost: late replies are the subject of `UdpRw`. The sequencer itself is
  hardware that the emulator lacks; `Execute`, `Store` and `WriteSeqCtrl` are what the
  code, its comments and its tests rely on, and are marked external. Both clients
  are on one host. `seen`, `strayed`, `flags`, `settled` and `crowded` are history.
  `seen.mixed` is set when a request of another client changes the FIFO: that need not
  be a call about the FIFO, since any call that writes CTRL back may write back a RESET
  which it has read there while another client initializes. For the same reason
  `crowded` ends only with a request that raises RESET.
* **`ErrReports`** (`UdpRouter`, `CmdErrReceiver` of `udpaccess.py`). The router thread, the
  receiver thread, the threads of the program; every point between them where one may
  overtake another: a packet read and not yet kept (`inHand`), a list taken and not
  yet emptied. One thread initializes and closes.
* **`LabradServer`** (`labrad/`). The tables of controllers, the lock, the pool, and remote
  controllers that may die. Which setting each method asks for, and which method of
  which controller the setting calls, is in the tables `RemoteAwgSetting`, `AwgMethod` and
  so on. A request arrives once; pickling changes nothing. A controller that is discarded
  is closed under the lock of the server: `CloseCtrl` ends that, `CloseRaises` is a close
  that raises after its controller has left the table, and a close or a call that never
  ends is a thread that stays where it is (`MayNotEnd`).
* **`SequencerCommands`** (`sequencercmd.py`). A command is its fields: position, width,
  bits. `Word` puts them where the code shifts them; the sequencer and the receiver
  read them back by `Slice`. Arguments are taken on both sides of each limit; what a
  sequencer may report of a command of each class is `IsReport`.
* **`WaveSamples`** (`wavesequence.py`). A sequence, its list of all samples, and the lazy
  list, which finds a chunk by binary search over ranges of positions (`FindChunk`: a
  chain of pairs of bounds, each of which halves the one before).
* **`RunningSums`**: where the n-th of a list of lengths ends. Chunks, waves in memory,
  sections of a capture and fields of a command are all placed by such sums, which the
  code forms in loops; here they are one recursive function, so that its lemmas are
  proved once.
* **`CaptureParams`, `CaptureFilters`** (`captureparam.py`, `capturectrl.py`, `capture.py`,
  `dspmodule.py`, `classification.py`). The way of a capture: setters, registers, cutting,
  decimation, sum, integration, packing, reading. In the first a sample's value is
  the set of samples of the wave that are added up in it; in the second it is a pair
  of whole numbers and goes through the filters.
* **`WaveRam`** (`UdpRw` of `udpaccess.py`, `hbm.py`). A transfer of any address and size as
  the packets of whole words that it becomes, served page by page, beside a capture
  unit that writes to the memory directly; `Requests` is the list of those packets. `contended` says that two calls have met
  in a word: then bytes may be lost, and nothing is promised.
* **`AddressMap`** (`memorymap.py` and the areas of `awgctrl.py`, `capturectrl.py`). Every
  register of every table by its address, and the search of the emulator for it.
* **`HwDefs`, `HwParam`** (`hwdefs.py`, `hwparam.py`). Sets of ids and sizes.

## 3. The runs

`MC<Module>.tla` fixes the constants of a module for TLC. Distinct states are for
orientation.

| Run | Question | Instance | States |
|---|---|---|---|
| `lock` | Is the lock a mutex, does everyone get in, and what does an interrupted wait leave? | 3 threads, 2 objects (two threads share one), blocks nested 2 deep, interrupted waits up to 4 holds | 8 144 |
| `lock_discard` | ... also when a controller is closed under a user? No. | the same, with `Discard` | - |
| `awg_control` | Are shared registers safe, and does start do what it says? | one client starts, the other starts, terminates, initializes, resets, clears; 2 AWGs; argument lists of 1 and 2; failures anywhere | 2 010 111 |
| `awg_returns` | Do waits wait, and do calls return? | starts, waits, terminates, clears on both AWGs; fair | 47 902 |
| `udp_register` | Is an access over UDP a register access, and does it end? | 2 clients, own sockets, 2 registers, 2 values, 4 accesses | 207 771 |
| `capture_unit` | Does DONE mean saved, and do captures end? | 2 workers, 2 good parameter sets and a bad one, 4 captures, interruptions anywhere; fair | 297 166 |
| `capture_reset` | ... also for a capture started while an older one is in the pool? No. | 3 captures | - |
| `capture_control` | Are target, mask, trigger and module registers safe, and do starts and waves start what was asked? | 2 clients, 2 units, 2 modules, 1 AWG, failures anywhere | 1 555 280 |
| `data_path` | Is everything that is encoded, stored, computed or addressed read back as it was meant, and does a slot of an AWG play what was registered? | one subject per behaviour, see below | 320 809 |
| `sequencer` | Do FIFO, control register and returned values say what the calls asked? | 2 clients, 13 methods, 3 calls, 1 lost packet, FIFO of 4, 2 commands per packet | 2 100 000 |
| `labrad` | Do requests reach their controller, is nothing left behind, are requests answered, do threads end? | 2 remote controllers of any kind, 3 threads, a pool of 2, 4 requests; 2 user threads, 2 reports, 4 calls; fair | 146 215 |
| `wave_none_key` | ... also when None is one of several keys? No. | one client, maps with None and a key | - |

Why the bounds are enough:

* *Two clients.* The properties of the controllers are about a call and what one
  other client does between its accesses. A third client adds nothing a second one
  cannot do, since a client starts a new call whenever it likes. The proofs do without
  this argument: all safety properties of the lock, of the controllers of AWGs, capture
  units and the sequencer, of the memory, of the wave store and of the LabRAD server
  hold for any number of clients.
* *Two AWGs, two units.* Enough for a listed and an unlisted one, for a loop
  with a first and a last element, and for a register with a neighbour's bit.
* *Operations per client.* In `awg_control` one client only starts: all properties
  relate a start to any other call, and the pairs left out (two resets, say) have no
  more steps than these. In `capture_control` one client starts, enables and
  constructs a module while the other one initializes (which disables and
  resets), clears, constructs, triggers and reads the modules.
* *Lock.* Depth 2 is the deepest nesting in the callers. Two threads on one object
  and one on its own is the least with both kinds of exclusion; `MaxHolds` 4 lets
  two waits be interrupted at depth 2.
* *UDP.* Four accesses: each client can read after the other's write and after its
  own. Packets of a finished call are in the air during the next one.
* *Captures.* With two workers, one capture queued behind two busy ones needs
  three; four lets one follow that.
* *Data path.* `MCDataPath` chooses a subject at the start of a behaviour and keeps the
  variables of the others still, so each subject is explored by itself.
  Commands: all eleven, with each argument at both sides of its limits. Samples:
  blocks of two words, up to three chunks, blanks, repetitions, bad values. Captures:
  two sections that decimation leaves words of or none, every set of units, two
  integration sections, registers with earlier contents. Filters: coefficients at the
  ends of their ranges, shorter and longer lists, limits of 32 and 512 in place of
  2^15 and 2^31 (a register is read back as a signed number by the same rule). Memory: words of four
  bytes, packets and pages of two words, with transfers that begin and end within
  words and cross words, packets and pages.
* *Wave store* (a subject of `data_path`). Two clients of one AWG, an area of four
  blocks, failures between any two registers. Waves of one chunk and of two, so that a
  slot has registers of a longer wave left when a shorter one comes; maps that put a
  wave first or last in the area, one that fills it, one whose waves fit singly but not
  together. A behaviour has maps of registry keys, or one of them and one for the AWG
  itself: the two kinds of slots share the memory and nothing else. Slots with registers
  of two calls that name samples after the area are among the states: without `whole`,
  `StaysInArea` fails.
* *Sequencer.* Three calls: two that cross and one that follows, or one that finds
  what two have left. The FIFO has room for a push of three and one more, or starts
  with a branch back; a push of three takes two packets, and one of them may be lost.
* *LabRAD.* Four requests make, use, discard, and use again what is gone; two pool
  threads are needed for a handle to be read twice. Two reports in one packet or two,
  either of them unreadable; initialize, two pops and close in any order.

Deadlock is checked for the controllers of AWGs and capture units and for the
capture unit. In the other runs a behaviour may really end: a thread is dead or its
controller closed, a value has been computed, or the bound on calls is reached.

Fairness, and why it is justified:

* Lock: a thread in release() runs on (weak); an outermost block ends (strong, on
  its release), as it is straight-line code whose waits have timeouts; a lock that
  is released again and again is not denied for ever (strong), which is what
  futexes and `flock` give in practice. Nothing makes a thread call.
* AWG controller: a client in a method goes on (weak); a polling loop compares the
  clock each time round, so it cannot fail for ever without giving up (strong on
  the timeout); the lock as above. Waves need not end, and no access fails for
  ever: liveness runs have none.
* UDP: the receive with its socket timeout is one fair action: it gets a packet or
  gives up. The network promises nothing.
* Capture unit: the pool's threads run (weak). Nothing makes clients act.
* Error reports: every thread goes on when it can (weak). `recvfrom` of the router and
  the receiver has no timeout, which is why `CloseEnds` says "unless the packet that is
  to end a thread is lost".
* LabRAD: a thread of the pool goes on when it can (weak), but not in the two places
  where the code may wait for ever (`MayNotEnd`): a method that waits for the lock file,
  which has no timeout, and the close of a sequencer controller, which joins threads that
  end only if a packet reaches them (`CloseEnds`). Nothing is assumed of these: they may
  end, raise or not. All other waits of the methods have a timeout. `Answered` therefore
  says of each waiting thread that it is answered, or that from some time on its request
  is with a thread in such a place, or with one that needs the server's lock while
  another one closes a sequencer controller, or in the queue while all threads are so.

## 4. The proofs

Each proof module extends the module it is about and is checked by `tlapm`.
Constants are only assumed to be what the `ASSUME` of the module says.

* **`ReentrantFileLockProofs`.** `LockInv` is inductive for `InterruptSpec`: types; a
  thread past `rlock.acquire()` owns the RLock (`OwnsRLock`); one inside has the flock
  (`InsideHoldsFile`); `num_holds` and the RLock's count are at least the nesting of
  the owner (`CountersCoverDepth`). The last part is what mutual exclusion by itself
  lacks: without it the release of an inner block might bring a counter to zero.
  Counters may exceed the nesting, since an interrupted wait never gives back its
  count: this is why the invariant says "at least". From it: `LockExcludes`,
  `LockHeldInside`, and `LockImplementsMutex`, with the mapping that names the thread
  inside as the holder. `NoFlockOrphaned` (property `NoOrphanedFlock`) adds `OrphanInv`: the
  flock belongs to an object whose owner is inside or on its way in or out, or which
  an interrupted wait has left it with.
* **`AwgControlProofs`**, for `FaultySpec` (any call may be cut short anywhere).
  `MasterRegistersNotLost` (`NoLostUpdate`) rests on where in each method the lock is
  held: a client is between its "lock" and "unlock" steps exactly when it is the holder,
  every access to a master register lies there, and what write_bits has read still is
  what the register holds. It needs the shape of every method, one lemma per method.
  The others add the exact contents of the master registers at each step of the holder
  (`StartInv` and its parts): which AWGs it has selected so far, which bits of the master
  CTRL it has raised, and that both are empty when nobody holds the lock and no call
  was cut short there. From this: `NothingLeftSelected` (`CleanWhenFree`),
  `OnlyListedStart` (`StartsOnlyListedUnlessAborted`), `StartReachesEachAwg`
  (`StartDelivers`; what cut-short calls have left up is why START is lowered first and
  why the invariant follows each listed AWG by itself) and `WavesHaveEnded`
  (`WaitsForWaves`: what a wait has found ended stays ended unless started again).
* **`CaptureControlProofs`.** `MethodFits` says of a method's list of steps alone what its
  lock blocks must have: they deselect and lower what they select and raise; mask
  every listed unit; read all units, then leave their modules, then assign; raise START
  only after a lowering, with exactly the listed units selected. `MethodsFit` proves it
  for each method and every argument. The invariant (`Invariant`) then needs no look at a
  particular method: `LockIsBlock` (the holder is who is inside a block), `ReadFresh`
  (write_bits holds what the register holds), `GotInside` (so do the units it has read),
  `InProgress` (the registers are what the steps of the block so far make of them) and
  `AsPromised` (what the calls that ended have asked for is there, but for the block in
  progress). From it: all six safety and step properties of the run.
* **`UdpRwProofs`.** `UdpRwTypes` and `UdpImplementsRegister`, for clients with sockets of
  their own (`OwnSockets`) that stop after an exception (`CarefulSpec`). The invariant:
  such a client has at most one packet in the world, a request, a reply on its way
  or one in its socket, and if it is a reply it carries the value the device
  answered to the current call. The mapping makes an overdue request an access
  that may still happen (`late`).
* **`EmulatorProofs`**, about the capture unit and the memory. `CaptureUnitTypes` and
  `CaptureSavedWhenAlone`, for `Spec`: resets, terminations and parameter writes at any
  time. The invariant is about an undisturbed latest capture: it is the only one in the
  pool, its worker has its parameters, and what that worker has already written is still
  there. `MemoryHoldsTheWrites` (`MemoryIsTheWrites`): for words, packets, pages and memory
  of any size and any number of clients. The invariant `RamInv` says how far each call
  has come, word by word: the head and the tail that it has read are still what memory
  holds there, what its packets have already written is there, and no call that writes
  has met another one in a word, unless `contended`.
* **`LabradServerProofs`.** `RequestsReach` (`RequestsReachTheirController`) and
  `NoControllerLost` (`NothingLeftBehind`), for any remote controllers, any number of
  threads in the pool, any number of requests, and programs that die. The invariant: a
  request names a handle below `nextHandle` that its sender was given, and no remote
  controller has two creations under way (`QueueInv`, `JobInv`); between reading the
  counter of handles and counting up, and between taking a controller out of its table
  and closing it, a worker has the lock (`LockInv`); tables hold open controllers, each
  once, and none whose close has raised (`TableInv`); a controller is made for one remote
  controller (`MadeInv`), and is open in a table, in a worker's hands, closed, or one whose
  close has raised; and what a remote program has and left is what the tables have for it
  (`RemoteInv`, `LeftInv`). `MethodOfSetting` goes through the tables of settings.
* **`DataPathProofs`**, for values of any size: any waves, sections, samples, arguments.
  * Wave store. `StoreTypeCorrect`: types, and no sample is written after the area.
    `WavesStayInTheirArea` (`StaysInArea`): `AreaInv` says of each call under way that, in
    the slots no other client has written to, every register is written that is not
    still to be written, so that when the last one is the slot is one wave's and its
    address and length belong together (`AllWritten`, `ParamsApart`, `WrittenInArea`).
    `WavesAreAsRegistered` (`AsRegistered`), under the assumption `NoneAlone` that the key
    None is not given beside others, which is what `wave_none_key` refutes: what a call
    alone has written so far is there, and what is still to be written goes elsewhere.
  * Captures. `CapturedDataIsMeant` (`DataIsTheCapture`): `CaptureInv` says after each step
    what has been taken, stored and read; `KeptIs`, `SectionGives`, `RowIs` and
    `IntegratedIs` say what each stage makes of a section, and packing and reading are a
    flattening in two levels. `AcceptedCapturesFit` (`AcceptedFits`).
  * `StoredSamplesAreConvolutions` (`FiltersAreConvolutions`), `BytesOfWavesAreTheirSamples`
    (`BytesAreTheSamples`), `CommandsAreReadBack` (`CommandReadBack`; fields do not overlap
    and have room for what the checks let in), `ReportsTellTheError`
    (`ReportTellsTheError`, for each of the eleven classes) and `LazyListIsTheWholeList`
    (`LazyListIsTheList`; repetitions are not negative: with a negative one the length of
    the list is negative and len() raises).
  * What takes an induction (sums of lengths, flattened lists, the binary search) is
    proved through sets of numbers: the least number at which a claim fails
    (`LeastNat`, `SetInduction`), and from it `Sums` and `FlattenAre`.
* **`SequencerProofs`.** `PushesAreWhole` (`FifoIsThePushes`), `FlagsAreThoseAsked`
  (`ControlAsAsked`) and `CallsTellTheTruth` (`ReturnsAreTrue`), for any number of clients,
  calls and lost packets, any capacity and any size of a packet. The invariant:
  `MailInv`, a client that no stray reply has reached finds no reply but the one to
  its last request, and the port has been its own as often as it heard one; `CtrlInv`, a
  call alone in CTRL has made of the register what the steps it has done say (`CtrlAt`:
  the flags before or after, and the bit that is up in between); `PushInv`, the FIFO is
  what the push found there followed by what its done steps have sent; `RoomInv`, what a
  push alone on the FIFO has still to send has room; `CountInv`, what
  num_unprocessed_commands has read of the FIFO still is so; `OutcomeInv`, the properties
  for the call that has just ended. A client that has had no reply does not know if its
  step was done; this is why these parts speak of steps that are heard of (`Done`) and
  why `PushInv` allows either for a call that is about to time out. `Packets` is a
  function and not a recursion, so that what the first k packets hold (`Sent`) can be
  stated and proved without induction. `ReportsKeptOnce` (`ReportsOnce`), about the threads of
  `ErrReports`: what has arrived is in the list, in the hands of the thread that has taken
  the list and has still to empty it, or popped, once and in the order of sending; what
  the receiver has in hand, its socket and the router have yet to bring was sent after
  that.

Found by the proofs: that an earlier `FifoIsThePushes`, which blamed only crossing calls
about the FIFO, was false (the RESET that is written back, above); TLC reproduced it
with a fourth call.

Only model-checked:

* everything under fairness (`EveryCallerEnters`, `CallsReturn`, `CallsEnd`,
  `CapturesEnd`, `Answered`, `CloseEnds`): out of this prover's reach;
* `AddressesApart`: finite tables of numbers, which TLC goes through whole.

## 5. What the code does not keep

The three runs that end in a violation are kept because each shows a sentence of the
code's own documentation to be too strong. `PROJECT.json`, `findings`, quotes it.

* `lock_discard`: `close()` of a controller drops the flock even while another thread
  is inside a block.
* `capture_reset`: a worker of a capture that was reset or terminated completes the
  next capture of the unit.
* `wave_none_key`: the key None next to other keys puts two waves in one place.

Other limits appear as hypotheses of properties that hold, each named there:

* `aborted`: a call that raises inside its lock block leaves units selected, and the
  next start starts them too, hence `StartsOnlyListedUnlessAborted`.
* `Leaked`: an interrupted wait for the lock file is never given back and keeps
  everyone out, hence `EveryCallerEnters` and `NoOrphanedFlock` as they are stated.
* TERMINATE of an AWG acts on its rising edge, and `terminate_awgs` does not lower it
  first: a second terminate while the bit is up does nothing (`sequencerctrl.py` does
  lower it). `StartDelivers` and `WaitsForWaves` hold all the same.
* Nothing in a reply tells two requests for one register apart. Threads that share a
  socket, and a client that goes on using its object after `socket.timeout`, take
  replies that are not theirs: hence `OwnSockets` and `CarefulSpec`.
* `crossed`, `mixed`, `crowded`: the control register and the FIFO of the sequencer are read and
  then written under no lock, so two clients lose bits and overflow the FIFO.
* `strayed`: the client whose port another one took over hears nothing, or, on its
  own port, what was meant for the other.
* `moved`: `num_unprocessed_commands` subtracts counters of two moments.
* `contended`: an unaligned write puts back what it has read beside it.
* `SumReachesSections`: where the range to sum begins after the end of a section,
  `calc_capture_samples` counts a sum that the DSP does not store, and what a client
  reads is not what the parameters mean.
* `whole`: the registers of a slot are written one by one under no lock. A call that fails
  between them, or that another one crosses, leaves a slot that may name samples after
  the area of the AWG, until the next call writes it.
* `stopLost`: a lost packet to its own thread leaves `close()` waiting for ever. If the
  LabRAD server closes the controller, it waits with the lock of the server, and every
  request that needs the lock waits too (`Held`).
* `raised`: a `close()` that raises in the LabRAD server leaves threads and sockets of a
  controller that no handle leads to any more.
* The wait for the lock file has no timeout: who has the lock and does not go on keeps
  all others waiting, and with them the threads of a LabRAD server (`KeptWaiting`).
* A report that the receiver cannot read ends its thread; initialize does not start
  another one, and later reports are lost without notice. `ReportsOnce` is about those
  that were read.
* An access outside of the emulated memory ends the dispatcher, and with `>=` in
  `hbm.py:35` the last word counts as outside: `RamTimeOut`.
* Two messages of `sequencerctrl.py` (lines 270 and 274) are raised as strings, which
  raises TypeError instead; only the kind of the exception differs.

## 6. What is not modelled

* `awgwave.py`, the conversion between floats and fixed point, the classification of
  samples and the decision functions: floating point, without state.
* Getters, flags of errors, versions, `set_wave_startable_block_timing`: single reads
  and writes of registers whose addresses `AddressMap` covers.
* `register_capture_params`: the parameters of `CaptureParams` written to an entry of
  the registry instead of the unit's registers.
* The waits of the capture controller: they poll as those of the AWG controller do.
* Transport and pickling of LabRAD; the firmware of the sequencer beyond what the
  code relies on; late replies in `Sequencer`.
* Two threads that initialize or close one controller at once.
* Duplicated UDP packets: the device is on a local link and the code handles none.
* Logging, exceptions, examples, validation scripts, manuals.

The components and the reason for each are in `PROJECT.json`, `components`.

## 7. Plan

1. Done: lock; AWG control; register access; capture unit; capture control; the
   sequencer and its threads; LabRAD; data path; wave store; memory; proofs of the safety
   properties of all of these, for every value of the constants, but for `AddressesApart`.
2. AWG and capture control composed: a start that triggers captures, end to end.
3. Proofs: the address search of `AddressMap` for any table of disjoint areas, once it
   is stated without the tables.
