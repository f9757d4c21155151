------------------------------ MODULE WaveRam ------------------------------
(***************************************************************************)
(* Reading and writing the memory of the device: UdpRw splits a transfer   *)
(* into packets and widens it to whole words, reading what lies beside it  *)
(* (udpaccess.py); the emulator serves packets one at a time and reaches   *)
(* its memory page by page, beside the capture units, which write to it    *)
(* directly (upldispatcher.py, hbm.py).                                    *)
(*                                                                         *)
(* Every client has a UdpRw of its own, and no packet is lost (UdpRw.tla   *)
(* is about those that are).                                               *)
(***************************************************************************)
EXTENDS Integers, Sequences

CONSTANTS
  RamClients,        \* objects WaveRamAccess and ParamRegistryAccess
  RamWorkers,        \* capture units that store samples
  RamRequests,       \* what clients ask for: RamWrite(..) and RamRead(..)
  WorkerWrites,      \* what workers store: RamWrite(..)
  MAX_RAM_CALLS,     \* bound: calls in a behaviour
  MIN_RW_SIZE, MAX_RW_SIZE, PAGE_SIZE, MEM_SIZE

RamWrite(addr, data) == [kind |-> "write", addr |-> addr, data |-> data]
RamRead(addr, size) == [kind |-> "read", addr |-> addr, data |-> [i \in 1 .. size |-> 0]]

Requests == [kind : {"read", "write"}, addr : Nat, data : Seq(Int)]

ASSUME RamConstants ==
  /\ RamClients \cap RamWorkers = {}
  /\ RamRequests \subseteq Requests
  /\ WorkerWrites \subseteq {r \in Requests : r.kind = "write"}
  /\ MIN_RW_SIZE \in Nat \ {0} /\ MAX_RW_SIZE \in Nat \ {0} /\ MAX_RW_SIZE % MIN_RW_SIZE = 0
  /\ PAGE_SIZE \in Nat \ {0} /\ PAGE_SIZE % MIN_RW_SIZE = 0
  /\ MEM_SIZE \in Nat /\ MEM_SIZE % PAGE_SIZE = 0 /\ MAX_RAM_CALLS \in Nat
  /\ \A r \in WorkerWrites : r.addr % MIN_RW_SIZE = 0 /\ Len(r.data) % MIN_RW_SIZE = 0

VARIABLES
  mem,        \* the bytes; pages that were never written are zeros
  call,       \* what each client and worker is doing
  serving,    \* the packet that the dispatcher is working on, or NoPacket
  stopped,    \* the dispatcher's thread has ended by an exception
  ramCalls,   \* calls so far
  \* history, for the properties only
  contended,  \* two calls under way have had a word in common, one to write it
  last        \* what the last write that returned left in each byte

ramVars == <<mem, call, serving, stopped, ramCalls, contended, last>>

Procs == RamClients \cup RamWorkers
Byte == 0 .. MEM_SIZE - 1
Idle == [step |-> "idle"]
NoPacket == [by |-> "none"]
Unknown == -1

(***************************************************************************)
(* Framing.  A call has the address and the data (or as many zeros) that   *)
(* are left; a part of at most MAX_RW_SIZE goes into one packet.           *)
(***************************************************************************)
WordOf(addr) == (addr \div MIN_RW_SIZE) * MIN_RW_SIZE

WordsFor(size) == ((size + MIN_RW_SIZE - 1) \div MIN_RW_SIZE) * MIN_RW_SIZE

Part(c) == SubSeq(c.rest, 1, IF Len(c.rest) >= MAX_RW_SIZE THEN MAX_RW_SIZE ELSE Len(c.rest))

\* How far after the start of its word a call begins.
Frac(c) == c.addr % MIN_RW_SIZE

\* Mutant: the word at the end is looked for from the address that was given.
TailWordUnaligned(c) == WordOf(c.addr) + (Len(Part(c)) \div MIN_RW_SIZE) * MIN_RW_SIZE

\* The word in which the data end, when the head has been put before them.
TailWord(c) ==
  WordOf(c.addr) + ((Frac(c) + Len(Part(c))) \div MIN_RW_SIZE) * MIN_RW_SIZE

NeedsTail(c) == (Frac(c) + Len(Part(c))) % MIN_RW_SIZE # 0

FirstStep(c) ==
  IF c.rest = <<>> THEN "done"
  ELSE IF c.kind = "read" THEN "send"
  ELSE IF Frac(c) # 0 THEN "head"
  ELSE IF NeedsTail(c) THEN "tail" ELSE "send"

AtFirstStep(c) == [c EXCEPT !.step = FirstStep(c), !.head = <<>>, !.tail = <<>>]

\* The packet that a client sends in a step: [kind, address, bytes].
Packet(p) ==
  LET c == call[p]
      read(addr, size) == [by |-> p, kind |-> "read", addr |-> addr,
                           data |-> [i \in 1 .. size |-> 0], done |-> 0]
  IN  CASE c.step = "head" -> read(WordOf(c.addr), MIN_RW_SIZE)
        [] c.step = "tail" -> read(TailWord(c), MIN_RW_SIZE)
        [] c.step = "send" /\ c.kind = "read" ->
             read(WordOf(c.addr), WordsFor(Frac(c) + Len(Part(c))))
        [] OTHER -> [by |-> p, kind |-> "write", addr |-> WordOf(c.addr),
                     data |-> c.head \o Part(c) \o c.tail, done |-> 0]

\* The bytes that a read asked for, of those of the words around them.
Wanted(c, data) == SubSeq(data, Frac(c) + 1, Frac(c) + Len(Part(c)))

\* What the client makes of the reply, whose bytes are data.
Answered(c, data) ==
  LET next == [c EXCEPT !.addr = @ + Len(Part(c)),
                        !.rest = SubSeq(@, Len(Part(c)) + 1, Len(@)),
                        !.got = IF c.kind = "read" THEN @ \o Wanted(c, data) ELSE @]
      endFrac == (Frac(c) + Len(Part(c))) % MIN_RW_SIZE
  IN  CASE c.step = "head" -> [c EXCEPT !.head = SubSeq(data, 1, Frac(c)),
                                        !.step = IF NeedsTail(c) THEN "tail" ELSE "send"]
        [] c.step = "tail" -> [c EXCEPT !.tail = SubSeq(data, endFrac + 1, MIN_RW_SIZE),
                                        !.step = "send"]
        [] c.step = "send" -> AtFirstStep(next)

(***************************************************************************)
(* Memory (hbm.py).  done counts the bytes that have been transferred; one *)
(* step goes to the end of a page.                                         *)
(***************************************************************************)
InRange(x) == x.addr + Len(x.data) < MEM_SIZE /\ x.addr >= 0

EndOfPage(x) ==
  LET at == x.addr + x.done
      end == (at \div PAGE_SIZE + 1) * PAGE_SIZE - x.addr
  IN  IF end < Len(x.data) THEN end ELSE Len(x.data)

InPage(x) == {x.addr + i : i \in x.done .. EndOfPage(x) - 1}

MemWithPage(x) == [b \in Byte |-> IF b \in InPage(x) THEN x.data[b - x.addr + 1] ELSE mem[b]]

ReadWithPage(x) ==
  [x EXCEPT !.data = [i \in DOMAIN @ |-> IF x.addr + i - 1 \in InPage(x)
                                         THEN mem[x.addr + i - 1] ELSE @[i]],
            !.done = EndOfPage(x)]

(***************************************************************************)
(* Calls.                                                                  *)
(***************************************************************************)
RamInit ==
  /\ mem = [b \in Byte |-> 0] /\ call = [p \in Procs |-> Idle]
  /\ serving = NoPacket /\ stopped = FALSE /\ ramCalls = 0
  /\ contended = FALSE /\ last = [b \in Byte |-> 0]

Covers(req, b) == b \in req.addr .. req.addr + Len(req.data) - 1

WordsOf(req) == {WordOf(req.addr + i) : i \in 0 .. Len(req.data) - 1}

Clash(r, s) == "write" \in {r.kind, s.kind} /\ WordsOf(r) \cap WordsOf(s) # {}

Begin(p, req, c) ==
  /\ call[p] = Idle /\ ramCalls < MAX_RAM_CALLS
  /\ ramCalls' = ramCalls + 1
  /\ call' = [call EXCEPT ![p] = c]
  /\ contended' = (contended \/ \E q \in Procs : call[q] # Idle /\ Clash(call[q].req, req))
  /\ UNCHANGED <<mem, serving, stopped, last>>

\* UdpRw.write and read
ClientCalls(p) ==
  \E req \in RamRequests :
    Begin(p, req, AtFirstStep([step |-> "send", req |-> req, kind |-> req.kind, addr |-> req.addr,
                               rest |-> req.data, head |-> <<>>, tail |-> <<>>, got |-> <<>>]))

\* A capture unit writes its samples.
WorkerCalls(w) ==
  \E req \in WorkerWrites :
    Begin(w, req, [step |-> "pages", req |-> req, by |-> w, kind |-> "write",
                   addr |-> req.addr, data |-> req.data, done |-> 0])

\* The dispatcher takes a packet.  Outside of the memory Hbm raises, and the
\* thread ends.
Receive(p) ==
  /\ call[p].step \in {"head", "tail", "send"}
  /\ serving = NoPacket /\ ~stopped
  /\ IF InRange(Packet(p))
     THEN serving' = Packet(p) /\ UNCHANGED stopped
     ELSE stopped' = TRUE /\ UNCHANGED serving
  /\ UNCHANGED <<mem, call, ramCalls, contended, last>>

\* One page; after the last one the reply is sent and taken.
ServePage ==
  /\ serving # NoPacket
  /\ LET next == IF serving.kind = "read" THEN ReadWithPage(serving)
                 ELSE [serving EXCEPT !.done = EndOfPage(serving)]
     IN  /\ mem' = IF serving.kind = "read" THEN mem ELSE MemWithPage(serving)
         /\ IF next.done = Len(next.data)
            THEN /\ serving' = NoPacket
                 /\ call' = [call EXCEPT ![serving.by] = Answered(@, next.data)]
            ELSE serving' = next /\ UNCHANGED call
  /\ UNCHANGED <<stopped, ramCalls, contended, last>>

\* The write of a worker is not checked for the range here: its requests are in it.
WorkerPage(w) ==
  /\ call[w].step = "pages"
  /\ mem' = MemWithPage(call[w])
  /\ call' = [call EXCEPT ![w].done = EndOfPage(call[w]),
                          ![w].step = IF EndOfPage(call[w]) = Len(call[w].data) THEN "done" ELSE @]
  /\ UNCHANGED <<serving, stopped, ramCalls, contended, last>>

Return(p) ==
  /\ call[p].step = "done"
  /\ last' = IF call[p].kind = "read" THEN last
             ELSE [b \in Byte |-> IF Covers(call[p].req, b)
                                  THEN call[p].req.data[b - call[p].req.addr + 1] ELSE last[b]]
  /\ call' = [call EXCEPT ![p] = Idle]
  /\ UNCHANGED <<mem, serving, stopped, ramCalls, contended>>

\* Nobody answers: the client raises.  It may have written a part.
RamTimeOut(p) ==
  /\ stopped /\ call[p].step \in {"head", "tail", "send"} /\ serving.by # p
  /\ last' = [b \in Byte |-> IF Covers(call[p].req, b) THEN Unknown ELSE last[b]]
  /\ call' = [call EXCEPT ![p] = Idle]
  /\ UNCHANGED <<mem, serving, stopped, ramCalls, contended>>

RamNext ==
  \/ \E p \in RamClients : ClientCalls(p) \/ Receive(p) \/ RamTimeOut(p)
  \/ \E w \in RamWorkers : WorkerCalls(w) \/ WorkerPage(w)
  \/ ServePage
  \/ \E p \in Procs : Return(p)

RamSpec == RamInit /\ [][RamNext]_ramVars

(***************************************************************************)
(* Properties.                                                             *)
(***************************************************************************)
\* As long as no two calls meet in a word, each byte is what the last write of
\* it wrote, whatever was written beside it: splitting, widening and pages lose
\* nothing and touch nothing else (udpaccess.py:471, hbm.py:29); and a read
\* returns that, as many bytes as were asked for (udpaccess.py:516).  Two clients
\* in one word, and a transfer through pages that are being written, may lose
\* bytes or see half of a write.
MemoryIsTheWrites ==
  ~contended =>
    /\ \A b \in Byte :
         \/ last[b] = Unknown
         \/ \E p \in Procs : call[p] # Idle /\ call[p].kind = "write" /\ Covers(call[p].req, b)
         \/ mem[b] = last[b]
    /\ \A p \in RamClients :
         call[p] # Idle /\ call[p].kind = "read" /\ call[p].step = "done" =>
           /\ Len(call[p].got) = Len(call[p].req.data)
           /\ \A i \in DOMAIN call[p].got :
                last[call[p].req.addr + i - 1] \in {Unknown, call[p].got[i]}
=============================================================================
