----------------------------- MODULE Sequencer -----------------------------
(***************************************************************************)
(* The sequencer and the clients that drive it (sequencerctrl.py,          *)
(* SequencerCmdSender in udpaccess.py).  A method is the list of its       *)
(* accesses; each is a request and the reply to it, and a bit of CTRL is   *)
(* changed by reading the register and writing it back, under no lock.     *)
(*                                                                         *)
(* All that the sequencer sends goes to one port, that of the client which *)
(* initialized it last; the router of that client gives replies to its     *)
(* sockets by their kind (ErrReports.tla has the threads).  The clients    *)
(* are processes of one host.                                              *)
(*                                                                         *)
(* The sequencer is hardware: its part is what the code, its comments and  *)
(* tests rely on.  A command is its kind: "plain", "stop" (with the stop   *)
(* flag) or "back" (a branch to the first command).                        *)
(***************************************************************************)
EXTENDS Integers, Sequences

CONSTANTS
  SeqClients,     \* processes with a SequencerCtrl
  SeqOps,         \* the calls each of them makes: [name, arg]
  Queues,         \* what earlier calls have left in the FIFO
  Capacity,       \* commands that the FIFO holds
  PacketCmds,     \* commands that fit in one packet
  MAX_SEQ_CALLS,  \* bound: calls in a behaviour
  MAX_SEQ_LOSSES, \* bound: requests and replies that are lost
  NoPort          \* no client has initialized the sequencer

SeqOpNames ==
  {"initialize", "push", "start", "terminate", "clear", "clear_reports", "clear_flag",
   "enable", "disable", "wait", "unprocessed", "check_err", "set_branch"}

CmdKinds == {"plain", "stop", "back"}

ASSUME SequencerConstants ==
  /\ \A c \in SeqClients : \A o \in SeqOps[c] :
       o.name \in SeqOpNames /\ (o.name = "push" => o.arg \in Seq(CmdKinds))
  /\ Queues \subseteq Seq(CmdKinds)
  /\ Capacity \in Nat /\ PacketCmds \in Nat \ {0} /\ NoPort \notin SeqClients
  /\ MAX_SEQ_CALLS \in Nat /\ MAX_SEQ_LOSSES \in Nat

VARIABLES
  \* the sequencer
  ctrl,       \* the bits of CTRL that are 1
  fifo,       \* the commands; they stay there when they have been executed
  counter,    \* how many of them come before the next one
  status,     \* the bits of STATUS that are 1
  overflow,   \* the error flag of the FIFO
  dest,       \* the client whose port replies go to, or NoPort
  \* clients
  access,     \* what each client is doing, or NoAccess
  replies,    \* what its two sockets hold
  seqCalls, losses,
  \* history, for the properties only
  seen,       \* what has happened during the call of each client
  outcome,    \* the call that has just ended, or NoOutcome
  strayed,    \* clients that were sent a reply to the request of another one
  flags,      \* the flags of CTRL that were asked for
  settled,    \* since an initialize no call has crossed another, or raised, in CTRL
  crowded     \* two calls have crossed in the FIFO since the last reset

deviceSeqVars == <<ctrl, fifo, counter, status, overflow, dest>>
historySeqVars == <<strayed, flags, settled, crowded>>
seqVars == <<deviceSeqVars, access, replies, seqCalls, losses, seen, outcome, historySeqVars>>

NoAccess == [name |-> "none"]
NoOutcome == [name |-> "none", result |-> "none"]

(***************************************************************************)
(* The methods.                                                            *)
(***************************************************************************)
Bit(b, v) == [kind |-> "bit", bit |-> b, val |-> v]         \* write_bits on CTRL
Put(reg) == [kind |-> "put", reg |-> reg]                   \* write
Get(reg) == [kind |-> "get", reg |-> reg]                   \* read
Poll(b, v) == [kind |-> "poll", bit |-> b, val |-> v]       \* until the bit of STATUS is v
Packet(cmds) == [kind |-> "packet", cmds |-> cmds]

Pulse(b) == <<Bit(b, 0), Bit(b, 1), Bit(b, 0)>>

InitializeSequencer ==
  <<Put("DEST_UDP_PORT"), Put("DEST_IP_ADDR"), Put("CTRL"),
    Bit("RESET", 1), Bit("RESET", 0), Bit("BRANCH_FLAG_NEG", 0)>>

\* Mutant: a bit that is still up is not lowered first.
StartSequencerNoFallingEdge == <<Bit("START", 1), Bit("START", 0)>>

StartSequencer == Pulse("START")

TerminateSequencer ==
  <<Bit("TERMINATE", 0), Bit("TERMINATE", 1), Poll("BUSY", 0), Bit("TERMINATE", 0)>>

ClearCommands ==
  <<Bit("CMD_CLR", 1), Bit("CMD_CLR", 0),
    Bit("CMD_COUNTER_RESET", 0), Bit("CMD_COUNTER_RESET", 1), Bit("CMD_COUNTER_RESET", 0)>>

\* Mutant: the counter is read first.
UnprocessedCommandsCounterFirst == <<Get("CMD_COUNTER"), Get("NUM_STORED_CMDS")>>

UnprocessedCommands == <<Get("NUM_STORED_CMDS"), Get("CMD_COUNTER")>>

\* Mutant: the command that does not fit in a packet any more is left out.
PacketsDroppingOne(cmds) ==
  LET next == SubSeq(cmds, PacketCmds + 2, Len(cmds))
  IN  IF Len(cmds) <= PacketCmds THEN <<Packet(cmds)>>
      ELSE <<Packet(SubSeq(cmds, 1, PacketCmds)), Packet(next)>>

\* SequencerCmdSender.send: full packets, then one with what is left.
UpTo(cmds, i) == IF i * PacketCmds < Len(cmds) THEN i * PacketCmds ELSE Len(cmds)

PacketCount(cmds) == IF cmds = <<>> THEN 1 ELSE ((Len(cmds) - 1) \div PacketCmds) + 1

Packets(cmds) ==
  [i \in 1 .. PacketCount(cmds) |-> Packet(SubSeq(cmds, UpTo(cmds, i - 1) + 1, UpTo(cmds, i)))]

SeqMethod(o) ==
  CASE o.name = "initialize"    -> InitializeSequencer
    [] o.name = "push"          -> <<Get("CMD_BUF_FREE_SPACE")>> \o Packets(o.arg)
    [] o.name = "start"         -> StartSequencer
    [] o.name = "terminate"     -> TerminateSequencer
    [] o.name = "clear"         -> ClearCommands
    [] o.name = "clear_reports" -> <<Bit("ERR_REPORT_CLR", 1), Bit("ERR_REPORT_CLR", 0)>>
    [] o.name = "clear_flag"    -> Pulse("DONE_CLR")
    [] o.name = "enable"        -> <<Bit("ERR_REPORT_SEND_ENABLE", 1), Poll("ERR_REPORT_SEND_ACTIVE", 1)>>
    [] o.name = "disable"       -> <<Bit("ERR_REPORT_SEND_ENABLE", 0), Poll("ERR_REPORT_SEND_ACTIVE", 0)>>
    [] o.name = "wait"          -> <<Poll("DONE", 1)>>
    [] o.name = "unprocessed"   -> UnprocessedCommands
    [] o.name = "check_err"     -> <<Get("ERR"), Get("ERR")>>
    [] o.name = "set_branch"    -> <<Bit("BRANCH_FLAG_NEG", IF o.arg THEN 0 ELSE 1)>>

CtrlOps == SeqOpNames \ {"push", "wait", "unprocessed", "check_err"}
QueueOps == {"initialize", "push", "clear"}

Calling(c) == access[c] # NoAccess

InQueueOp(c) == access[c].name \in QueueOps

InCtrlOp(c) == access[c].name \in CtrlOps

StepOf(c) == SeqMethod(access[c].op)[access[c].at]

\* The flags of CTRL when a call has returned.
FlagsAfter(o) ==
  CASE o.name = "initialize" -> {}
    [] o.name = "enable"     -> flags \cup {"ERR_REPORT_SEND_ENABLE"}
    [] o.name = "disable"    -> flags \ {"ERR_REPORT_SEND_ENABLE"}
    [] o.name = "set_branch" -> IF o.arg THEN flags \ {"BRANCH_FLAG_NEG"}
                                ELSE flags \cup {"BRANCH_FLAG_NEG"}
    [] OTHER                 -> flags

(***************************************************************************)
(* The sequencer.                                                          *)
(***************************************************************************)
RegisterVal(reg) ==
  CASE reg = "CTRL"               -> ctrl
    [] reg = "STATUS"             -> status
    [] reg = "ERR"                -> overflow
    [] reg = "NUM_STORED_CMDS"    -> Len(fifo)
    [] reg = "CMD_COUNTER"        -> counter
    [] reg = "CMD_BUF_FREE_SPACE" -> Capacity - Len(fifo)

EdgeOf(b, new) == b \notin ctrl /\ b \in new

\* START, TERMINATE, DONE_CLR and CMD_COUNTER_RESET act when they rise, RESET
\* and CMD_CLR as long as they are up.
WriteSeqCtrl(new) ==
  LET stopped == EdgeOf("TERMINATE", new) /\ "BUSY" \in status
      working == IF stopped THEN (status \ {"BUSY"}) \cup {"DONE"}
                 ELSE IF EdgeOf("START", new) THEN status \cup {"BUSY"} ELSE status
  IN  /\ ctrl' = new
      /\ IF "RESET" \in new
         THEN fifo' = <<>> /\ counter' = 0 /\ status' = {} /\ overflow' = FALSE
         ELSE /\ fifo' = IF "CMD_CLR" \in new THEN <<>> ELSE fifo
              /\ counter' = IF EdgeOf("CMD_COUNTER_RESET", new) THEN 0 ELSE counter
              /\ status' = IF EdgeOf("DONE_CLR", new) THEN working \ {"DONE"} ELSE working
              /\ UNCHANGED overflow
      /\ UNCHANGED dest

\* What does not fit is lost.
Store(cmds) ==
  LET room == Capacity - Len(fifo)
  IN  /\ fifo' = fifo \o (IF Len(cmds) > room THEN SubSeq(cmds, 1, room) ELSE cmds)
      /\ overflow' = (overflow \/ Len(cmds) > room)
      /\ UNCHANGED <<ctrl, counter, status, dest>>

\* The sequencer serves a request of client c.
ServeRequest(c, r) ==
  CASE r.kind = "cmds" -> Store(r.val)
    [] r.kind = "write" /\ r.reg = "CTRL" -> WriteSeqCtrl(r.val)
    [] r.kind = "write" /\ r.reg = "DEST_UDP_PORT" ->
         dest' = c /\ UNCHANGED <<ctrl, fifo, counter, status, overflow>>
    [] OTHER -> UNCHANGED deviceSeqVars

\* A reply names the register, or the size of the packet, and nothing that
\* tells a read from a write: an acknowledgement can be read as a value of 0.
ReplyTo(r) == [reg |-> r.reg, val |-> IF r.kind = "read" THEN RegisterVal(r.reg) ELSE {}]

(***************************************************************************)
(* Accesses of a client.                                                   *)
(***************************************************************************)
Request(c) ==
  LET s == StepOf(c)
      a == access[c]
  IN  CASE s.kind = "bit" /\ a.half = "read"  -> [kind |-> "read", reg |-> "CTRL", val |-> {}]
        [] s.kind = "bit" /\ a.half = "write" ->
             [kind |-> "write", reg |-> "CTRL",
              val |-> IF s.val = 1 THEN a.val \cup {s.bit} ELSE a.val \ {s.bit}]
        [] s.kind = "put"    -> [kind |-> "write", reg |-> s.reg, val |-> {}]
        [] s.kind = "get"    -> [kind |-> "read", reg |-> s.reg, val |-> {}]
        [] s.kind = "poll"   -> [kind |-> "read", reg |-> "STATUS", val |-> {}]
        [] s.kind = "packet" -> [kind |-> "cmds", reg |-> Len(s.cmds), val |-> s.cmds]

Sockets == {"reg", "cmd"}

Resets(r) == r.kind = "write" /\ r.reg = "CTRL" /\ "RESET" \in r.val

Socket(r) == IF r.kind = "cmds" THEN "cmd" ELSE "reg"

NoCounts == [reg \in {"NUM_STORED_CMDS", "CMD_COUNTER"} |-> 0]

NothingSeen ==
  [crossed |-> FALSE, mixed |-> FALSE, port |-> TRUE, starts |-> 0, before |-> <<>>,
   moved |-> FALSE, truth |-> 0]

SeqCall(c, o) ==
  LET others == {d \in SeqClients \ {c} : Calling(d)}
      meets(d, ops) == o.name \in ops /\ access[d].op.name \in ops
  IN  /\ ~Calling(c) /\ seqCalls < MAX_SEQ_CALLS
      /\ seqCalls' = seqCalls + 1
      /\ access' = [access EXCEPT ![c] = [name |-> o.name, op |-> o, at |-> 1, half |-> "read",
                                          sent |-> FALSE, val |-> {}, got |-> NoCounts]]
      /\ seen' = [d \in SeqClients |->
           IF d = c
           THEN [NothingSeen EXCEPT !.crossed = \E e \in others : meets(e, CtrlOps),
                                    !.before = IF o.name = "push" THEN fifo ELSE <<>>]
           ELSE [seen[d] EXCEPT !.crossed = @ \/ (d \in others /\ meets(d, CtrlOps))]]
      /\ crowded' = (crowded \/ \E e \in others : meets(e, QueueOps))
      /\ outcome' = NoOutcome
      /\ UNCHANGED <<deviceSeqVars, replies, losses, strayed, flags, settled>>

\* What it means for the calls under way that a request of client c is served.
Notice(c) ==
  seen' = [d \in SeqClients |->
    LET counting == Calling(d) /\ access[d].name = "unprocessed"
        last == counting /\ access[d].at = 2
    IN  [seen[d] EXCEPT
           !.port = @ /\ (d = c => dest' = c),
           !.mixed = @ \/ (d # c /\ fifo' # fifo),
           !.starts = @ + (IF d = c /\ EdgeOf("START", ctrl') THEN 1 ELSE 0),
           !.moved = IF d = c /\ counting THEN last /\ @
                     ELSE @ \/ (counting /\ fifo' # fifo /\ ~(last /\ access[d].sent)),
           !.truth = IF d = c /\ last THEN Len(fifo) - counter ELSE @]]

\* The request is lost; or it is served, and the reply is lost, or goes to the
\* client that has the port.
SendRequest(c) ==
  /\ Calling(c) /\ ~access[c].sent
  /\ access' = [access EXCEPT ![c].sent = TRUE]
  /\ LET r == Request(c)
         lost == UNCHANGED <<replies, strayed>> /\ losses < MAX_SEQ_LOSSES /\ losses' = losses + 1
     IN  \/ lost /\ UNCHANGED <<deviceSeqVars, seen, crowded>>
         \/ /\ ServeRequest(c, r) /\ Notice(c)
            /\ crowded' = IF Resets(r) THEN \E d \in SeqClients \ {c} : InQueueOp(d) ELSE crowded
            /\ \/ lost
               \/ dest' = NoPort /\ UNCHANGED <<replies, strayed, losses>>
               \/ /\ dest' # NoPort
                  /\ replies' = [replies EXCEPT ![dest'][Socket(r)] = Append(@, ReplyTo(r))]
                  /\ strayed' = strayed \cup ({dest'} \ {c})
                  /\ UNCHANGED losses
  /\ outcome' = NoOutcome
  /\ UNCHANGED <<seqCalls, flags, settled>>

EndCall(c, result) ==
  LET o == access[c].op
      inCtrl == o.name \in CtrlOps
      known == result = "ok" /\ ~seen[c].crossed /\ c \notin strayed
  IN  /\ access' = [access EXCEPT ![c] = NoAccess]
      /\ outcome' = [name |-> o.name, result |-> result, by |-> c, arg |-> o.arg,
                     seen |-> seen[c]]
      /\ seen' = [seen EXCEPT ![c] = NothingSeen]
      /\ flags' = IF inCtrl /\ known THEN FlagsAfter(o) ELSE flags
      /\ settled' = IF ~inCtrl THEN settled
                    ELSE known /\ (settled \/ o.name = "initialize")
      /\ UNCHANGED <<deviceSeqVars, seqCalls, losses, strayed, crowded>>

Continue(c, a) ==
  /\ access' = [access EXCEPT ![c] = [a EXCEPT !.sent = FALSE]]
  /\ outcome' = NoOutcome
  /\ UNCHANGED <<deviceSeqVars, seqCalls, losses, seen, historySeqVars>>

NextStep(c, a) ==
  IF a.at < Len(SeqMethod(a.op))
  THEN Continue(c, [a EXCEPT !.at = @ + 1, !.half = "read", !.val = {}])
  ELSE EndCall(c, "ok")

\* num_unprocessed_commands
NumUnprocessed(got) == got["NUM_STORED_CMDS"] - got["CMD_COUNTER"]

\* The first reply on the socket, whoever it is for.
Reply(c) == Head(replies[c][Socket(Request(c))])

Matching(c) == Reply(c).reg = Request(c).reg

TakeReply(c) ==
  /\ Calling(c) /\ access[c].sent
  /\ replies[c][Socket(Request(c))] # <<>>
  /\ replies' = [replies EXCEPT ![c][Socket(Request(c))] = Tail(@)]

ReplyAccepted(c) ==
  /\ TakeReply(c)
  /\ Matching(c)
  /\ LET s == StepOf(c)
         a == access[c]
     IN  CASE s.kind = "bit" /\ a.half = "read" ->
                Continue(c, [a EXCEPT !.half = "write", !.val = Reply(c).val])
           [] s.kind = "poll" ->
                IF (s.bit \in Reply(c).val) = (s.val = 1) THEN NextStep(c, a) ELSE Continue(c, a)
           [] s.kind = "get" /\ a.name = "push" /\ Len(a.op.arg) > Reply(c).val ->
                EndCall(c, "refused")
           [] s.kind = "get" /\ a.name = "unprocessed" ->
                LET b == [a EXCEPT !.got[s.reg] = Reply(c).val]
                IN  IF a.at = 1 THEN NextStep(c, b)
                    ELSE EndCall(c, IF NumUnprocessed(b.got) = seen[c].truth THEN "ok"
                                    ELSE "miscounted")
           [] OTHER -> NextStep(c, a)

\* A reply for another register, or a wait that is given up.
ReplyRefused(c) ==
  /\ TakeReply(c)
  /\ \/ ~Matching(c)
     \/ Matching(c) /\ StepOf(c).kind = "poll" /\ (StepOf(c).bit \in Reply(c).val) # (StepOf(c).val = 1)
  /\ EndCall(c, "raised")

\* socket.timeout
NoReply(c) ==
  /\ Calling(c) /\ access[c].sent
  /\ replies[c][Socket(Request(c))] = <<>>
  /\ EndCall(c, "raised")
  /\ UNCHANGED replies

(***************************************************************************)
(* The sequencer works through the FIFO.                                   *)
(***************************************************************************)
Execute ==
  /\ "BUSY" \in status /\ counter < Len(fifo)
  /\ LET cmd == fifo[counter + 1]
     IN  /\ counter' = IF cmd = "back" /\ "BRANCH_FLAG_NEG" \notin ctrl THEN 0 ELSE counter + 1
         /\ status' = IF cmd = "stop" THEN (status \ {"BUSY"}) \cup {"DONE"} ELSE status
  /\ outcome' = NoOutcome
  /\ UNCHANGED <<ctrl, fifo, overflow, dest, access, replies, seqCalls, losses, seen, historySeqVars>>

\* It starts or stops sending reports a while after it is told to.
ReportingFollows ==
  /\ status' = IF "ERR_REPORT_SEND_ENABLE" \in ctrl THEN status \cup {"ERR_REPORT_SEND_ACTIVE"}
               ELSE status \ {"ERR_REPORT_SEND_ACTIVE"}
  /\ status' # status
  /\ outcome' = NoOutcome
  /\ UNCHANGED <<ctrl, fifo, counter, overflow, dest, access, replies, seqCalls, losses, seen, historySeqVars>>

-----------------------------------------------------------------------------
SeqInit ==
  /\ ctrl = {} /\ status = {} /\ fifo \in Queues /\ counter = 0 /\ overflow = FALSE
  /\ dest \in SeqClients \cup {NoPort}
  /\ access = [c \in SeqClients |-> NoAccess]
  /\ replies = [c \in SeqClients |-> [s \in Sockets |-> <<>>]]
  /\ seqCalls = 0 /\ losses = 0
  /\ seen = [c \in SeqClients |-> NothingSeen] /\ outcome = NoOutcome
  /\ strayed = {} /\ flags = {} /\ settled = TRUE /\ crowded = FALSE

SeqNext ==
  \/ \E c \in SeqClients :
       \/ \E o \in SeqOps[c] : SeqCall(c, o)
       \/ SendRequest(c) \/ ReplyAccepted(c) \/ ReplyRefused(c) \/ NoReply(c)
  \/ Execute \/ ReportingFollows

SeqSpec == SeqInit /\ [][SeqNext]_seqVars

-----------------------------------------------------------------------------
(* The call that has just ended is not known to have taken the reply to the *)
(* request of another client.                                              *)
Clean == outcome # NoOutcome /\ outcome.by \notin strayed

\* A call of push_commands appends its commands, all of them and in order, when
\* it returns; leaves the FIFO as it was when it refuses them, which it does only
\* when they do not fit; and when it raises has appended the first packets or
\* none: unless, in between, a request of another client changes the FIFO (a push,
\* a reset, a clear, or any call that writes back a reset which it has read in
\* CTRL).  The FIFO overflows only where two calls that change it have crossed, or
\* a reply has gone astray.
FifoIsThePushes ==
  /\ Clean /\ outcome.name = "push" /\ ~outcome.seen.mixed =>
       LET before == outcome.seen.before
           arg == outcome.arg
       IN  CASE outcome.result = "ok"      -> fifo = before \o arg
             [] outcome.result = "refused" -> fifo = before /\ Len(before) + Len(arg) > Capacity
             [] outcome.result = "raised"  ->
                  \E n \in 0 .. Len(arg) :
                    /\ n % PacketCmds = 0 \/ n = Len(arg)
                    /\ fifo = before \o SubSeq(arg, 1, n)
  /\ overflow => crowded \/ strayed # {}

\* CTRL is changed by reading it and writing it back.  As long as no two calls
\* cross there and none raises, the register is what the calls have asked for;
\* and start_sequencer, alone in CTRL, starts the sequencer once, whatever bits
\* an earlier call has left there.
ControlAsAsked ==
  /\ settled /\ (\A c \in SeqClients : ~InCtrlOp(c)) => ctrl = flags
  /\ Clean /\ outcome.name = "start" /\ outcome.result = "ok" /\ ~outcome.seen.crossed =>
       outcome.seen.starts = 1

\* A call that returns tells the truth.  num_unprocessed_commands reads two
\* registers while the sequencer goes on and jumps back: unless the FIFO changes
\* between the two, the difference is what was left at the second.  And no call
\* of a client whose port another one takes over returns as if it had been heard.
ReturnsAreTrue ==
  Clean =>
    /\ outcome.result = "miscounted" => outcome.seen.moved
    /\ outcome.result = "ok" => outcome.seen.port

=============================================================================
