-------------------------- MODULE SequencerProofs --------------------------
(***************************************************************************)
(* For any number of clients of a sequencer, any capacity of its FIFO, any *)
(* size of a packet and any number of calls and of lost requests and       *)
(* replies: what the FIFO holds, what the control register holds and what  *)
(* a call that returns says are what was asked for.                        *)
(***************************************************************************)
EXTENDS Sequencer, ErrReports, SequenceTheorems, TLAPS

-----------------------------------------------------------------------------
(* Types. *)

Counts == {"NUM_STORED_CMDS", "CMD_COUNTER"}
Flags == {"ERR_REPORT_SEND_ENABLE", "BRANCH_FLAG_NEG"}

SeenType ==
  [crossed : BOOLEAN, mixed : BOOLEAN, port : BOOLEAN, starts : Nat, before : Seq(CmdKinds),
   moved : BOOLEAN, truth : Int]

(* A call under way. *)
CallFits(c, a) ==
  /\ a = [name |-> a.op.name, op |-> a.op, at |-> a.at, half |-> a.half, sent |-> a.sent,
          val |-> a.val, got |-> a.got]
  /\ a.op \in SeqOps[c] /\ a.at \in 1 .. Len(SeqMethod(a.op))
  /\ a.half \in {"read", "write"} /\ a.sent \in BOOLEAN
  /\ a.half = "write" => SeqMethod(a.op)[a.at].kind = "bit"
  /\ a.got = [reg \in Counts |-> a.got[reg]]

Types ==
  /\ fifo \in Seq(CmdKinds) /\ counter \in Nat /\ overflow \in BOOLEAN
  /\ dest \in SeqClients \cup {NoPort}
  /\ access = [c \in SeqClients |-> access[c]]
  /\ \A c \in SeqClients : Calling(c) => CallFits(c, access[c])
  /\ replies = [c \in SeqClients |-> [s \in Sockets |-> replies[c][s]]]
  /\ seen \in [SeqClients -> SeenType]
  /\ strayed \subseteq SeqClients /\ flags \subseteq Flags
  /\ settled \in BOOLEAN /\ crowded \in BOOLEAN

-----------------------------------------------------------------------------
(* The reply to a request. *)

(* It is on its socket, or will never be. *)
Heard(c) == access[c].sent /\ replies[c][Socket(Request(c))] # <<>>
Deaf(c) == access[c].sent /\ replies[c][Socket(Request(c))] = <<>>

(* A client that no other one's reply has reached finds no reply but the   *)
(* one to its last request; and it has had one to every request before.    *)
Mail(c) ==
  /\ \A s \in Sockets :
       replies[c][s] # <<>> => Calling(c) /\ access[c].sent /\ s = Socket(Request(c))
  /\ Calling(c) /\ Heard(c) => replies[c][Socket(Request(c))] = <<Reply(c)>> /\ Matching(c)
  /\ Calling(c) /\ ~Deaf(c) => seen[c].port

MailInv == \A c \in SeqClients \ strayed : Mail(c)

(* The steps of a call that have been carried out. *)
Done(c) ==
  IF Heard(c) /\ (StepOf(c).kind = "bit" => access[c].half = "write") THEN access[c].at
  ELSE access[c].at - 1

-----------------------------------------------------------------------------
(* CTRL. *)

(* The bit that a method has raised, to lower it again, after its step k.  *)
Held(name, k) ==
  CASE name = "initialize" /\ k = 4          -> {"RESET"}
    [] name = "start" /\ k = 2               -> {"START"}
    [] name = "terminate" /\ k \in {2, 3}    -> {"TERMINATE"}
    [] name = "clear" /\ k = 1               -> {"CMD_CLR"}
    [] name = "clear" /\ k = 4               -> {"CMD_COUNTER_RESET"}
    [] name = "clear_reports" /\ k = 1       -> {"ERR_REPORT_CLR"}
    [] name = "clear_flag" /\ k = 2          -> {"DONE_CLR"}
    [] OTHER                                 -> {}

FirstFlagStep(name) == IF name = "initialize" THEN 3 ELSE 1

(* What CTRL holds after step k of a call that is alone there. *)
CtrlAt(o, k) ==
  (IF k >= FirstFlagStep(o.name) THEN FlagsAfter(o) ELSE flags) \cup Held(o.name, k)

Written(s, val) == IF s.val = 1 THEN val \cup {s.bit} ELSE val \ {s.bit}

(* A call that is alone in CTRL. *)
AloneInCtrl(c) ==
  /\ StepOf(c).kind = "bit" =>
       /\ access[c].half = "read" /\ Heard(c) => Reply(c).val = ctrl
       /\ access[c].half = "write" /\ ~access[c].sent => access[c].val = ctrl
  /\ settled \/ (access[c].name = "initialize" /\ Done(c) >= 3) => ctrl = CtrlAt(access[c].op, Done(c))
  /\ access[c].name = "start" =>
       /\ seen[c].starts = IF Done(c) >= 2 THEN 1 ELSE 0
       /\ Done(c) = 1 => "START" \notin ctrl

Ctrl(c) ==
  InCtrlOp(c) /\ ~seen[c].crossed =>
    /\ \A d \in SeqClients \ {c} : ~InCtrlOp(d)
    /\ c \notin strayed /\ ~Deaf(c) => AloneInCtrl(c)

CtrlInv ==
  /\ \A c \in SeqClients : Ctrl(c)
  /\ settled /\ (\A c \in SeqClients : ~InCtrlOp(c)) => ctrl = flags

-----------------------------------------------------------------------------
(* The FIFO. *)

(* How many commands the first k steps of push_commands send. *)
Sent(cmds, k) == IF k = 0 THEN 0 ELSE UpTo(cmds, k - 1)

Holds(c, k) == fifo = seen[c].before \o SubSeq(access[c].op.arg, 1, Sent(access[c].op.arg, k))

Pushing(c) == access[c].name = "push"

Push(c) ==
  Pushing(c) /\ ~seen[c].mixed =>
    /\ ~Deaf(c) => Holds(c, Done(c))
    /\ Deaf(c) => Holds(c, access[c].at - 1) \/ Holds(c, access[c].at)
    /\ access[c].at = 1 /\ Heard(c) => Reply(c).val = Capacity - Len(seen[c].before)
    /\ access[c].at > 1 => Len(seen[c].before) + Len(access[c].op.arg) <= Capacity

PushInv == \A c \in SeqClients \ strayed : Push(c)

(* What is left of a push has room, when it is alone. *)
HasRoom(c) ==
  LET arg == access[c].op.arg IN
  /\ access[c].at = 1 /\ Heard(c) => Reply(c).val \in Int /\ Reply(c).val <= Capacity - Len(fifo)
  /\ access[c].at > 1 /\ ~Deaf(c) => Len(fifo) + Len(arg) - Sent(arg, Done(c)) <= Capacity

RoomInv ==
  ~crowded =>
    /\ \A c, d \in SeqClients : InQueueOp(c) /\ InQueueOp(d) => c = d
    /\ strayed = {} => ~overflow /\ \A c \in SeqClients : Pushing(c) => HasRoom(c)

-----------------------------------------------------------------------------
(* The two counters that num_unprocessed_commands reads. *)

Count(c) ==
  access[c].name = "unprocessed" /\ ~seen[c].moved =>
    /\ access[c].at = 1 /\ Heard(c) => Reply(c).val = Len(fifo)
    /\ access[c].at = 2 /\ ~access[c].sent => access[c].got["NUM_STORED_CMDS"] = Len(fifo)
    /\ access[c].at = 2 /\ Heard(c) =>
         access[c].got["NUM_STORED_CMDS"] - Reply(c).val = seen[c].truth

CountInv == \A c \in SeqClients \ strayed : Count(c)

-----------------------------------------------------------------------------
(* What the three properties say of the call that has just ended. *)

PushTold ==
  outcome.name = "push" /\ ~outcome.seen.mixed =>
    LET before == outcome.seen.before
        arg == outcome.arg
    IN  CASE outcome.result = "ok"      -> fifo = before \o arg
          [] outcome.result = "refused" -> fifo = before /\ Len(before) + Len(arg) > Capacity
          [] outcome.result = "raised"  ->
               \E n \in 0 .. Len(arg) :
                 (n % PacketCmds = 0 \/ n = Len(arg)) /\ fifo = before \o SubSeq(arg, 1, n)

StartTold ==
  outcome.name = "start" /\ outcome.result = "ok" /\ ~outcome.seen.crossed => outcome.seen.starts = 1

TruthTold ==
  /\ outcome.result = "miscounted" => outcome.seen.moved
  /\ outcome.result = "ok" => outcome.seen.port

OutcomeInv == Clean => PushTold /\ StartTold /\ TruthTold

Inv == Types /\ MailInv /\ CtrlInv /\ PushInv /\ RoomInv /\ CountInv /\ OutcomeInv

-----------------------------------------------------------------------------
(* The methods. *)

(* The constants, by name. *)
LEMMA Calls ==
  ASSUME NEW c \in SeqClients, NEW o \in SeqOps[c]
  PROVE  o.name \in SeqOpNames /\ (o.name = "push" => o.arg \in Seq(CmdKinds))
BY SequencerConstants

(* Whole numbers. *)
LEMMA Division ==
  ASSUME NEW m \in Nat, NEW p \in Nat \ {0}
  PROVE  m \div p \in Nat /\ p * (m \div p) <= m /\ m < p * (m \div p) + p
<1>1. m \div p \in Int /\ m \div p >= 0
  OBVIOUS
<1> DEFINE q == m \div p
<1>2. p * q <= m /\ m < p * q + p
  BY <1>1
<1> QED BY <1>1, <1>2

(* A multiple leaves no remainder. *)
LEMMA Multiple ==
  ASSUME NEW i \in Nat, NEW p \in Nat \ {0}
  PROVE  (i * p) % p = 0
OBVIOUS

(* A list with an element before it. *)
LEMMA Prefixed ==
  ASSUME NEW S, NEW x \in S, NEW P \in Seq(S)
  PROVE  /\ Len(<<x>> \o P) = 1 + Len(P) /\ (<<x>> \o P)[1] = x
         /\ \A k \in 2 .. Len(P) + 1 : (<<x>> \o P)[k] = P[k - 1]
OBVIOUS

(* The lists of push_commands: a step more than the packets. *)
LEMMA PushList ==
  ASSUME NEW o, o.name = "push", o.arg \in Seq(CmdKinds)
  PROVE  /\ PacketCount(o.arg) \in Nat \ {0}
         /\ Len(SeqMethod(o)) = PacketCount(o.arg) + 1
         /\ SeqMethod(o)[1] = Get("CMD_BUF_FREE_SPACE")
         /\ \A k \in 2 .. PacketCount(o.arg) + 1 :
              SeqMethod(o)[k] = Packet(SubSeq(o.arg, UpTo(o.arg, k - 2) + 1, UpTo(o.arg, k - 1)))
<1> DEFINE n == PacketCount(o.arg)
           P == Packets(o.arg)
           G == Get("CMD_BUF_FREE_SPACE")
           F(i) == Packet(SubSeq(o.arg, UpTo(o.arg, i - 1) + 1, UpTo(o.arg, i)))
           All == {F(i) : i \in 1 .. n} \cup {G}
<1>1. n \in Nat \ {0}
  <2>1. CASE o.arg = <<>>
    BY <2>1 DEF PacketCount
  <2>2. CASE o.arg # <<>>
    <3>1. Len(o.arg) - 1 \in Nat
      BY <2>2
    <3>2. (Len(o.arg) - 1) \div PacketCmds \in Nat
      BY <3>1, Division, SequencerConstants
    <3> QED BY <2>2, <3>2 DEF PacketCount
  <2> QED BY <2>1, <2>2
<1>2. SeqMethod(o) = <<G>> \o P
  BY DEF SeqMethod
<1>3. P = [i \in 1 .. n |-> F(i)]
  BY DEF Packets
<1>4. P \in [1 .. n -> All] /\ G \in All
  BY <1>3
<1>5. P \in Seq(All) /\ Len(P) = n
  <2> HIDE DEF P, All, n, F
  <2> QED BY <1>1, <1>4
<1>6. /\ Len(SeqMethod(o)) = 1 + n /\ SeqMethod(o)[1] = G
      /\ \A k \in 2 .. n + 1 : SeqMethod(o)[k] = P[k - 1]
  <2> HIDE DEF P, All, n, G
  <2> QED BY <1>1, <1>2, <1>4, <1>5, Prefixed
<1>7. \A k \in 2 .. n + 1 : P[k - 1] = Packet(SubSeq(o.arg, UpTo(o.arg, k - 2) + 1, UpTo(o.arg, k - 1)))
  <2> SUFFICES ASSUME NEW k \in 2 .. n + 1
               PROVE  P[k - 1] = Packet(SubSeq(o.arg, UpTo(o.arg, k - 2) + 1, UpTo(o.arg, k - 1)))
    OBVIOUS
  <2>1. k - 1 \in 1 .. n /\ (k - 1) - 1 = k - 2
    BY <1>1
  <2> QED BY <1>3, <2>1
<1> QED BY <1>1, <1>6, <1>7

(* The others. *)
LEMMA OtherLists ==
  ASSUME NEW o
  PROVE  /\ o.name = "initialize" =>
              SeqMethod(o) = <<Put("DEST_UDP_PORT"), Put("DEST_IP_ADDR"), Put("CTRL"),
                               Bit("RESET", 1), Bit("RESET", 0), Bit("BRANCH_FLAG_NEG", 0)>>
         /\ o.name = "start" => SeqMethod(o) = <<Bit("START", 0), Bit("START", 1), Bit("START", 0)>>
         /\ o.name = "terminate" =>
              SeqMethod(o) = <<Bit("TERMINATE", 0), Bit("TERMINATE", 1), Poll("BUSY", 0), Bit("TERMINATE", 0)>>
         /\ o.name = "clear" =>
              SeqMethod(o) = <<Bit("CMD_CLR", 1), Bit("CMD_CLR", 0), Bit("CMD_COUNTER_RESET", 0),
                               Bit("CMD_COUNTER_RESET", 1), Bit("CMD_COUNTER_RESET", 0)>>
         /\ o.name = "clear_reports" =>
              SeqMethod(o) = <<Bit("ERR_REPORT_CLR", 1), Bit("ERR_REPORT_CLR", 0)>>
         /\ o.name = "clear_flag" =>
              SeqMethod(o) = <<Bit("DONE_CLR", 0), Bit("DONE_CLR", 1), Bit("DONE_CLR", 0)>>
         /\ o.name = "enable" =>
              SeqMethod(o) = <<Bit("ERR_REPORT_SEND_ENABLE", 1), Poll("ERR_REPORT_SEND_ACTIVE", 1)>>
         /\ o.name = "disable" =>
              SeqMethod(o) = <<Bit("ERR_REPORT_SEND_ENABLE", 0), Poll("ERR_REPORT_SEND_ACTIVE", 0)>>
         /\ o.name = "wait" => SeqMethod(o) = <<Poll("DONE", 1)>>
         /\ o.name = "unprocessed" => SeqMethod(o) = <<Get("NUM_STORED_CMDS"), Get("CMD_COUNTER")>>
         /\ o.name = "check_err" => SeqMethod(o) = <<Get("ERR"), Get("ERR")>>
         /\ o.name = "set_branch" =>
              SeqMethod(o) = <<Bit("BRANCH_FLAG_NEG", IF o.arg THEN 0 ELSE 1)>>
<1>1. o.name = "clear" =>
        SeqMethod(o) = <<Bit("CMD_CLR", 1), Bit("CMD_CLR", 0), Bit("CMD_COUNTER_RESET", 0),
                         Bit("CMD_COUNTER_RESET", 1), Bit("CMD_COUNTER_RESET", 0)>>
  BY DEF SeqMethod, ClearCommands, Pulse
<1>2. o.name = "initialize" =>
        SeqMethod(o) = <<Put("DEST_UDP_PORT"), Put("DEST_IP_ADDR"), Put("CTRL"),
                         Bit("RESET", 1), Bit("RESET", 0), Bit("BRANCH_FLAG_NEG", 0)>>
  BY DEF SeqMethod, InitializeSequencer
<1>3. o.name \in {"start", "clear_flag"} =>
        SeqMethod(o) = Pulse(IF o.name = "start" THEN "START" ELSE "DONE_CLR")
  BY DEF SeqMethod, StartSequencer
<1>4. o.name = "terminate" => SeqMethod(o) = TerminateSequencer
  BY DEF SeqMethod
<1>5. o.name = "unprocessed" => SeqMethod(o) = UnprocessedCommands
  BY DEF SeqMethod
<1>6. o.name \in {"clear_reports", "enable", "disable"} =>
        SeqMethod(o) = IF o.name = "clear_reports" THEN <<Bit("ERR_REPORT_CLR", 1), Bit("ERR_REPORT_CLR", 0)>>
                       ELSE IF o.name = "enable"
                       THEN <<Bit("ERR_REPORT_SEND_ENABLE", 1), Poll("ERR_REPORT_SEND_ACTIVE", 1)>>
                       ELSE <<Bit("ERR_REPORT_SEND_ENABLE", 0), Poll("ERR_REPORT_SEND_ACTIVE", 0)>>
  BY DEF SeqMethod
<1>7. o.name \in {"wait", "check_err", "set_branch"} =>
        SeqMethod(o) = IF o.name = "wait" THEN <<Poll("DONE", 1)>>
                       ELSE IF o.name = "check_err" THEN <<Get("ERR"), Get("ERR")>>
                       ELSE <<Bit("BRANCH_FLAG_NEG", IF o.arg THEN 0 ELSE 1)>>
  BY DEF SeqMethod
<1> QED BY <1>1, <1>2, <1>3, <1>4, <1>5, <1>6, <1>7 DEF Pulse, TerminateSequencer, UnprocessedCommands

(* The steps of a call that are no access of CTRL. *)
LEMMA StepFacts ==
  ASSUME NEW c \in SeqClients, NEW o \in SeqOps[c]
  PROVE  /\ Len(SeqMethod(o)) \in Nat \ {0}
         /\ \A k \in 1 .. Len(SeqMethod(o)) :
              LET s == SeqMethod(o)[k] IN
              /\ s.kind \in {"bit", "put", "get", "poll", "packet"}
              /\ s.kind \in {"bit", "put"} => o.name \in CtrlOps
              /\ s.kind = "bit" => s = Bit(s.bit, s.val)
              /\ s.kind = "put" => o.name = "initialize" /\ k \in 1 .. 3 /\ (s.reg = "CTRL" <=> k = 3)
              /\ s.kind = "packet" => o.name = "push"
              /\ s.kind = "get" => o.name \in {"push", "unprocessed", "check_err"}
              /\ s.kind = "poll" => o.name \notin {"push", "unprocessed"}
<1>1. o.name \in SeqOpNames /\ (o.name = "push" => o.arg \in Seq(CmdKinds))
  BY Calls
<1>2. CASE o.name = "push"
  <2>1. /\ PacketCount(o.arg) \in Nat \ {0}
        /\ Len(SeqMethod(o)) = PacketCount(o.arg) + 1
        /\ SeqMethod(o)[1] = Get("CMD_BUF_FREE_SPACE")
        /\ \A k \in 2 .. PacketCount(o.arg) + 1 :
             SeqMethod(o)[k] = Packet(SubSeq(o.arg, UpTo(o.arg, k - 2) + 1, UpTo(o.arg, k - 1)))
    BY <1>1, <1>2, PushList
  <2>2. ASSUME NEW k \in 1 .. Len(SeqMethod(o))
        PROVE  SeqMethod(o)[k].kind = (IF k = 1 THEN "get" ELSE "packet")
    <3>1. CASE k = 1
      BY <2>1, <3>1 DEF Get
    <3>2. CASE k # 1
      <4>1. k \in 2 .. PacketCount(o.arg) + 1
        BY <2>1, <3>2
      <4>2. SeqMethod(o)[k] = Packet(SubSeq(o.arg, UpTo(o.arg, k - 2) + 1, UpTo(o.arg, k - 1)))
        BY <2>1, <4>1
      <4>3. \A cmds : Packet(cmds).kind = "packet"
        BY DEF Packet
      <4> QED BY <3>2, <4>2, <4>3
    <3> QED BY <3>1, <3>2
  <2>3. Len(SeqMethod(o)) \in Nat \ {0}
    BY <2>1
  <2> QED BY <1>2, <2>2, <2>3
<1>3. CASE o.name = "initialize"
  <2>1. SeqMethod(o) = <<Put("DEST_UDP_PORT"), Put("DEST_IP_ADDR"), Put("CTRL"), Bit("RESET", 1),
                         Bit("RESET", 0), Bit("BRANCH_FLAG_NEG", 0)>>
    BY <1>3, OtherLists
  <2> QED BY <1>3, <2>1 DEF Bit, Put, CtrlOps, SeqOpNames
<1>4. CASE o.name = "start"
  <2>1. SeqMethod(o) = <<Bit("START", 0), Bit("START", 1), Bit("START", 0)>>
    BY <1>4, OtherLists
  <2> QED BY <1>4, <2>1 DEF Bit, CtrlOps, SeqOpNames
<1>5. CASE o.name = "terminate"
  <2>1. SeqMethod(o) = <<Bit("TERMINATE", 0), Bit("TERMINATE", 1), Poll("BUSY", 0),
                         Bit("TERMINATE", 0)>>
    BY <1>5, OtherLists
  <2> QED BY <1>5, <2>1 DEF Bit, Poll, CtrlOps, SeqOpNames
<1>6. CASE o.name = "clear"
  <2>1. SeqMethod(o) = <<Bit("CMD_CLR", 1), Bit("CMD_CLR", 0), Bit("CMD_COUNTER_RESET", 0),
                         Bit("CMD_COUNTER_RESET", 1), Bit("CMD_COUNTER_RESET", 0)>>
    BY <1>6, OtherLists
  <2> QED BY <1>6, <2>1 DEF Bit, CtrlOps, SeqOpNames
<1>7. CASE o.name = "clear_reports"
  <2>1. SeqMethod(o) = <<Bit("ERR_REPORT_CLR", 1), Bit("ERR_REPORT_CLR", 0)>>
    BY <1>7, OtherLists
  <2> QED BY <1>7, <2>1 DEF Bit, CtrlOps, SeqOpNames
<1>8. CASE o.name = "clear_flag"
  <2>1. SeqMethod(o) = <<Bit("DONE_CLR", 0), Bit("DONE_CLR", 1), Bit("DONE_CLR", 0)>>
    BY <1>8, OtherLists
  <2> QED BY <1>8, <2>1 DEF Bit, CtrlOps, SeqOpNames
<1>9. CASE o.name = "enable"
  <2>1. SeqMethod(o) = <<Bit("ERR_REPORT_SEND_ENABLE", 1), Poll("ERR_REPORT_SEND_ACTIVE", 1)>>
    BY <1>9, OtherLists
  <2> QED BY <1>9, <2>1 DEF Bit, Poll, CtrlOps, SeqOpNames
<1>10. CASE o.name = "disable"
  <2>1. SeqMethod(o) = <<Bit("ERR_REPORT_SEND_ENABLE", 0), Poll("ERR_REPORT_SEND_ACTIVE", 0)>>
    BY <1>10, OtherLists
  <2> QED BY <1>10, <2>1 DEF Bit, Poll, CtrlOps, SeqOpNames
<1>11. CASE o.name = "wait"
  <2>1. SeqMethod(o) = <<Poll("DONE", 1)>>
    BY <1>11, OtherLists
  <2> QED BY <1>11, <2>1 DEF Poll, CtrlOps, SeqOpNames
<1>12. CASE o.name = "unprocessed"
  <2>1. SeqMethod(o) = <<Get("NUM_STORED_CMDS"), Get("CMD_COUNTER")>>
    BY <1>12, OtherLists
  <2> QED BY <1>12, <2>1 DEF Get, CtrlOps, SeqOpNames
<1>13. CASE o.name = "check_err"
  <2>1. SeqMethod(o) = <<Get("ERR"), Get("ERR")>>
    BY <1>13, OtherLists
  <2> QED BY <1>13, <2>1 DEF Get, CtrlOps, SeqOpNames
<1>14. CASE o.name = "set_branch"
  <2>1. SeqMethod(o) = <<Bit("BRANCH_FLAG_NEG", IF o.arg THEN 0 ELSE 1)>>
    BY <1>14, OtherLists
  <2> QED BY <1>14, <2>1 DEF Bit, CtrlOps, SeqOpNames
<1> QED
  BY <1>1, <1>2, <1>3, <1>4, <1>5, <1>6, <1>7, <1>8, <1>9, <1>10, <1>11, <1>12, <1>13, <1>14
  DEF SeqOpNames

(* Raising and lowering a bit. *)
LEMMA RaiseAndLower ==
  ASSUME NEW F, NEW b
  PROVE  /\ Written(Bit(b, 1), F) = F \cup {b} /\ Written(Bit(b, 0), F) = F \ {b}
         /\ b \notin F => Written(Bit(b, 0), F) = F /\ Written(Bit(b, 0), F \cup {b}) = F
<1>1. Written(Bit(b, 1), F) = F \cup {b} /\ \A G : Written(Bit(b, 0), G) = G \ {b}
  BY DEF Written, Bit
<1>2. b \notin F => F \ {b} = F /\ (F \cup {b}) \ {b} = F
  OBVIOUS
<1> QED BY <1>1, <1>2

(* What each step of a call that is alone in CTRL makes of the register.   *)
LEMMA CtrlSteps ==
  ASSUME NEW c \in SeqClients, NEW o \in SeqOps[c], o.name \in CtrlOps, flags \subseteq Flags
  PROVE  /\ CtrlAt(o, 0) = flags /\ CtrlAt(o, Len(SeqMethod(o))) = FlagsAfter(o)
         /\ FlagsAfter(o) \subseteq Flags
         /\ \A k \in 1 .. Len(SeqMethod(o)) :
              LET s == SeqMethod(o)[k] IN
              /\ s.kind = "bit" => Written(s, CtrlAt(o, k - 1)) = CtrlAt(o, k)
              /\ s.kind = "bit" /\ o.name = "initialize" => k > 3
              /\ s.kind = "put" => CtrlAt(o, k) = IF s.reg = "CTRL" THEN {} ELSE CtrlAt(o, k - 1)
              /\ s.kind = "poll" =>
                   o.name \notin {"initialize", "start"} /\ CtrlAt(o, k) = CtrlAt(o, k - 1)
<1>3. CASE o.name = "initialize"
  <2>1. FlagsAfter(o) = {} /\ FlagsAfter(o) \subseteq Flags
    BY <1>3 DEF FlagsAfter
  <2>2. /\ CtrlAt(o, 0) = flags
        /\ CtrlAt(o, 1) = flags
        /\ CtrlAt(o, 2) = flags
        /\ CtrlAt(o, 3) = {}
        /\ CtrlAt(o, 4) = {"RESET"}
        /\ CtrlAt(o, 5) = {}
        /\ CtrlAt(o, 6) = {}
    BY <1>3, <2>1 DEF CtrlAt, Held, FirstFlagStep
  <2>3. SeqMethod(o) = <<Put("DEST_UDP_PORT"), Put("DEST_IP_ADDR"), Put("CTRL"), Bit("RESET", 1),
                         Bit("RESET", 0), Bit("BRANCH_FLAG_NEG", 0)>>
    BY <1>3, OtherLists
  <2>4. /\ Len(SeqMethod(o)) = 6
        /\ SeqMethod(o)[1] = Put("DEST_UDP_PORT")
        /\ SeqMethod(o)[2] = Put("DEST_IP_ADDR")
        /\ SeqMethod(o)[3] = Put("CTRL")
        /\ SeqMethod(o)[4] = Bit("RESET", 1)
        /\ SeqMethod(o)[5] = Bit("RESET", 0)
        /\ SeqMethod(o)[6] = Bit("BRANCH_FLAG_NEG", 0)
    BY <2>3
  <2>5. /\ Written(Bit("RESET", 1), CtrlAt(o, 3)) = CtrlAt(o, 4)
        /\ Written(Bit("RESET", 0), CtrlAt(o, 4)) = CtrlAt(o, 5)
        /\ Written(Bit("BRANCH_FLAG_NEG", 0), CtrlAt(o, 5)) = CtrlAt(o, 6)
    BY <2>1, <2>2, RaiseAndLower
  <2>6. /\ SeqMethod(o)[1].kind = "put"
        /\ SeqMethod(o)[2].kind = "put"
        /\ SeqMethod(o)[3].kind = "put"
        /\ SeqMethod(o)[4].kind = "bit"
        /\ SeqMethod(o)[5].kind = "bit"
        /\ SeqMethod(o)[6].kind = "bit"
        /\ SeqMethod(o)[1].reg # "CTRL"
        /\ SeqMethod(o)[2].reg # "CTRL"
        /\ SeqMethod(o)[3].reg = "CTRL"
    BY <2>4 DEF Bit, Put, Poll
  <2> QED BY <1>3, <2>1, <2>2, <2>4, <2>5, <2>6
<1>4. CASE o.name = "start"
  <2>1. FlagsAfter(o) = flags /\ "START" \notin flags
    BY <1>4 DEF FlagsAfter, Flags
  <2>2. /\ CtrlAt(o, 0) = flags
        /\ CtrlAt(o, 1) = flags
        /\ CtrlAt(o, 2) = flags \cup {"START"}
        /\ CtrlAt(o, 3) = flags
    BY <1>4, <2>1 DEF CtrlAt, Held, FirstFlagStep
  <2>3. SeqMethod(o) = <<Bit("START", 0), Bit("START", 1), Bit("START", 0)>>
    BY <1>4, OtherLists
  <2>4. /\ Len(SeqMethod(o)) = 3
        /\ SeqMethod(o)[1] = Bit("START", 0)
        /\ SeqMethod(o)[2] = Bit("START", 1)
        /\ SeqMethod(o)[3] = Bit("START", 0)
    BY <2>3
  <2>5. /\ Written(Bit("START", 0), CtrlAt(o, 0)) = CtrlAt(o, 1)
        /\ Written(Bit("START", 1), CtrlAt(o, 1)) = CtrlAt(o, 2)
        /\ Written(Bit("START", 0), CtrlAt(o, 2)) = CtrlAt(o, 3)
    BY <2>1, <2>2, RaiseAndLower
  <2>6. /\ SeqMethod(o)[1].kind = "bit"
        /\ SeqMethod(o)[2].kind = "bit"
        /\ SeqMethod(o)[3].kind = "bit"
    BY <2>4 DEF Bit, Put, Poll
  <2> QED BY <1>4, <2>1, <2>2, <2>4, <2>5, <2>6
<1>5. CASE o.name = "terminate"
  <2>1. FlagsAfter(o) = flags /\ "TERMINATE" \notin flags
    BY <1>5 DEF FlagsAfter, Flags
  <2>2. /\ CtrlAt(o, 0) = flags
        /\ CtrlAt(o, 1) = flags
        /\ CtrlAt(o, 2) = flags \cup {"TERMINATE"}
        /\ CtrlAt(o, 3) = flags \cup {"TERMINATE"}
        /\ CtrlAt(o, 4) = flags
    BY <1>5, <2>1 DEF CtrlAt, Held, FirstFlagStep
  <2>3. SeqMethod(o) = <<Bit("TERMINATE", 0), Bit("TERMINATE", 1), Poll("BUSY", 0),
                         Bit("TERMINATE", 0)>>
    BY <1>5, OtherLists
  <2>4. /\ Len(SeqMethod(o)) = 4
        /\ SeqMethod(o)[1] = Bit("TERMINATE", 0)
        /\ SeqMethod(o)[2] = Bit("TERMINATE", 1)
        /\ SeqMethod(o)[3] = Poll("BUSY", 0)
        /\ SeqMethod(o)[4] = Bit("TERMINATE", 0)
    BY <2>3
  <2>5. /\ Written(Bit("TERMINATE", 0), CtrlAt(o, 0)) = CtrlAt(o, 1)
        /\ Written(Bit("TERMINATE", 1), CtrlAt(o, 1)) = CtrlAt(o, 2)
        /\ Written(Bit("TERMINATE", 0), CtrlAt(o, 3)) = CtrlAt(o, 4)
    BY <2>1, <2>2, RaiseAndLower
  <2>6. /\ SeqMethod(o)[1].kind = "bit"
        /\ SeqMethod(o)[2].kind = "bit"
        /\ SeqMethod(o)[3].kind = "poll"
        /\ SeqMethod(o)[4].kind = "bit"
    BY <2>4 DEF Bit, Put, Poll
  <2> QED BY <1>5, <2>1, <2>2, <2>4, <2>5, <2>6
<1>6. CASE o.name = "clear"
  <2>1. FlagsAfter(o) = flags /\ "CMD_CLR" \notin flags /\ "CMD_COUNTER_RESET" \notin flags
    BY <1>6 DEF FlagsAfter, Flags
  <2>2. /\ CtrlAt(o, 0) = flags
        /\ CtrlAt(o, 1) = flags \cup {"CMD_CLR"}
        /\ CtrlAt(o, 2) = flags
        /\ CtrlAt(o, 3) = flags
        /\ CtrlAt(o, 4) = flags \cup {"CMD_COUNTER_RESET"}
        /\ CtrlAt(o, 5) = flags
    BY <1>6, <2>1 DEF CtrlAt, Held, FirstFlagStep
  <2>3. SeqMethod(o) = <<Bit("CMD_CLR", 1), Bit("CMD_CLR", 0), Bit("CMD_COUNTER_RESET", 0),
                         Bit("CMD_COUNTER_RESET", 1), Bit("CMD_COUNTER_RESET", 0)>>
    BY <1>6, OtherLists
  <2>4. /\ Len(SeqMethod(o)) = 5
        /\ SeqMethod(o)[1] = Bit("CMD_CLR", 1)
        /\ SeqMethod(o)[2] = Bit("CMD_CLR", 0)
        /\ SeqMethod(o)[3] = Bit("CMD_COUNTER_RESET", 0)
        /\ SeqMethod(o)[4] = Bit("CMD_COUNTER_RESET", 1)
        /\ SeqMethod(o)[5] = Bit("CMD_COUNTER_RESET", 0)
    BY <2>3
  <2>5. /\ Written(Bit("CMD_CLR", 1), CtrlAt(o, 0)) = CtrlAt(o, 1)
        /\ Written(Bit("CMD_CLR", 0), CtrlAt(o, 1)) = CtrlAt(o, 2)
        /\ Written(Bit("CMD_COUNTER_RESET", 0), CtrlAt(o, 2)) = CtrlAt(o, 3)
        /\ Written(Bit("CMD_COUNTER_RESET", 1), CtrlAt(o, 3)) = CtrlAt(o, 4)
        /\ Written(Bit("CMD_COUNTER_RESET", 0), CtrlAt(o, 4)) = CtrlAt(o, 5)
    <3>1. \A b : Written(Bit(b, 1), flags) = flags \cup {b}
      BY RaiseAndLower
    <3>2. \A b : b \notin flags => /\ Written(Bit(b, 0), flags) = flags
                                  /\ Written(Bit(b, 0), flags \cup {b}) = flags
      BY RaiseAndLower
    <3> QED BY <2>1, <2>2, <3>1, <3>2
  <2>6. /\ SeqMethod(o)[1].kind = "bit"
        /\ SeqMethod(o)[2].kind = "bit"
        /\ SeqMethod(o)[3].kind = "bit"
        /\ SeqMethod(o)[4].kind = "bit"
        /\ SeqMethod(o)[5].kind = "bit"
    BY <2>4 DEF Bit, Put, Poll
  <2> QED BY <1>6, <2>1, <2>2, <2>4, <2>5, <2>6
<1>7. CASE o.name = "clear_reports"
  <2>1. FlagsAfter(o) = flags /\ "ERR_REPORT_CLR" \notin flags
    BY <1>7 DEF FlagsAfter, Flags
  <2>2. /\ CtrlAt(o, 0) = flags
        /\ CtrlAt(o, 1) = flags \cup {"ERR_REPORT_CLR"}
        /\ CtrlAt(o, 2) = flags
    BY <1>7, <2>1 DEF CtrlAt, Held, FirstFlagStep
  <2>3. SeqMethod(o) = <<Bit("ERR_REPORT_CLR", 1), Bit("ERR_REPORT_CLR", 0)>>
    BY <1>7, OtherLists
  <2>4. /\ Len(SeqMethod(o)) = 2
        /\ SeqMethod(o)[1] = Bit("ERR_REPORT_CLR", 1)
        /\ SeqMethod(o)[2] = Bit("ERR_REPORT_CLR", 0)
    BY <2>3
  <2>5. /\ Written(Bit("ERR_REPORT_CLR", 1), CtrlAt(o, 0)) = CtrlAt(o, 1)
        /\ Written(Bit("ERR_REPORT_CLR", 0), CtrlAt(o, 1)) = CtrlAt(o, 2)
    BY <2>1, <2>2, RaiseAndLower
  <2>6. /\ SeqMethod(o)[1].kind = "bit"
        /\ SeqMethod(o)[2].kind = "bit"
    BY <2>4 DEF Bit, Put, Poll
  <2> QED BY <1>7, <2>1, <2>2, <2>4, <2>5, <2>6
<1>8. CASE o.name = "clear_flag"
  <2>1. FlagsAfter(o) = flags /\ "DONE_CLR" \notin flags
    BY <1>8 DEF FlagsAfter, Flags
  <2>2. /\ CtrlAt(o, 0) = flags
        /\ CtrlAt(o, 1) = flags
        /\ CtrlAt(o, 2) = flags \cup {"DONE_CLR"}
        /\ CtrlAt(o, 3) = flags
    BY <1>8, <2>1 DEF CtrlAt, Held, FirstFlagStep
  <2>3. SeqMethod(o) = <<Bit("DONE_CLR", 0), Bit("DONE_CLR", 1), Bit("DONE_CLR", 0)>>
    BY <1>8, OtherLists
  <2>4. /\ Len(SeqMethod(o)) = 3
        /\ SeqMethod(o)[1] = Bit("DONE_CLR", 0)
        /\ SeqMethod(o)[2] = Bit("DONE_CLR", 1)
        /\ SeqMethod(o)[3] = Bit("DONE_CLR", 0)
    BY <2>3
  <2>5. /\ Written(Bit("DONE_CLR", 0), CtrlAt(o, 0)) = CtrlAt(o, 1)
        /\ Written(Bit("DONE_CLR", 1), CtrlAt(o, 1)) = CtrlAt(o, 2)
        /\ Written(Bit("DONE_CLR", 0), CtrlAt(o, 2)) = CtrlAt(o, 3)
    BY <2>1, <2>2, RaiseAndLower
  <2>6. /\ SeqMethod(o)[1].kind = "bit"
        /\ SeqMethod(o)[2].kind = "bit"
        /\ SeqMethod(o)[3].kind = "bit"
    BY <2>4 DEF Bit, Put, Poll
  <2> QED BY <1>8, <2>1, <2>2, <2>4, <2>5, <2>6
<1>9. CASE o.name = "enable"
  <2>1. /\ FlagsAfter(o) = flags \cup {"ERR_REPORT_SEND_ENABLE"}
        /\ FlagsAfter(o) \subseteq Flags
    BY <1>9 DEF FlagsAfter, Flags
  <2>2. /\ CtrlAt(o, 0) = flags
        /\ CtrlAt(o, 1) = FlagsAfter(o)
        /\ CtrlAt(o, 2) = FlagsAfter(o)
    BY <1>9, <2>1 DEF CtrlAt, Held, FirstFlagStep
  <2>3. SeqMethod(o) = <<Bit("ERR_REPORT_SEND_ENABLE", 1), Poll("ERR_REPORT_SEND_ACTIVE", 1)>>
    BY <1>9, OtherLists
  <2>4. /\ Len(SeqMethod(o)) = 2
        /\ SeqMethod(o)[1] = Bit("ERR_REPORT_SEND_ENABLE", 1)
        /\ SeqMethod(o)[2] = Poll("ERR_REPORT_SEND_ACTIVE", 1)
    BY <2>3
  <2>5. Written(Bit("ERR_REPORT_SEND_ENABLE", 1), CtrlAt(o, 0)) = CtrlAt(o, 1)
    BY <2>1, <2>2, RaiseAndLower
  <2>6. /\ SeqMethod(o)[1].kind = "bit"
        /\ SeqMethod(o)[2].kind = "poll"
    BY <2>4 DEF Bit, Put, Poll
  <2> QED BY <1>9, <2>1, <2>2, <2>4, <2>5, <2>6
<1>10. CASE o.name = "disable"
  <2>1. /\ FlagsAfter(o) = flags \ {"ERR_REPORT_SEND_ENABLE"}
        /\ FlagsAfter(o) \subseteq Flags
    BY <1>10 DEF FlagsAfter, Flags
  <2>2. /\ CtrlAt(o, 0) = flags
        /\ CtrlAt(o, 1) = FlagsAfter(o)
        /\ CtrlAt(o, 2) = FlagsAfter(o)
    BY <1>10, <2>1 DEF CtrlAt, Held, FirstFlagStep
  <2>3. SeqMethod(o) = <<Bit("ERR_REPORT_SEND_ENABLE", 0), Poll("ERR_REPORT_SEND_ACTIVE", 0)>>
    BY <1>10, OtherLists
  <2>4. /\ Len(SeqMethod(o)) = 2
        /\ SeqMethod(o)[1] = Bit("ERR_REPORT_SEND_ENABLE", 0)
        /\ SeqMethod(o)[2] = Poll("ERR_REPORT_SEND_ACTIVE", 0)
    BY <2>3
  <2>5. Written(Bit("ERR_REPORT_SEND_ENABLE", 0), CtrlAt(o, 0)) = CtrlAt(o, 1)
    BY <2>1, <2>2, RaiseAndLower
  <2>6. /\ SeqMethod(o)[1].kind = "bit"
        /\ SeqMethod(o)[2].kind = "poll"
    BY <2>4 DEF Bit, Put, Poll
  <2> QED BY <1>10, <2>1, <2>2, <2>4, <2>5, <2>6
<1>11. CASE o.name = "set_branch"
  <2>1. /\ FlagsAfter(o) = (IF o.arg THEN flags \ {"BRANCH_FLAG_NEG"} ELSE flags \cup {"BRANCH_FLAG_NEG"})
        /\ FlagsAfter(o) \subseteq Flags
    BY <1>11 DEF FlagsAfter, Flags
  <2>2. /\ CtrlAt(o, 0) = flags
        /\ CtrlAt(o, 1) = FlagsAfter(o)
    BY <1>11, <2>1 DEF CtrlAt, Held, FirstFlagStep
  <2>3. SeqMethod(o) = <<Bit("BRANCH_FLAG_NEG", IF o.arg THEN 0 ELSE 1)>>
    BY <1>11, OtherLists
  <2>4. Len(SeqMethod(o)) = 1 /\ SeqMethod(o)[1] = Bit("BRANCH_FLAG_NEG", IF o.arg THEN 0 ELSE 1)
    BY <2>3
  <2>5. Written(Bit("BRANCH_FLAG_NEG", IF o.arg THEN 0 ELSE 1), CtrlAt(o, 0)) = CtrlAt(o, 1)
    BY <2>1, <2>2, RaiseAndLower
  <2>6. SeqMethod(o)[1].kind = "bit"
    BY <2>4 DEF Bit, Put, Poll
  <2> QED BY <1>11, <2>1, <2>2, <2>4, <2>5, <2>6
<1> QED
  BY <1>3, <1>4, <1>5, <1>6, <1>7, <1>8, <1>9, <1>10, <1>11 DEF SeqOpNames, CtrlOps

-----------------------------------------------------------------------------
(* Requests. *)

(* A call under way, spelt out. *)
LEMMA CallFacts ==
  ASSUME Types, NEW c \in SeqClients, Calling(c)
  PROVE  /\ CallFits(c, access[c]) /\ access[c].op \in SeqOps[c]
         /\ access[c].name = access[c].op.name /\ access[c].name \in SeqOpNames
         /\ Len(SeqMethod(access[c].op)) \in Nat \ {0}
         /\ access[c].at \in 1 .. Len(SeqMethod(access[c].op)) /\ access[c].at \in Nat \ {0}
         /\ StepOf(c) = SeqMethod(access[c].op)[access[c].at]
         /\ access[c].half \in {"read", "write"} /\ access[c].sent \in BOOLEAN
         /\ access[c].half = "write" => StepOf(c).kind = "bit"
         /\ StepOf(c).kind \in {"bit", "put", "get", "poll", "packet"}
         /\ StepOf(c).kind \in {"bit", "put"} => access[c].name \in CtrlOps
         /\ StepOf(c).kind = "bit" => StepOf(c) = Bit(StepOf(c).bit, StepOf(c).val)
         /\ StepOf(c).kind = "put" =>
              access[c].name = "initialize" /\ access[c].at \in 1 .. 3
              /\ (StepOf(c).reg = "CTRL" <=> access[c].at = 3)
         /\ StepOf(c).kind = "packet" => access[c].name = "push"
         /\ StepOf(c).kind = "get" => access[c].name \in {"push", "unprocessed", "check_err"}
         /\ StepOf(c).kind = "poll" => access[c].name \notin {"push", "unprocessed"}
<1>1. CallFits(c, access[c]) /\ access[c].op \in SeqOps[c]
  BY DEF Types, CallFits
<1>2. access[c].name = access[c].op.name
  BY <1>1 DEF CallFits
<1>3. access[c].op.name \in SeqOpNames
  BY <1>1, Calls
<1>4. /\ access[c].at \in 1 .. Len(SeqMethod(access[c].op))
      /\ access[c].half \in {"read", "write"} /\ access[c].sent \in BOOLEAN
      /\ access[c].half = "write" => SeqMethod(access[c].op)[access[c].at].kind = "bit"
  BY <1>1 DEF CallFits
<1>5. StepOf(c) = SeqMethod(access[c].op)[access[c].at]
  BY DEF StepOf
<1>6. Len(SeqMethod(access[c].op)) \in Nat \ {0}
  BY <1>1, StepFacts
<1>7. access[c].at \in Nat \ {0}
  BY <1>4, <1>6
<1> DEFINE s == SeqMethod(access[c].op)[access[c].at]
           n == access[c].op.name
<1>8. /\ s.kind \in {"bit", "put", "get", "poll", "packet"}
      /\ s.kind \in {"bit", "put"} => n \in CtrlOps
      /\ s.kind = "bit" => s = Bit(s.bit, s.val)
      /\ s.kind = "put" => n = "initialize" /\ access[c].at \in 1 .. 3 /\ (s.reg = "CTRL" <=> access[c].at = 3)
      /\ s.kind = "packet" => n = "push"
      /\ s.kind = "get" => n \in {"push", "unprocessed", "check_err"}
      /\ s.kind = "poll" => n \notin {"push", "unprocessed"}
  BY <1>1, <1>4, StepFacts
<1> QED BY <1>1, <1>2, <1>3, <1>4, <1>5, <1>6, <1>7, <1>8

(* The request of each kind of step. *)
LEMMA RequestIs ==
  ASSUME Types, NEW c \in SeqClients, Calling(c)
  PROVE  LET s == StepOf(c)
             a == access[c]
         IN  /\ s.kind = "bit" /\ a.half = "read" => Request(c) = [kind |-> "read", reg |-> "CTRL", val |-> {}]
             /\ s.kind = "bit" /\ a.half = "write" =>
                  Request(c) = [kind |-> "write", reg |-> "CTRL", val |-> Written(s, a.val)]
             /\ s.kind = "put" => Request(c) = [kind |-> "write", reg |-> s.reg, val |-> {}]
             /\ s.kind = "get" => Request(c) = [kind |-> "read", reg |-> s.reg, val |-> {}]
             /\ s.kind = "poll" => Request(c) = [kind |-> "read", reg |-> "STATUS", val |-> {}]
             /\ s.kind = "packet" => Request(c) = [kind |-> "cmds", reg |-> Len(s.cmds), val |-> s.cmds]
             /\ Socket(Request(c)) \in Sockets
<1>1. StepOf(c).kind = "bit" /\ access[c].half = "read" =>
        Request(c) = [kind |-> "read", reg |-> "CTRL", val |-> {}]
  BY DEF Request
<1>2. StepOf(c).kind = "bit" /\ access[c].half = "write" =>
        Request(c) = [kind |-> "write", reg |-> "CTRL", val |-> Written(StepOf(c), access[c].val)]
  BY DEF Request, Written
<1>3. StepOf(c).kind \in {"put", "get"} =>
        Request(c) = [kind |-> IF StepOf(c).kind = "put" THEN "write" ELSE "read",
                      reg |-> StepOf(c).reg, val |-> {}]
  BY DEF Request
<1>4. StepOf(c).kind = "poll" => Request(c) = [kind |-> "read", reg |-> "STATUS", val |-> {}]
  BY DEF Request
<1>5. StepOf(c).kind = "packet" =>
        Request(c) = [kind |-> "cmds", reg |-> Len(StepOf(c).cmds), val |-> StepOf(c).cmds]
  BY DEF Request
<1>6. Socket(Request(c)) \in Sockets
  BY DEF Socket, Sockets
<1> QED BY <1>1, <1>2, <1>3, <1>4, <1>5, <1>6

(* The request stays the same while the place in the call does.            *)
LEMMA SameRequest ==
  ASSUME NEW c, access'[c].op = access[c].op, access'[c].at = access[c].at,
         access'[c].half = access[c].half, access'[c].val = access[c].val
  PROVE  StepOf(c)' = StepOf(c) /\ Request(c)' = Request(c)
<1>1. StepOf(c)' = StepOf(c)
  BY DEF StepOf
<1> QED BY <1>1 DEF Request

(* A client whose call and sockets a step leaves alone. *)
LEMMA Untouched ==
  ASSUME NEW d, access'[d] = access[d], replies'[d] = replies[d]
  PROVE  /\ StepOf(d)' = StepOf(d) /\ Request(d)' = Request(d) /\ Reply(d)' = Reply(d)
         /\ Heard(d)' = Heard(d) /\ Deaf(d)' = Deaf(d) /\ Matching(d)' = Matching(d)
         /\ Done(d)' = Done(d) /\ Calling(d)' = Calling(d) /\ Pushing(d)' = Pushing(d)
         /\ InCtrlOp(d)' = InCtrlOp(d) /\ InQueueOp(d)' = InQueueOp(d)
<1>1. StepOf(d)' = StepOf(d) /\ Request(d)' = Request(d)
  BY SameRequest
<1>2. Socket(Request(d))' = Socket(Request(d))
  BY <1>1 DEF Socket
<1>3. Reply(d)' = Reply(d) /\ Heard(d)' = Heard(d) /\ Deaf(d)' = Deaf(d)
  BY <1>2 DEF Reply, Heard, Deaf
<1>4. Matching(d)' = Matching(d) /\ Done(d)' = Done(d)
  BY <1>1, <1>3 DEF Matching, Done
<1> QED BY <1>1, <1>3, <1>4 DEF Calling, Pushing, InCtrlOp, InQueueOp

(* A client that has no request under way has done what is before its step. *)
LEMMA NotSent ==
  ASSUME NEW c, ~access[c].sent
  PROVE  ~Heard(c) /\ ~Deaf(c) /\ Done(c) = access[c].at - 1
BY DEF Heard, Deaf, Done

-----------------------------------------------------------------------------
(* What the sequencer does with a request. *)

(* A request that changes neither CTRL nor the FIFO.                       *)
OnlyAsks(c) ==
  \/ StepOf(c).kind \in {"get", "poll"}
  \/ StepOf(c).kind = "bit" /\ access[c].half = "read"
  \/ StepOf(c).kind = "put" /\ StepOf(c).reg # "CTRL"

Stays == UNCHANGED <<ctrl, fifo, overflow>>

Fits(cmds) == Len(fifo) + Len(cmds) <= Capacity

Appended(cmds) ==
  /\ ctrl' = ctrl /\ fifo' \in Seq(CmdKinds) /\ overflow' \in BOOLEAN
  /\ Fits(cmds) => fifo' = fifo \o cmds /\ overflow' = overflow

Changed(new) ==
  /\ ctrl' = new
  /\ fifo' = IF {"RESET", "CMD_CLR"} \cap new # {} THEN <<>> ELSE fifo
  /\ overflow' = IF "RESET" \in new THEN FALSE ELSE overflow

(* The commands of a packet. *)
LEMMA PacketIs ==
  ASSUME Types, NEW c \in SeqClients, Calling(c), access[c].name = "push"
  PROVE  LET arg == access[c].op.arg
             k == access[c].at
         IN  /\ arg \in Seq(CmdKinds) /\ Len(SeqMethod(access[c].op)) = PacketCount(arg) + 1
             /\ k = 1 => StepOf(c) = Get("CMD_BUF_FREE_SPACE")
             /\ k > 1 => StepOf(c) = Packet(SubSeq(arg, UpTo(arg, k - 2) + 1, UpTo(arg, k - 1)))
             /\ StepOf(c).kind = "packet" <=> k > 1
<1> DEFINE o == access[c].op
           k == access[c].at
<1>1. o \in SeqOps[c] /\ o.name = "push" /\ k \in 1 .. Len(SeqMethod(o)) /\ StepOf(c) = SeqMethod(o)[k]
  BY CallFacts
<1>2. o.arg \in Seq(CmdKinds)
  BY <1>1, Calls
<1>3. /\ PacketCount(o.arg) \in Nat \ {0} /\ Len(SeqMethod(o)) = PacketCount(o.arg) + 1
      /\ SeqMethod(o)[1] = Get("CMD_BUF_FREE_SPACE")
      /\ \A i \in 2 .. PacketCount(o.arg) + 1 :
           SeqMethod(o)[i] = Packet(SubSeq(o.arg, UpTo(o.arg, i - 2) + 1, UpTo(o.arg, i - 1)))
  BY <1>1, <1>2, PushList
<1>4. k = 1 => StepOf(c) = Get("CMD_BUF_FREE_SPACE")
  BY <1>1, <1>3
<1>5. k > 1 => StepOf(c) = Packet(SubSeq(o.arg, UpTo(o.arg, k - 2) + 1, UpTo(o.arg, k - 1)))
  <2> SUFFICES ASSUME k > 1 PROVE StepOf(c) = Packet(SubSeq(o.arg, UpTo(o.arg, k - 2) + 1, UpTo(o.arg, k - 1)))
    OBVIOUS
  <2>1. k \in 2 .. PacketCount(o.arg) + 1
    BY <1>1, <1>3
  <2> QED BY <1>1, <1>3, <2>1
<1>6. Get("CMD_BUF_FREE_SPACE").kind = "get" /\ \A cmds : Packet(cmds).kind = "packet"
  BY DEF Get, Packet
<1>7. k = 1 \/ k > 1
  BY <1>1, <1>3
<1>8. StepOf(c).kind = "packet" <=> k > 1
  BY <1>4, <1>5, <1>6, <1>7
<1> QED BY <1>2, <1>3, <1>4, <1>5, <1>8

(* Packets do not reach beyond the commands, and follow one another. *)
LEMMA UpToBounds ==
  ASSUME NEW cmds \in Seq(CmdKinds), NEW i \in Nat
  PROVE  UpTo(cmds, i) \in 0 .. Len(cmds) /\ UpTo(cmds, i) <= UpTo(cmds, i + 1)
<1>1. PacketCmds \in Nat /\ Len(cmds) \in Nat
  BY SequencerConstants
<1> DEFINE m == i * PacketCmds
<1>2. m \in Nat /\ (i + 1) * PacketCmds = m + PacketCmds
  BY <1>1
<1> QED BY <1>1, <1>2 DEF UpTo

(* What the sequencer makes of CTRL and of the FIFO, by the kind of the    *)
(* step that a client is at.                                               *)
LEMMA ServeEffect ==
  ASSUME Types, NEW c \in SeqClients, Calling(c), ServeRequest(c, Request(c))
  PROVE  /\ StepOf(c).kind = "packet" => Appended(StepOf(c).cmds)
         /\ StepOf(c).kind = "bit" /\ access[c].half = "write" => Changed(Written(StepOf(c), access[c].val))
         /\ StepOf(c).kind = "put" /\ StepOf(c).reg = "CTRL" => Changed({})
         /\ StepOf(c).kind = "packet" \/ OnlyAsks(c) => ctrl' = ctrl
         /\ OnlyAsks(c) => Stays
         /\ fifo' \in Seq(CmdKinds) /\ counter' \in Nat /\ overflow' \in BOOLEAN
         /\ dest' \in SeqClients \cup {NoPort}
<1> DEFINE s == StepOf(c)
           a == access[c]
<1>1. /\ s.kind \in {"bit", "put", "get", "poll", "packet"} /\ a.half \in {"read", "write"}
      /\ s.kind = "packet" => a.name = "push"
  BY CallFacts
<1>2. /\ fifo \in Seq(CmdKinds) /\ counter \in Nat /\ overflow \in BOOLEAN
      /\ dest \in SeqClients \cup {NoPort}
  BY DEF Types
<1>3. CASE s.kind = "packet"
  <2>1. ServeRequest(c, Request(c)) => Store(s.cmds)
    <3>1. Request(c) = [kind |-> "cmds", reg |-> Len(s.cmds), val |-> s.cmds]
      BY <1>3, RequestIs
    <3>2. Request(c).kind = "cmds" /\ Request(c).val = s.cmds
      BY <3>1
    <3> QED BY <3>2 DEF ServeRequest
  <2>2. s.cmds \in Seq(CmdKinds)
    <3> DEFINE arg == a.op.arg
               k == a.at
    <3>1. /\ arg \in Seq(CmdKinds) /\ (s.kind = "packet" <=> k > 1)
          /\ k > 1 => s = Packet(SubSeq(arg, UpTo(arg, k - 2) + 1, UpTo(arg, k - 1)))
      BY <1>1, <1>3, PacketIs
    <3>2. s.cmds = SubSeq(arg, UpTo(arg, k - 2) + 1, UpTo(arg, k - 1))
      BY <1>3, <3>1 DEF Packet
    <3>3. k \in Nat \ {0} /\ k > 1
      BY <1>3, <3>1, CallFacts
    <3>4. k - 2 \in Nat /\ k - 1 \in Nat
      BY <3>3
    <3>5. UpTo(arg, k - 2) \in 0 .. Len(arg) /\ UpTo(arg, k - 1) \in 0 .. Len(arg)
      BY <3>1, <3>4, UpToBounds
    <3> QED BY <3>1, <3>2, <3>5, SMTT(30)
  <2> DEFINE room == Capacity - Len(fifo)
             cmds == s.cmds
  <2>3. /\ fifo' = fifo \o (IF Len(cmds) > room THEN SubSeq(cmds, 1, room) ELSE cmds)
        /\ overflow' = (overflow \/ Len(cmds) > room)
        /\ UNCHANGED <<ctrl, counter, status, dest>>
    BY <2>1 DEF Store
  <2>4. room \in Int /\ Len(cmds) \in Nat /\ Len(fifo) \in Nat
    BY <1>2, <2>2, SequencerConstants
  <2>5. Len(cmds) > room => SubSeq(cmds, 1, room) \in Seq(CmdKinds)
    <3> HIDE DEF room, cmds
    <3> QED BY <2>2, <2>4 DEF cmds
  <2>6. fifo' \in Seq(CmdKinds)
    BY <1>2, <2>2, <2>3, <2>5
  <2>7. Fits(cmds) => ~(Len(cmds) > room)
    BY <2>4, SequencerConstants DEF Fits
  <2>8. Appended(cmds)
    BY <1>2, <2>3, <2>6, <2>7 DEF Appended
  <2>9. ~OnlyAsks(c)
    BY <1>3 DEF OnlyAsks
  <2> QED BY <1>2, <1>3, <2>3, <2>6, <2>8, <2>9
<1>4. ASSUME NEW new, WriteSeqCtrl(new)
      PROVE  /\ Changed(new) /\ counter' \in Nat /\ dest' = dest
             /\ fifo' \in Seq(CmdKinds) /\ overflow' \in BOOLEAN
  <2>1. /\ ctrl' = new /\ dest' = dest
        /\ fifo' = IF "RESET" \in new THEN <<>> ELSE IF "CMD_CLR" \in new THEN <<>> ELSE fifo
        /\ overflow' = IF "RESET" \in new THEN FALSE ELSE overflow
        /\ counter' \in {0, counter}
    BY <1>4 DEF WriteSeqCtrl
  <2>2. {"RESET", "CMD_CLR"} \cap new # {} <=> "RESET" \in new \/ "CMD_CLR" \in new
    OBVIOUS
  <2>3. Changed(new)
    BY <2>1, <2>2 DEF Changed
  <2>4. <<>> \in Seq(CmdKinds)
    OBVIOUS
  <2>5. overflow' \in BOOLEAN
    <3>1. overflow' = FALSE \/ overflow' = overflow
      BY <2>1
    <3> QED BY <1>2, <3>1
  <2>6. fifo' \in Seq(CmdKinds)
    BY <1>2, <2>1, <2>4
  <2>7. counter' \in Nat
    BY <1>2, <2>1
  <2> QED BY <2>1, <2>3, <2>5, <2>6, <2>7
<1>5. CASE s.kind = "bit" /\ a.half = "write"
  <2>0. Request(c) = [kind |-> "write", reg |-> "CTRL", val |-> Written(s, a.val)]
    BY <1>5, RequestIs
  <2>1. WriteSeqCtrl(Written(s, a.val))
    <3>1. /\ Request(c).kind = "write" /\ Request(c).reg = "CTRL"
          /\ Request(c).val = Written(s, a.val)
      BY <2>0
    <3> QED BY <3>1 DEF ServeRequest
  <2>2. Changed(Written(s, a.val)) /\ counter' \in Nat /\ dest' = dest
    BY <2>1, <1>4
  <2>3. fifo' \in Seq(CmdKinds) /\ overflow' \in BOOLEAN
    BY <2>1, <1>4
  <2>4. ~OnlyAsks(c)
    BY <1>5 DEF OnlyAsks
  <2> QED BY <1>2, <1>5, <2>2, <2>3, <2>4
<1>6. CASE s.kind = "put" /\ s.reg = "CTRL"
  <2>0. Request(c) = [kind |-> "write", reg |-> "CTRL", val |-> {}]
    BY <1>6, RequestIs
  <2>1. WriteSeqCtrl({})
    <3>1. /\ Request(c).kind = "write" /\ Request(c).reg = "CTRL"
          /\ Request(c).val = {}
      BY <2>0
    <3> QED BY <3>1 DEF ServeRequest
  <2>2. Changed({}) /\ counter' \in Nat /\ dest' = dest
    BY <2>1, <1>4
  <2>3. fifo' \in Seq(CmdKinds) /\ overflow' \in BOOLEAN
    BY <2>1, <1>4
  <2>4. ~OnlyAsks(c)
    BY <1>6 DEF OnlyAsks
  <2> QED BY <1>2, <1>6, <2>2, <2>3, <2>4
<1>7. ASSUME s.kind = "put", s.reg # "CTRL" PROVE Stays /\ counter' \in Nat /\ dest' \in {c, dest}
  <2>1. UNCHANGED <<ctrl, fifo, counter, status, overflow>> /\ dest' \in {c, dest}
    BY <1>7, RequestIs DEF ServeRequest, deviceSeqVars
  <2> QED BY <1>2, <2>1 DEF Stays
<1>8. ASSUME s.kind \in {"get", "poll"} \/ (s.kind = "bit" /\ a.half = "read")
      PROVE  Stays /\ counter' \in Nat /\ dest' = dest
  <2>1. Request(c).kind = "read"
    BY <1>8, RequestIs
  <2>2. UNCHANGED deviceSeqVars
    BY <2>1 DEF ServeRequest
  <2> QED BY <1>2, <2>2 DEF Stays, deviceSeqVars
<1>9. CASE OnlyAsks(c)
  <2>1. Stays /\ counter' \in Nat /\ dest' \in {c, dest}
    BY <1>7, <1>8, <1>9 DEF OnlyAsks
  <2>2. ctrl' = ctrl /\ fifo' = fifo /\ overflow' = overflow
    BY <2>1 DEF Stays
  <2>3. ~(s.kind = "packet") /\ ~(s.kind = "bit" /\ a.half = "write") /\ ~(s.kind = "put" /\ s.reg = "CTRL")
    BY <1>9 DEF OnlyAsks
  <2> QED BY <1>2, <2>1, <2>2, <2>3
<1> QED BY <1>1, <1>3, <1>5, <1>6, <1>9 DEF OnlyAsks

(* What it means for the calls under way. *)
LEMMA NoticeEffect ==
  ASSUME Types, NEW c \in SeqClients, Notice(c), fifo' \in Seq(CmdKinds), counter' \in Nat
  PROVE  /\ seen' \in [SeqClients -> SeenType]
         /\ \A d \in SeqClients :
              /\ seen'[d].crossed = seen[d].crossed /\ seen'[d].before = seen[d].before
              /\ d # c =>
                   /\ seen'[d].port = seen[d].port /\ seen'[d].starts = seen[d].starts
                   /\ seen'[d].truth = seen[d].truth
                   /\ fifo' = fifo => seen'[d].mixed = seen[d].mixed
                   /\ ~seen'[d].mixed => ~seen[d].mixed /\ fifo' = fifo
                   /\ ~seen'[d].moved => ~seen[d].moved
                   /\ ~seen'[d].moved /\ Calling(d) /\ access[d].name = "unprocessed" =>
                        fifo' = fifo \/ (access[d].at = 2 /\ access[d].sent)
         /\ seen'[c].port <=> seen[c].port /\ dest' = c
         /\ seen'[c].mixed = seen[c].mixed
         /\ seen'[c].starts = seen[c].starts + (IF EdgeOf("START", ctrl') THEN 1 ELSE 0)
         /\ Calling(c) /\ access[c].name = "unprocessed" =>
              /\ access[c].at = 2 => seen'[c].moved = seen[c].moved /\ seen'[c].truth = Len(fifo) - counter
<1> DEFINE counting(d) == Calling(d) /\ access[d].name = "unprocessed"
           last(d) == counting(d) /\ access[d].at = 2
           portOf(d) == seen[d].port /\ (d = c => dest' = c)
           mixedOf(d) == seen[d].mixed \/ (d # c /\ fifo' # fifo)
           startsOf(d) == seen[d].starts + (IF d = c /\ EdgeOf("START", ctrl') THEN 1 ELSE 0)
           movedOf(d) == IF d = c /\ counting(d) THEN last(d) /\ seen[d].moved
                         ELSE seen[d].moved \/ (counting(d) /\ fifo' # fifo /\ ~(last(d) /\ access[d].sent))
           truthOf(d) == IF d = c /\ last(d) THEN Len(fifo) - counter ELSE seen[d].truth
<1>1. seen \in [SeqClients -> SeenType] /\ fifo \in Seq(CmdKinds) /\ counter \in Nat
  BY DEF Types
<1>2. \A d \in SeqClients : seen[d] \in SeenType
  BY <1>1
<1>3. seen' = [d \in SeqClients |->
                [seen[d] EXCEPT !.port = portOf(d), !.mixed = mixedOf(d), !.starts = startsOf(d),
                                !.moved = movedOf(d), !.truth = truthOf(d)]]
  <2>1. \A d \in SeqClients :
          [seen[d] EXCEPT !.port = @ /\ (d = c => dest' = c), !.mixed = @ \/ (d # c /\ fifo' # fifo),
                          !.starts = @ + (IF d = c /\ EdgeOf("START", ctrl') THEN 1 ELSE 0),
                          !.moved = IF d = c /\ counting(d) THEN last(d) /\ @
                                    ELSE @ \/ (counting(d) /\ fifo' # fifo /\ ~(last(d) /\ access[d].sent)),
                          !.truth = IF d = c /\ last(d) THEN Len(fifo) - counter ELSE @]
          = [seen[d] EXCEPT !.port = portOf(d), !.mixed = mixedOf(d), !.starts = startsOf(d),
                            !.moved = movedOf(d), !.truth = truthOf(d)]
    BY <1>2 DEF SeenType
  <2> QED BY <2>1 DEF Notice
<1>4. ASSUME NEW d \in SeqClients
      PROVE  /\ portOf(d) \in BOOLEAN /\ mixedOf(d) \in BOOLEAN /\ startsOf(d) \in Nat
             /\ movedOf(d) \in BOOLEAN /\ truthOf(d) \in Int
  <2>1. /\ seen[d].port \in BOOLEAN /\ seen[d].mixed \in BOOLEAN /\ seen[d].moved \in BOOLEAN
        /\ seen[d].starts \in Nat /\ seen[d].truth \in Int
    BY <1>2 DEF SeenType
  <2>2. startsOf(d) \in Nat
    BY <2>1
  <2>3. truthOf(d) \in Int
    BY <1>1, <2>1
  <2>4. portOf(d) \in BOOLEAN /\ mixedOf(d) \in BOOLEAN
    BY <2>1
  <2>5. movedOf(d) \in BOOLEAN
    BY <2>1
  <2> QED BY <2>2, <2>3, <2>4, <2>5
<1> HIDE DEF portOf, mixedOf, startsOf, movedOf, truthOf
<1>5. ASSUME NEW d \in SeqClients
      PROVE  /\ seen'[d] \in SeenType
             /\ seen'[d].crossed = seen[d].crossed /\ seen'[d].before = seen[d].before
             /\ seen'[d].port = portOf(d) /\ seen'[d].mixed = mixedOf(d)
             /\ seen'[d].starts = startsOf(d) /\ seen'[d].moved = movedOf(d) /\ seen'[d].truth = truthOf(d)
  <2>1. seen[d] \in SeenType
    BY <1>2
  <2>2. /\ portOf(d) \in BOOLEAN /\ mixedOf(d) \in BOOLEAN /\ startsOf(d) \in Nat
        /\ movedOf(d) \in BOOLEAN /\ truthOf(d) \in Int
    BY <1>4
  <2>3. seen'[d] = [seen[d] EXCEPT !.port = portOf(d), !.mixed = mixedOf(d), !.starts = startsOf(d),
                                   !.moved = movedOf(d), !.truth = truthOf(d)]
    BY <1>3
  <2> QED BY <2>1, <2>2, <2>3 DEF SeenType
<1>6. seen' \in [SeqClients -> SeenType]
  BY <1>3, <1>5
<1>7. ASSUME NEW d \in SeqClients, d # c
      PROVE  /\ seen'[d].port = seen[d].port /\ seen'[d].starts = seen[d].starts
             /\ seen'[d].truth = seen[d].truth
             /\ fifo' = fifo => seen'[d].mixed = seen[d].mixed
             /\ ~seen'[d].mixed => ~seen[d].mixed /\ fifo' = fifo
             /\ ~seen'[d].moved => ~seen[d].moved
             /\ ~seen'[d].moved /\ Calling(d) /\ access[d].name = "unprocessed" =>
                  fifo' = fifo \/ (access[d].at = 2 /\ access[d].sent)
  <2>1. /\ seen[d].port \in BOOLEAN /\ seen[d].mixed \in BOOLEAN /\ seen[d].moved \in BOOLEAN
        /\ seen[d].starts \in Nat /\ seen[d].truth \in Int
    BY <1>2 DEF SeenType
  <2>2. seen'[d].port = seen[d].port
    BY <1>5, <1>7, <2>1 DEF portOf
  <2>3. seen'[d].starts = seen[d].starts
    BY <1>5, <1>7, <2>1 DEF startsOf
  <2>4. seen'[d].truth = seen[d].truth
    BY <1>5, <1>7 DEF truthOf
  <2>5. seen'[d].mixed <=> seen[d].mixed \/ fifo' # fifo
    BY <1>5, <1>7 DEF mixedOf
  <2>6. seen'[d].moved <=> seen[d].moved \/ (counting(d) /\ fifo' # fifo /\ ~(last(d) /\ access[d].sent))
    BY <1>5, <1>7 DEF movedOf
  <2>7. seen'[d].mixed \in BOOLEAN
    BY <1>5 DEF SeenType
  <2>8. fifo' = fifo => seen'[d].mixed = seen[d].mixed
    BY <2>1, <2>5, <2>7
  <2> QED BY <2>2, <2>3, <2>4, <2>5, <2>6, <2>8
<1>8. /\ seen'[c].port <=> seen[c].port /\ dest' = c
      /\ seen'[c].starts = seen[c].starts + (IF EdgeOf("START", ctrl') THEN 1 ELSE 0)
      /\ Calling(c) /\ access[c].name = "unprocessed" /\ access[c].at = 2 =>
           seen'[c].moved = seen[c].moved /\ seen'[c].truth = Len(fifo) - counter
  <2>1. seen[c].port \in BOOLEAN /\ seen[c].moved \in BOOLEAN
    BY <1>2 DEF SeenType
  <2>2. seen'[c].port <=> seen[c].port /\ dest' = c
    BY <1>5 DEF portOf
  <2>3. seen'[c].starts = seen[c].starts + (IF EdgeOf("START", ctrl') THEN 1 ELSE 0)
    BY <1>5 DEF startsOf
  <2>4. last(c) => seen'[c].truth = Len(fifo) - counter
    BY <1>5 DEF truthOf
  <2>5. last(c) => seen'[c].moved = seen[c].moved
    BY <1>5, <2>1 DEF movedOf
  <2> QED BY <2>2, <2>3, <2>4, <2>5
<1>9. seen'[c].mixed = seen[c].mixed
  <2>1. seen[c].mixed \in BOOLEAN
    BY <1>2 DEF SeenType
  <2> QED BY <1>5, <2>1 DEF mixedOf
<1> QED BY <1>5, <1>6, <1>7, <1>8, <1>9

-----------------------------------------------------------------------------
(* A request is sent. *)

Served(c) ==
  /\ ServeRequest(c, Request(c)) /\ Notice(c)
  /\ crowded' = IF Resets(Request(c)) THEN \E d \in SeqClients \ {c} : InQueueOp(d) ELSE crowded

Unserved == UNCHANGED <<ctrl, fifo, counter, overflow, dest, seen, crowded, replies, strayed>>

(* Where the reply goes: nowhere, or to the client that has the port.      *)
Delivered(c) ==
  \/ UNCHANGED <<replies, strayed>>
  \/ /\ dest' \in SeqClients
     /\ replies' = [replies EXCEPT ![dest'][Socket(Request(c))] = Append(@, ReplyTo(Request(c)))]
     /\ strayed' = strayed \cup ({dest'} \ {c})

(* A request is lost; or it is served, and its reply is delivered or not.  *)
LEMMA SendIs ==
  ASSUME Types, NEW c \in SeqClients, SendRequest(c)
  PROVE  /\ Calling(c) /\ ~access[c].sent
         /\ access' = [access EXCEPT ![c].sent = TRUE]
         /\ outcome' = NoOutcome /\ UNCHANGED <<flags, settled>>
         /\ Unserved \/ (Served(c) /\ Delivered(c))
<1> DEFINE r == Request(c)
           lost == UNCHANGED <<replies, strayed>> /\ losses < MAX_SEQ_LOSSES /\ losses' = losses + 1
           sends == /\ dest' # NoPort
                    /\ replies' = [replies EXCEPT ![dest'][Socket(r)] = Append(@, ReplyTo(r))]
                    /\ strayed' = strayed \cup ({dest'} \ {c})
                    /\ UNCHANGED losses
           gone == dest' = NoPort /\ UNCHANGED <<replies, strayed, losses>>
<1>1. /\ Calling(c) /\ ~access[c].sent /\ access' = [access EXCEPT ![c].sent = TRUE]
      /\ outcome' = NoOutcome /\ UNCHANGED <<flags, settled>>
  BY DEF SendRequest
<1>2. \/ lost /\ UNCHANGED <<deviceSeqVars, seen, crowded>>
      \/ Served(c) /\ (lost \/ gone \/ sends)
  BY DEF SendRequest, Served
<1>3. lost /\ UNCHANGED <<deviceSeqVars, seen, crowded>> => Unserved
  BY DEF Unserved, deviceSeqVars
<1>4. lost \/ gone => Delivered(c)
  BY DEF Delivered
<1>5. Served(c) /\ sends => Delivered(c)
  <2> SUFFICES ASSUME Served(c), sends PROVE Delivered(c)
    OBVIOUS
  <2>1. dest' \in SeqClients \cup {NoPort}
    BY <1>1, ServeEffect DEF Served
  <2> QED BY <2>1 DEF Delivered
<1> QED BY <1>1, <1>2, <1>3, <1>4, <1>5

(* A call with one field changed. *)
LEMMA WithSent ==
  ASSUME NEW n, NEW o, NEW k, NEW h, NEW t, NEW v, NEW g, NEW x
  PROVE  [[name |-> n, op |-> o, at |-> k, half |-> h, sent |-> t, val |-> v, got |-> g] EXCEPT !.sent = x]
         = [name |-> n, op |-> o, at |-> k, half |-> h, sent |-> x, val |-> v, got |-> g]
OBVIOUS

(* What becomes of each client when c sends a request.                     *)
LEMMA SendEffect ==
  ASSUME Types, NEW c \in SeqClients, SendRequest(c)
  PROVE  /\ \A d \in SeqClients \ {c} : access'[d] = access[d]
         /\ access' = [d \in SeqClients |-> access'[d]]
         /\ access'[c] = [access[c] EXCEPT !.sent = TRUE]
         /\ access'[c].sent /\ CallFits(c, access'[c]) /\ Calling(c)'
         /\ access'[c].name = access[c].name /\ access'[c].op = access[c].op
         /\ access'[c].at = access[c].at /\ access'[c].half = access[c].half
         /\ access'[c].val = access[c].val /\ access'[c].got = access[c].got
         /\ StepOf(c)' = StepOf(c) /\ Request(c)' = Request(c)
         /\ replies' = [d \in SeqClients |-> [s \in Sockets |-> replies'[d][s]]]
         /\ strayed \subseteq strayed' /\ strayed' \subseteq SeqClients
         /\ \A d \in SeqClients \ {c} : d \notin strayed' => replies'[d] = replies[d]
         /\ \/ replies'[c] = replies[c]
            \/ /\ Served(c) /\ dest' = c
               /\ \A s \in Sockets \ {Socket(Request(c))} : replies'[c][s] = replies[c][s]
               /\ replies'[c][Socket(Request(c))] =
                    Append(replies[c][Socket(Request(c))], ReplyTo(Request(c)))
            \/ c \in strayed'
<1>1. /\ Calling(c) /\ ~access[c].sent
      /\ access' = [access EXCEPT ![c].sent = TRUE]
      /\ Unserved \/ (Served(c) /\ Delivered(c))
  BY SendIs
<1>2. /\ access = [d \in SeqClients |-> access[d]]
      /\ replies = [d \in SeqClients |-> [s \in Sockets |-> replies[d][s]]]
      /\ strayed \subseteq SeqClients
  BY DEF Types
<1>3. /\ \A d \in SeqClients \ {c} : access'[d] = access[d]
      /\ access'[c] = [access[c] EXCEPT !.sent = TRUE]
      /\ access' = [d \in SeqClients |-> access'[d]]
  BY <1>1, <1>2
<1>4. access[c] = [name |-> access[c].op.name, op |-> access[c].op, at |-> access[c].at,
                   half |-> access[c].half, sent |-> access[c].sent, val |-> access[c].val,
                   got |-> access[c].got]
  BY <1>1, CallFacts DEF CallFits
<1>5. access'[c] = [name |-> access[c].op.name, op |-> access[c].op, at |-> access[c].at,
                    half |-> access[c].half, sent |-> TRUE, val |-> access[c].val,
                    got |-> access[c].got]
  <2>1. PICK o, k, h, t, v, g : /\ o = access[c].op /\ k = access[c].at /\ h = access[c].half
                                /\ t = access[c].sent /\ v = access[c].val /\ g = access[c].got
    OBVIOUS
  <2>2. access[c] = [name |-> o.name, op |-> o, at |-> k, half |-> h, sent |-> t, val |-> v, got |-> g]
    BY <1>4, <2>1
  <2>3. access'[c] = [name |-> o.name, op |-> o, at |-> k, half |-> h, sent |-> TRUE, val |-> v, got |-> g]
    <3>1. access'[c] = [access[c] EXCEPT !.sent = TRUE]
      BY <1>3
    <3>2. access'[c] = [[name |-> o.name, op |-> o, at |-> k, half |-> h, sent |-> t, val |-> v, got |-> g]
                          EXCEPT !.sent = TRUE]
      BY <2>2, <3>1, Zenon
    <3> QED BY <3>2, WithSent
  <2> QED BY <2>1, <2>3
<1>6. /\ access'[c].sent = TRUE
      /\ access'[c].name = access[c].name /\ access'[c].op = access[c].op
      /\ access'[c].at = access[c].at /\ access'[c].half = access[c].half
      /\ access'[c].val = access[c].val /\ access'[c].got = access[c].got
  BY <1>4, <1>5
<1>7. CallFits(c, access'[c])
  <2>1. CallFits(c, access[c])
    BY <1>1, CallFacts
  <2> QED BY <1>5, <1>6, <2>1 DEF CallFits
<1>8. Calling(c)'
  <2>1. access'[c].name \in SeqOpNames
    BY <1>1, <1>6, CallFacts
  <2> QED BY <2>1 DEF Calling, NoAccess, SeqOpNames
<1>9. StepOf(c)' = StepOf(c) /\ Request(c)' = Request(c)
  BY <1>6, SameRequest
<1>10. Socket(Request(c)) \in Sockets
  BY <1>1, RequestIs
<1>11. CASE UNCHANGED <<replies, strayed>>
  BY <1>2, <1>3, <1>6, <1>7, <1>8, <1>9, <1>11
<1>12. CASE Served(c) /\ ~(UNCHANGED <<replies, strayed>>)
  <2> DEFINE k == Socket(Request(c))
  <2>1. /\ dest' \in SeqClients
        /\ replies' = [replies EXCEPT ![dest'][k] = Append(@, ReplyTo(Request(c)))]
        /\ strayed' = strayed \cup ({dest'} \ {c})
    BY <1>1, <1>12 DEF Delivered, Unserved
  <2>2. PICK e \in SeqClients : e = dest'
    BY <2>1
  <2>3. PICK m : m = Append(replies[e][k], ReplyTo(Request(c)))
    OBVIOUS
  <2>4. replies' = [replies EXCEPT ![e] = [replies[e] EXCEPT ![k] = m]]
    BY <2>1, <2>2, <2>3
  <2>5. k \in Sockets
    BY <1>10
  <2> HIDE DEF k
  <2>6. /\ \A d \in SeqClients \ {e} : replies'[d] = replies[d]
        /\ replies'[e] = [replies[e] EXCEPT ![k] = m]
        /\ replies' = [d \in SeqClients |-> replies'[d]]
    BY <1>2, <2>4
  <2>7. \A d \in SeqClients : replies[d] = [s \in Sockets |-> replies[d][s]]
    BY <1>2
  <2>8. /\ \A s \in Sockets \ {k} : replies'[e][s] = replies[e][s]
        /\ replies'[e][k] = m
        /\ replies'[e] = [s \in Sockets |-> replies'[e][s]]
    BY <2>5, <2>6, <2>7
  <2>9. \A d \in SeqClients : replies'[d] = [s \in Sockets |-> replies'[d][s]]
    BY ZenonT(30), <2>6, <2>7, <2>8
  <2>10. replies' = [d \in SeqClients |-> [s \in Sockets |-> replies'[d][s]]]
    BY <2>6, <2>9
  <2>11. strayed \subseteq strayed' /\ strayed' \subseteq SeqClients
    BY <1>2, <2>1
  <2>12. e # c => e \in strayed'
    BY <2>1, <2>2
  <2>13. \A d \in SeqClients \ {c} : d \notin strayed' => replies'[d] = replies[d]
    BY <2>6, <2>12
  <2>14. CASE e = c
    <3>1. /\ Served(c) /\ dest' = c
          /\ \A s \in Sockets \ {k} : replies'[c][s] = replies[c][s]
          /\ replies'[c][k] = Append(replies[c][k], ReplyTo(Request(c)))
      BY <1>12, <2>2, <2>3, <2>8, <2>14
    <3> QED BY <1>3, <1>6, <1>7, <1>8, <1>9, <2>10, <2>11, <2>13, <3>1 DEF k
  <2>15. CASE e # c
    <3>1. replies'[c] = replies[c]
      BY <2>6, <2>15
    <3> QED BY <1>3, <1>6, <1>7, <1>8, <1>9, <2>10, <2>11, <2>13, <3>1
  <2> QED BY <2>14, <2>15
<1> QED BY <1>1, <1>11, <1>12 DEF Unserved

-----------------------------------------------------------------------------
(* A reply is taken. *)

(* The call of c goes on, or has ended; the others do not notice.          *)
Taken(c) ==
  /\ \A d \in SeqClients \ {c} : replies'[d] = replies[d]
  /\ \A s \in Sockets \ {Socket(Request(c))} : replies'[c][s] = replies[c][s]
  /\ replies' = [d \in SeqClients |-> [s \in Sockets |-> replies'[d][s]]]

SameDevice == UNCHANGED <<ctrl, fifo, counter, overflow, dest, strayed, crowded>>

Moves(c) ==
  /\ \A d \in SeqClients \ {c} : access'[d] = access[d]
  /\ access' = [d \in SeqClients |-> access'[d]]
  /\ Calling(c)' /\ CallFits(c, access'[c]) /\ ~access'[c].sent
  /\ access'[c].op = access[c].op /\ access'[c].name = access[c].name
  /\ SameDevice /\ UNCHANGED <<seen, flags, settled>> /\ outcome' = NoOutcome

Halfway(c) ==
  /\ Moves(c) /\ StepOf(c).kind = "bit" /\ access[c].half = "read"
  /\ access'[c].at = access[c].at /\ access'[c].half = "write" /\ access'[c].val = Reply(c).val

PollsAgain(c) ==
  /\ Moves(c) /\ StepOf(c).kind = "poll"
  /\ access'[c].at = access[c].at /\ access'[c].half = access[c].half

(* A step is over; what push_commands and num_unprocessed_commands read in it. *)
StepOver(c) ==
  /\ StepOf(c).kind = "bit" => access[c].half = "write"
  /\ access[c].name = "push" /\ access[c].at = 1 => ~(Len(access[c].op.arg) > Reply(c).val)

GoesOn(c) ==
  /\ Moves(c) /\ StepOver(c)
  /\ access'[c].at = access[c].at + 1 /\ access'[c].half = "read"
  /\ access[c].name = "unprocessed" =>
       access[c].at = 1 /\ access'[c].got["NUM_STORED_CMDS"] = Reply(c).val

Ends(c, result) ==
  /\ \A d \in SeqClients \ {c} : access'[d] = access[d] /\ seen'[d] = seen[d]
  /\ access' = [d \in SeqClients |-> access'[d]]
  /\ ~Calling(c)' /\ access'[c] = NoAccess
  /\ seen' \in [SeqClients -> SeenType]
  /\ outcome' = [name |-> access[c].name, result |-> result, by |-> c, arg |-> access[c].op.arg,
                 seen |-> seen[c]]
  /\ SameDevice
  /\ LET known == result = "ok" /\ ~seen[c].crossed /\ c \notin strayed
         o == access[c].op
     IN  /\ flags' = IF InCtrlOp(c) /\ known THEN FlagsAfter(o) ELSE flags
         /\ settled' = IF ~InCtrlOp(c) THEN settled ELSE known /\ (settled \/ o.name = "initialize")

EndsOk(c) ==
  /\ Ends(c, "ok") /\ StepOver(c) /\ access[c].at = Len(SeqMethod(access[c].op))
  /\ access[c].name # "unprocessed"

EndsRefused(c) ==
  Ends(c, "refused") /\ access[c].name = "push" /\ access[c].at = 1 /\ Len(access[c].op.arg) > Reply(c).val

EndsCounted(c) ==
  /\ access[c].name = "unprocessed" /\ access[c].at = 2
  /\ Ends(c, IF access[c].got["NUM_STORED_CMDS"] - Reply(c).val = seen[c].truth THEN "ok" ELSE "miscounted")

(* A reply is taken from its socket; the other sockets are left alone.     *)
LEMMA TakeEffect ==
  ASSUME Types, NEW c \in SeqClients, TakeReply(c)
  PROVE  /\ Calling(c) /\ Heard(c) /\ Taken(c)
         /\ replies'[c][Socket(Request(c))] = Tail(replies[c][Socket(Request(c))])
<1> DEFINE k == Socket(Request(c))
<1>1. Calling(c) /\ Heard(c) /\ replies' = [replies EXCEPT ![c][k] = Tail(@)]
  BY DEF TakeReply, Heard
<1>2. k \in Sockets
  BY <1>1, RequestIs
<1>3. replies = [d \in SeqClients |-> [s \in Sockets |-> replies[d][s]]]
  BY DEF Types
<1>4. PICK m : m = Tail(replies[c][k])
  OBVIOUS
<1>5. replies' = [replies EXCEPT ![c] = [replies[c] EXCEPT ![k] = m]]
  BY <1>1, <1>4
<1> HIDE DEF k
<1>6. /\ \A d \in SeqClients \ {c} : replies'[d] = replies[d]
      /\ replies'[c] = [replies[c] EXCEPT ![k] = m]
      /\ replies' = [d \in SeqClients |-> replies'[d]]
  BY <1>3, <1>5
<1>7. \A d \in SeqClients : replies[d] = [s \in Sockets |-> replies[d][s]]
  BY <1>3
<1>8. /\ \A s \in Sockets \ {k} : replies'[c][s] = replies[c][s]
      /\ replies'[c][k] = m
      /\ replies'[c] = [s \in Sockets |-> replies'[c][s]]
  BY <1>2, <1>6, <1>7
<1>9. replies' = [d \in SeqClients |-> [s \in Sockets |-> replies'[d][s]]]
  <2>1. \A d \in SeqClients : replies'[d] = [s \in Sockets |-> replies'[d][s]]
    BY ZenonT(30), <1>6, <1>7, <1>8
  <2> QED BY <1>6, <2>1
<1> QED BY <1>1, <1>4, <1>6, <1>8, <1>9 DEF Taken, k

(* The call ends. *)
LEMMA EndEffect ==
  ASSUME Types, NEW c \in SeqClients, Calling(c), NEW result, EndCall(c, result)
  PROVE  Ends(c, result)
<1>1. /\ access' = [access EXCEPT ![c] = NoAccess]
      /\ outcome' = [name |-> access[c].op.name, result |-> result, by |-> c, arg |-> access[c].op.arg,
                     seen |-> seen[c]]
      /\ seen' = [seen EXCEPT ![c] = NothingSeen]
      /\ UNCHANGED <<deviceSeqVars, strayed, crowded>>
  BY DEF EndCall
<1>2. access = [d \in SeqClients |-> access[d]] /\ seen \in [SeqClients -> SeenType]
  BY DEF Types
<1>3. /\ \A d \in SeqClients \ {c} : access'[d] = access[d]
      /\ access'[c] = NoAccess /\ access' = [d \in SeqClients |-> access'[d]]
  BY <1>1, <1>2
<1>4. NothingSeen \in SeenType
  <2>1. <<>> \in Seq(CmdKinds)
    OBVIOUS
  <2> QED BY <2>1 DEF NothingSeen, SeenType
<1>5. seen' \in [SeqClients -> SeenType] /\ \A d \in SeqClients \ {c} : seen'[d] = seen[d]
  BY <1>1, <1>2, <1>4
<1>6. access[c].name = access[c].op.name
  BY CallFacts
<1>7. ~Calling(c)'
  BY <1>3 DEF Calling
<1>8. SameDevice
  BY <1>1 DEF SameDevice, deviceSeqVars
<1>9. LET known == result = "ok" /\ ~seen[c].crossed /\ c \notin strayed
          o == access[c].op
      IN  /\ flags' = IF InCtrlOp(c) /\ known THEN FlagsAfter(o) ELSE flags
          /\ settled' = IF ~InCtrlOp(c) THEN settled ELSE known /\ (settled \/ o.name = "initialize")
  BY <1>6 DEF EndCall, InCtrlOp
<1> QED BY <1>1, <1>3, <1>5, <1>6, <1>7, <1>8, <1>9 DEF Ends

(* A call that is put together of fitting fields fits. *)
LEMMA FitsWhen ==
  ASSUME NEW c, NEW y, NEW o, NEW n, n = o.name, NEW k, NEW h, NEW f, ~f, NEW v, NEW g,
         y = [name |-> n, op |-> o, at |-> k, half |-> h, sent |-> f, val |-> v, got |-> g],
         o \in SeqOps[c], k \in 1 .. Len(SeqMethod(o)), h \in {"read", "write"},
         h = "write" => SeqMethod(o)[k].kind = "bit", g = [reg \in Counts |-> g[reg]]
  PROVE  /\ CallFits(c, y) /\ y.name = o.name /\ y.op = o /\ y.at = k /\ y.half = h /\ ~y.sent
         /\ y.val = v /\ y.got = g
<1>1. y.name = o.name /\ y.op = o /\ y.at = k /\ y.half = h /\ y.sent = FALSE /\ y.val = v /\ y.got = g
  OBVIOUS
<1>2. y = [name |-> y.op.name, op |-> y.op, at |-> y.at, half |-> y.half, sent |-> y.sent,
           val |-> y.val, got |-> y.got]
  BY <1>1
<1>3. y.got = [reg \in Counts |-> y.got[reg]]
  BY <1>1
<1>4. y.sent \in BOOLEAN
  BY <1>1
<1> QED BY <1>1, <1>2, <1>3, <1>4 DEF CallFits

(* It goes on: with what x says, and no request under way.                 *)
LEMMA ContinueEffect ==
  ASSUME Types, NEW c \in SeqClients, Calling(c), NEW x, Continue(c, x),
         NEW k, NEW h, NEW t, NEW v, NEW g,
         x = [name |-> access[c].name, op |-> access[c].op, at |-> k, half |-> h, sent |-> t, val |-> v, got |-> g],
         k \in 1 .. Len(SeqMethod(access[c].op)), h \in {"read", "write"},
         h = "write" => SeqMethod(access[c].op)[k].kind = "bit",
         g = [reg \in Counts |-> g[reg]]
  PROVE  /\ Moves(c)
         /\ access'[c].at = k /\ access'[c].half = h /\ access'[c].val = v /\ access'[c].got = g
<1>1. /\ access' = [access EXCEPT ![c] = [x EXCEPT !.sent = FALSE]] /\ outcome' = NoOutcome
      /\ UNCHANGED <<deviceSeqVars, seen, strayed, flags, settled, crowded>>
  BY DEF Continue, historySeqVars
<1>2. access = [d \in SeqClients |-> access[d]]
  BY DEF Types
<1>3. PICK o : o = access[c].op
  OBVIOUS
<1>4. access[c].name = o.name /\ o.name \in SeqOpNames /\ o \in SeqOps[c]
  BY <1>3, CallFacts
<1>5. PICK n : n = o.name
  OBVIOUS
<1>6. PICK f : f = FALSE
  OBVIOUS
<1>6a. PICK y : y = [name |-> n, op |-> o, at |-> k, half |-> h, sent |-> f, val |-> v, got |-> g]
  OBVIOUS
<1>7. [x EXCEPT !.sent = FALSE] = y
  <2>1. x = [name |-> n, op |-> o, at |-> k, half |-> h, sent |-> t, val |-> v, got |-> g]
    BY <1>3, <1>4, <1>5
  <2>2. PICK z : z = [x EXCEPT !.sent = f]
    OBVIOUS
  <2>3. z = [[name |-> n, op |-> o, at |-> k, half |-> h, sent |-> t, val |-> v, got |-> g] EXCEPT !.sent = f]
    BY <2>1, <2>2, Zenon
  <2>4. z = [name |-> n, op |-> o, at |-> k, half |-> h, sent |-> f, val |-> v, got |-> g]
    BY <2>3, WithSent
  <2>5. z = y
    BY <1>6a, <2>4
  <2> QED BY <1>6, <2>2, <2>5, Zenon
<1>8. access' = [access EXCEPT ![c] = y]
  BY <1>1, <1>7, Zenon
<1>9. /\ \A d \in SeqClients \ {c} : access'[d] = access[d]
      /\ access'[c] = y /\ access' = [d \in SeqClients |-> access'[d]]
  BY <1>2, <1>8
<1>10. /\ k \in 1 .. Len(SeqMethod(o)) /\ (h = "write" => SeqMethod(o)[k].kind = "bit")
  BY <1>3
<1>11. /\ CallFits(c, y) /\ y.name = o.name /\ y.op = o /\ y.at = k /\ y.half = h /\ ~y.sent
       /\ y.val = v /\ y.got = g
  BY <1>4, <1>5, <1>6, <1>6a, <1>10, FitsWhen
<1>12. Calling(c)'
  BY <1>4, <1>9, <1>11 DEF Calling, NoAccess, SeqOpNames
<1>13. SameDevice /\ UNCHANGED <<seen, flags, settled>>
  BY <1>1 DEF SameDevice, deviceSeqVars
<1>14. Moves(c)
  BY <1>1, <1>3, <1>4, <1>9, <1>11, <1>12, <1>13 DEF Moves
<1> QED BY <1>9, <1>11, <1>14

(* A call at the second half of its step. *)
LEMMA WithWrite ==
  ASSUME NEW n, NEW o, NEW k, NEW h, NEW t, NEW v, NEW g, NEW w
  PROVE  [[name |-> n, op |-> o, at |-> k, half |-> h, sent |-> t, val |-> v, got |-> g]
            EXCEPT !.half = "write", !.val = w]
         = [name |-> n, op |-> o, at |-> k, half |-> "write", sent |-> t, val |-> w, got |-> g]
<1> DEFINE r == [name |-> n, op |-> o, at |-> k, half |-> h, sent |-> t, val |-> v, got |-> g]
<1>1. [r EXCEPT !.half = "write"] = [name |-> n, op |-> o, at |-> k, half |-> "write", sent |-> t, val |-> v, got |-> g]
  OBVIOUS
<1>2. [[name |-> n, op |-> o, at |-> k, half |-> "write", sent |-> t, val |-> v, got |-> g] EXCEPT !.val = w]
      = [name |-> n, op |-> o, at |-> k, half |-> "write", sent |-> t, val |-> w, got |-> g]
  OBVIOUS
<1>3. [r EXCEPT !.half = "write", !.val = w] = [[r EXCEPT !.half = "write"] EXCEPT !.val = w]
  OBVIOUS
<1> QED BY <1>1, <1>2, <1>3, Zenon

(* A call at its next step. *)
LEMMA WithStep ==
  ASSUME NEW n, NEW o, NEW k, NEW h, NEW t, NEW v, NEW g
  PROVE  [[name |-> n, op |-> o, at |-> k, half |-> h, sent |-> t, val |-> v, got |-> g]
            EXCEPT !.at = @ + 1, !.half = "read", !.val = {}]
         = [name |-> n, op |-> o, at |-> k + 1, half |-> "read", sent |-> t, val |-> {}, got |-> g]
<1> DEFINE r == [name |-> n, op |-> o, at |-> k, half |-> h, sent |-> t, val |-> v, got |-> g]
<1>1. [r EXCEPT !.at = @ + 1] = [name |-> n, op |-> o, at |-> k + 1, half |-> h, sent |-> t, val |-> v, got |-> g]
  OBVIOUS
<1>2. [[name |-> n, op |-> o, at |-> k + 1, half |-> h, sent |-> t, val |-> v, got |-> g] EXCEPT !.half = "read"]
      = [name |-> n, op |-> o, at |-> k + 1, half |-> "read", sent |-> t, val |-> v, got |-> g]
  OBVIOUS
<1>3. [[name |-> n, op |-> o, at |-> k + 1, half |-> "read", sent |-> t, val |-> v, got |-> g] EXCEPT !.val = {}]
      = [name |-> n, op |-> o, at |-> k + 1, half |-> "read", sent |-> t, val |-> {}, got |-> g]
  OBVIOUS
<1>4. [r EXCEPT !.at = @ + 1, !.half = "read", !.val = {}]
      = [[[r EXCEPT !.at = @ + 1] EXCEPT !.half = "read"] EXCEPT !.val = {}]
  OBVIOUS
<1> QED BY <1>1, <1>2, <1>3, <1>4, Zenon

(* A call that has read a counter. *)
LEMMA WithCount ==
  ASSUME NEW n, NEW o, NEW k, NEW h, NEW t, NEW v, NEW g, NEW w
  PROVE  [[name |-> n, op |-> o, at |-> k, half |-> h, sent |-> t, val |-> v, got |-> g] EXCEPT !.got = w]
         = [name |-> n, op |-> o, at |-> k, half |-> h, sent |-> t, val |-> v, got |-> w]
OBVIOUS

(* The step is over, with what x has counted.                              *)
LEMMA NextEffect ==
  ASSUME Types, NEW c \in SeqClients, Calling(c), NEW x, NextStep(c, x), NEW g,
         x = [name |-> access[c].name, op |-> access[c].op, at |-> access[c].at, half |-> access[c].half,
              sent |-> access[c].sent, val |-> access[c].val, got |-> g],
         g = [reg \in Counts |-> g[reg]]
  PROVE  \/ /\ Moves(c) /\ access'[c].at = access[c].at + 1 /\ access'[c].half = "read"
            /\ access'[c].got = g
         \/ Ends(c, "ok") /\ access[c].at = Len(SeqMethod(access[c].op))
<1> DEFINE L == Len(SeqMethod(access[c].op))
<1>1. L \in Nat \ {0} /\ access[c].at \in 1 .. L
  BY CallFacts
<1>2. x.at = access[c].at /\ x.op = access[c].op
  OBVIOUS
<1>3. CASE access[c].at < L
  <2>1. Continue(c, [x EXCEPT !.at = @ + 1, !.half = "read", !.val = {}])
    BY <1>2, <1>3 DEF NextStep
  <2>2. PICK n, o, k, h, t, v : /\ n = access[c].name /\ o = access[c].op /\ k = access[c].at
                                /\ h = access[c].half /\ t = access[c].sent /\ v = access[c].val
    OBVIOUS
  <2>3. x = [name |-> n, op |-> o, at |-> k, half |-> h, sent |-> t, val |-> v, got |-> g]
    BY <2>2
  <2>4. PICK y : y = [x EXCEPT !.at = @ + 1, !.half = "read", !.val = {}]
    OBVIOUS
  <2>5. y = [[name |-> n, op |-> o, at |-> k, half |-> h, sent |-> t, val |-> v, got |-> g]
               EXCEPT !.at = @ + 1, !.half = "read", !.val = {}]
    BY <2>3, <2>4, Zenon
  <2>6. y = [name |-> n, op |-> o, at |-> k + 1, half |-> "read", sent |-> t, val |-> {}, got |-> g]
    BY <2>5, WithStep
  <2>7. y = [name |-> access[c].name, op |-> access[c].op, at |-> k + 1, half |-> "read", sent |-> t,
             val |-> {}, got |-> g]
    BY <2>2, <2>6
  <2>8. k + 1 \in 1 .. L
    BY <1>1, <1>3, <2>2
  <2>9. Continue(c, y)
    BY <2>1, <2>4
  <2>10. Moves(c) /\ access'[c].at = k + 1 /\ access'[c].half = "read" /\ access'[c].got = g
    BY <2>7, <2>8, <2>9, ContinueEffect
  <2> QED BY <2>2, <2>10
<1>4. CASE ~(access[c].at < L)
  <2>1. EndCall(c, "ok")
    BY <1>2, <1>4 DEF NextStep
  <2>2. access[c].at = L
    BY <1>1, <1>4
  <2> QED BY <2>1, <2>2, EndEffect
<1> QED BY <1>3, <1>4

(* The steps of num_unprocessed_commands. *)
LEMMA CountIs ==
  ASSUME Types, NEW c \in SeqClients, Calling(c), access[c].name = "unprocessed"
  PROVE  /\ access[c].at \in {1, 2} /\ Len(SeqMethod(access[c].op)) = 2 /\ StepOf(c).kind = "get"
         /\ access[c].half = "read"
         /\ StepOf(c).reg = IF access[c].at = 1 THEN "NUM_STORED_CMDS" ELSE "CMD_COUNTER"
<1>1. /\ access[c].op.name = "unprocessed" /\ access[c].at \in 1 .. Len(SeqMethod(access[c].op))
      /\ StepOf(c) = SeqMethod(access[c].op)[access[c].at]
      /\ access[c].half \in {"read", "write"} /\ (access[c].half = "write" => StepOf(c).kind = "bit")
  BY CallFacts
<1>2. SeqMethod(access[c].op) = <<Get("NUM_STORED_CMDS"), Get("CMD_COUNTER")>>
  BY <1>1, OtherLists
<1>3. access[c].at \in {1, 2} /\ Len(SeqMethod(access[c].op)) = 2
  BY <1>1, <1>2
<1>4. StepOf(c) = Get(IF access[c].at = 1 THEN "NUM_STORED_CMDS" ELSE "CMD_COUNTER")
  BY <1>1, <1>2, <1>3
<1>5. \A r : Get(r).kind = "get" /\ Get(r).reg = r
  BY DEF Get
<1> QED BY <1>1, <1>3, <1>4, <1>5

(* A step is over, with nothing counted. *)
LEMMA StepEffect ==
  ASSUME Types, NEW c \in SeqClients, Calling(c), NextStep(c, access[c]), StepOver(c),
         access[c].name # "unprocessed"
  PROVE  GoesOn(c) \/ EndsOk(c)
<1>1. PICK g : g = access[c].got
  OBVIOUS
<1>2. PICK x : x = access[c]
  OBVIOUS
<1>3. CallFits(c, access[c])
  BY CallFacts
<1>4. x = [name |-> access[c].name, op |-> access[c].op, at |-> access[c].at, half |-> access[c].half,
           sent |-> access[c].sent, val |-> access[c].val, got |-> g]
  BY <1>1, <1>2, <1>3, CallFacts DEF CallFits
<1>5. g = [reg \in Counts |-> g[reg]]
  BY <1>1, <1>3 DEF CallFits
<1>6. NextStep(c, x)
  BY <1>2
<1>7. \/ /\ Moves(c) /\ access'[c].at = access[c].at + 1 /\ access'[c].half = "read"
         /\ access'[c].got = g
      \/ Ends(c, "ok") /\ access[c].at = Len(SeqMethod(access[c].op))
  BY <1>4, <1>5, <1>6, NextEffect
<1> QED BY <1>7 DEF GoesOn, EndsOk

(* An accepted reply is one for the register that was asked, and takes the *)
(* call to the other half of its step, to the same step again, to the next *)
(* one, or to its end.                                                     *)
LEMMA AcceptEffect ==
  ASSUME Types, NEW c \in SeqClients, ReplyAccepted(c)
  PROVE  /\ TakeReply(c) /\ Matching(c)
         /\ \/ Halfway(c) \/ PollsAgain(c) \/ GoesOn(c)
            \/ EndsOk(c) \/ EndsRefused(c) \/ EndsCounted(c)
<1> DEFINE s == StepOf(c)
           a == access[c]
           v == Reply(c).val
<1>1. TakeReply(c) /\ Matching(c) /\ Calling(c)
  BY DEF ReplyAccepted, TakeReply
<1>2. /\ s.kind \in {"bit", "put", "get", "poll", "packet"} /\ a.half \in {"read", "write"}
      /\ (a.half = "write" => s.kind = "bit") /\ a.at \in Nat \ {0}
      /\ s.kind = "packet" => a.name = "push"
      /\ s.kind = "poll" => a.name \notin {"push", "unprocessed"}
      /\ s.kind \in {"bit", "put"} => a.name \in CtrlOps
  BY <1>1, CallFacts
<1>3. "push" \notin CtrlOps /\ "unprocessed" \notin CtrlOps
  BY DEF CtrlOps
<1>4. PICK g : g = a.got
  OBVIOUS
<1>5. PICK x : x = access[c]
  OBVIOUS
<1>6. x = [name |-> a.name, op |-> a.op, at |-> a.at, half |-> a.half, sent |-> a.sent, val |-> a.val, got |-> g]
      /\ g = [reg \in Counts |-> g[reg]]
  <2>1. CallFits(c, access[c]) /\ a.name = a.op.name
    BY <1>1, CallFacts
  <2> QED BY <1>4, <1>5, <2>1 DEF CallFits
<1>7. ASSUME s.kind = "bit", a.half = "read" PROVE Halfway(c)
  <2>1. Continue(c, [a EXCEPT !.half = "write", !.val = v])
    BY <1>7 DEF ReplyAccepted
  <2>2. PICK y, w : y = [a EXCEPT !.half = "write", !.val = w] /\ w = v
    OBVIOUS
  <2>3. PICK n, o, k, h, t, u : n = a.name /\ o = a.op /\ k = a.at /\ h = a.half /\ t = a.sent /\ u = a.val
    OBVIOUS
  <2>4. x = [name |-> n, op |-> o, at |-> k, half |-> h, sent |-> t, val |-> u, got |-> g]
    BY <1>6, <2>3
  <2>5. y = [[name |-> n, op |-> o, at |-> k, half |-> h, sent |-> t, val |-> u, got |-> g]
               EXCEPT !.half = "write", !.val = w]
    BY <1>5, <2>2, <2>4, Zenon
  <2>6. y = [name |-> n, op |-> o, at |-> k, half |-> "write", sent |-> t, val |-> w, got |-> g]
    BY <2>5, WithWrite
  <2>7. y = [name |-> a.name, op |-> a.op, at |-> k, half |-> "write", sent |-> t, val |-> w, got |-> g]
    BY <2>3, <2>6
  <2>8. Continue(c, y)
    BY <2>1, <2>2
  <2>9. k \in 1 .. Len(SeqMethod(a.op)) /\ SeqMethod(a.op)[k].kind = "bit"
    BY <1>1, <1>7, <2>3, CallFacts
  <2>10. /\ Moves(c) /\ access'[c].at = k /\ access'[c].half = "write" /\ access'[c].val = w
    BY <1>1, <1>6, <2>7, <2>8, <2>9, ContinueEffect
  <2> QED BY <1>7, <2>2, <2>3, <2>10 DEF Halfway
<1>8. ASSUME s.kind = "poll" PROVE PollsAgain(c) \/ GoesOn(c) \/ EndsOk(c)
  <2>1. NextStep(c, a) \/ Continue(c, x)
    BY <1>5, <1>8 DEF ReplyAccepted
  <2>2. CASE NextStep(c, a)
    <3>1. StepOver(c) /\ a.name # "unprocessed"
      BY <1>2, <1>8 DEF StepOver
    <3> QED BY <1>1, <2>2, <3>1, StepEffect
  <2>3. CASE Continue(c, x)
    <3>1. PICK k, h, t, u : k = a.at /\ h = a.half /\ t = a.sent /\ u = a.val
      OBVIOUS
    <3>2. x = [name |-> a.name, op |-> a.op, at |-> k, half |-> h, sent |-> t, val |-> u, got |-> g]
      BY <1>6, <3>1
    <3>3. k \in 1 .. Len(SeqMethod(a.op)) /\ h \in {"read", "write"} /\ h # "write"
      BY <1>1, <1>2, <1>8, <3>1, CallFacts
    <3>4. Moves(c) /\ access'[c].at = k /\ access'[c].half = h
      BY <1>1, <1>6, <2>3, <3>2, <3>3, ContinueEffect
    <3> QED BY <1>8, <3>1, <3>4 DEF PollsAgain
  <2> QED BY <2>1, <2>2, <2>3
<1>9. ASSUME s.kind = "get", a.name = "push", Len(a.op.arg) > v PROVE EndsRefused(c)
  <2>1. EndCall(c, "refused")
    BY <1>9 DEF ReplyAccepted
  <2>2. a.at = 1
    BY <1>1, <1>2, <1>9, PacketIs
  <2>3. Ends(c, "refused")
    BY <1>1, <2>1, EndEffect
  <2> QED BY <1>9, <2>2, <2>3 DEF EndsRefused
<1>10. ASSUME s.kind = "get", a.name = "unprocessed" PROVE GoesOn(c) \/ EndsCounted(c)
  <2>1. /\ a.at \in {1, 2} /\ Len(SeqMethod(a.op)) = 2
        /\ s.reg = IF a.at = 1 THEN "NUM_STORED_CMDS" ELSE "CMD_COUNTER"
    BY <1>1, <1>10, CountIs
  <2>2. PICK w, e, f : w = v /\ e = s.reg /\ f = [g EXCEPT ![e] = w]
    OBVIOUS
  <2>3. f = [reg \in Counts |-> f[reg]] /\ f[e] = w /\ \A reg \in Counts \ {e} : f[reg] = g[reg]
    BY <1>6, <2>1, <2>2 DEF Counts
  <2>4. PICK y : y = [x EXCEPT !.got[e] = w]
    OBVIOUS
  <2>5. y = [name |-> a.name, op |-> a.op, at |-> a.at, half |-> a.half, sent |-> a.sent, val |-> a.val, got |-> f]
    <3>1. PICK n, o, k, h, t, u : n = a.name /\ o = a.op /\ k = a.at /\ h = a.half /\ t = a.sent /\ u = a.val
      OBVIOUS
    <3>2. x = [name |-> n, op |-> o, at |-> k, half |-> h, sent |-> t, val |-> u, got |-> g]
      BY <1>6, <3>1
    <3>3. x.got = g
      BY <3>2
    <3>4. y = [x EXCEPT !.got = f]
      <4>1. y = [x EXCEPT !.got = [x.got EXCEPT ![e] = w]]
        BY <2>4
      <4> QED BY <2>2, <3>3, <4>1, Zenon
    <3>5. y = [[name |-> n, op |-> o, at |-> k, half |-> h, sent |-> t, val |-> u, got |-> g] EXCEPT !.got = f]
      BY <3>2, <3>4, Zenon
    <3>6. y = [name |-> n, op |-> o, at |-> k, half |-> h, sent |-> t, val |-> u, got |-> f]
      BY <3>5, WithCount
    <3> QED BY <3>1, <3>6
  <2>6. y = [a EXCEPT !.got[s.reg] = Reply(c).val]
    BY <1>5, <2>2, <2>4, Zenon
  <2>7. IF a.at = 1 THEN NextStep(c, y)
        ELSE EndCall(c, IF NumUnprocessed(y.got) = seen[c].truth THEN "ok" ELSE "miscounted")
    BY <1>10, <2>6 DEF ReplyAccepted
  <2>8. CASE a.at = 1
    <3>1. NextStep(c, y)
      BY <2>7, <2>8
    <3>2. \/ /\ Moves(c) /\ access'[c].at = a.at + 1 /\ access'[c].half = "read" /\ access'[c].got = f
          \/ Ends(c, "ok") /\ a.at = Len(SeqMethod(a.op))
      BY <1>1, <2>3, <2>5, <3>1, NextEffect
    <3>3. StepOver(c)
      BY <1>10 DEF StepOver
    <3>4. f["NUM_STORED_CMDS"] = v
      BY <2>1, <2>2, <2>3, <2>8
    <3> QED BY <2>1, <2>8, <3>2, <3>3, <3>4 DEF GoesOn
  <2>9. CASE a.at # 1
    <3>1. a.at = 2 /\ e = "CMD_COUNTER"
      BY <2>1, <2>2, <2>9
    <3>2. f["CMD_COUNTER"] = v /\ f["NUM_STORED_CMDS"] = a.got["NUM_STORED_CMDS"] /\ y.got = f
      BY <1>4, <2>2, <2>3, <2>5, <3>1 DEF Counts
    <3>3. NumUnprocessed(y.got) = a.got["NUM_STORED_CMDS"] - v
      BY <3>2 DEF NumUnprocessed
    <3>4. EndCall(c, IF a.got["NUM_STORED_CMDS"] - v = seen[c].truth THEN "ok" ELSE "miscounted")
      BY <2>7, <2>9, <3>3
    <3> QED BY <1>1, <1>10, <3>1, <3>4, EndEffect DEF EndsCounted
  <2> QED BY <2>8, <2>9
<1>11. ASSUME ~(s.kind = "bit" /\ a.half = "read"), s.kind # "poll",
              ~(s.kind = "get" /\ a.name = "push" /\ Len(a.op.arg) > v),
              ~(s.kind = "get" /\ a.name = "unprocessed")
       PROVE  GoesOn(c) \/ EndsOk(c)
  <2>1. NextStep(c, access[c])
    BY <1>11 DEF ReplyAccepted
  <2>2. a.name # "unprocessed"
    BY <1>1, <1>11, CountIs
  <2>3. a.name = "push" /\ a.at = 1 => s.kind = "get"
    <3>1. a.name = "push" /\ a.at = 1 => s = Get("CMD_BUF_FREE_SPACE")
      BY <1>1, PacketIs
    <3> QED BY <3>1 DEF Get
  <2>4. StepOver(c)
    BY <1>2, <1>11, <2>3 DEF StepOver
  <2> QED BY <1>1, <2>1, <2>2, <2>4, StepEffect
<1> QED BY <1>1, <1>7, <1>8, <1>9, <1>10, <1>11

-----------------------------------------------------------------------------
(* The steps of the system, as the invariant sees them. *)

(* A call of c begins. *)
Begins(c, o) ==
  /\ ~Calling(c) /\ o \in SeqOps[c]
  /\ \A d \in SeqClients \ {c} : access'[d] = access[d]
  /\ access' = [d \in SeqClients |-> access'[d]]
  /\ Calling(c)' /\ CallFits(c, access'[c]) /\ access'[c].op = o /\ access'[c].name = o.name
  /\ access'[c].at = 1 /\ access'[c].half = "read" /\ ~access'[c].sent
  /\ seen' \in [SeqClients -> SeenType]
  /\ \A d \in SeqClients \ {c} :
       /\ seen'[d].mixed = seen[d].mixed /\ seen'[d].port = seen[d].port
       /\ seen'[d].starts = seen[d].starts /\ seen'[d].before = seen[d].before
       /\ seen'[d].moved = seen[d].moved /\ seen'[d].truth = seen[d].truth
       /\ seen'[d].crossed <=> seen[d].crossed \/ (o.name \in CtrlOps /\ InCtrlOp(d))
  /\ seen'[c].crossed <=> o.name \in CtrlOps /\ \E d \in SeqClients \ {c} : InCtrlOp(d)
  /\ seen'[c].port /\ seen'[c].starts = 0 /\ (o.name = "push" => seen'[c].before = fifo)
  /\ crowded' \in BOOLEAN
  /\ crowded' <=> crowded \/ (o.name \in QueueOps /\ \E d \in SeqClients \ {c} : InQueueOp(d))
  /\ UNCHANGED <<ctrl, fifo, counter, overflow, dest, replies, strayed, flags, settled>>
  /\ outcome' = NoOutcome

(* The reply to a request of c is taken. *)
Answered(c) ==
  /\ Calling(c) /\ Heard(c) /\ Taken(c)
  /\ replies'[c][Socket(Request(c))] = Tail(replies[c][Socket(Request(c))])
  /\ \/ Halfway(c) \/ PollsAgain(c) \/ GoesOn(c)
     \/ EndsOk(c) \/ EndsRefused(c) \/ EndsCounted(c) \/ Ends(c, "raised")

(* c stops waiting for it. *)
TimedOut(c) == Calling(c) /\ Deaf(c) /\ UNCHANGED replies /\ Ends(c, "raised")

(* The sequencer works on, or nothing happens. *)
Quiet ==
  /\ UNCHANGED <<ctrl, fifo, overflow, dest, access, replies, seen, historySeqVars>>
  /\ counter' \in Nat /\ (outcome' = outcome \/ outcome' = NoOutcome)

(* Who makes a call of the control register, or of the FIFO, is in a call. *)
LEMMA InOps ==
  ASSUME Types, NEW d \in SeqClients
  PROVE  /\ InCtrlOp(d) <=> Calling(d) /\ access[d].op.name \in CtrlOps
         /\ InQueueOp(d) <=> Calling(d) /\ access[d].op.name \in QueueOps
         /\ Pushing(d) => Calling(d) /\ InQueueOp(d) /\ ~InCtrlOp(d)
         /\ access[d].name = "unprocessed" => Calling(d) /\ ~InCtrlOp(d)
<1>1. Calling(d) => access[d].name = access[d].op.name
  BY CallFacts
<1>2. ~Calling(d) => access[d].name = "none"
  BY DEF Calling, NoAccess
<1> QED BY <1>1, <1>2 DEF InCtrlOp, InQueueOp, Pushing, CtrlOps, SeqOpNames, QueueOps

(* The first step of a call. *)
LEMMA FirstAccess ==
  ASSUME NEW c \in SeqClients, NEW o \in SeqOps[c], NEW y,
         y = [name |-> o.name, op |-> o, at |-> 1, half |-> "read", sent |-> FALSE, val |-> {}, got |-> NoCounts]
  PROVE  /\ CallFits(c, y) /\ y.op = o /\ y.name = o.name /\ y.at = 1 /\ y.half = "read" /\ ~y.sent
         /\ y # NoAccess
<1>1. /\ y.name = o.name /\ y.op = o /\ y.at = 1 /\ y.half = "read" /\ y.sent = FALSE /\ y.got = NoCounts
  OBVIOUS
<1>2. Len(SeqMethod(o)) \in Nat \ {0}
  BY StepFacts
<1>3. NoCounts = [reg \in Counts |-> NoCounts[reg]]
  BY DEF NoCounts, Counts
<1>4. y = [name |-> y.op.name, op |-> y.op, at |-> y.at, half |-> y.half, sent |-> y.sent,
           val |-> y.val, got |-> y.got]
  BY <1>1
<1>5. y.got = [reg \in Counts |-> y.got[reg]]
  BY <1>1, <1>3
<1>6. CallFits(c, y)
  BY <1>1, <1>2, <1>4, <1>5 DEF CallFits
<1>7. o.name # "none"
  BY Calls DEF SeqOpNames
<1>8. y # NoAccess
  BY <1>1, <1>7 DEF NoAccess
<1> QED BY <1>1, <1>6, <1>8

(* A call begins as seen by each client. *)
LEMMA BeginEffect ==
  ASSUME Types, NEW c \in SeqClients, NEW o \in SeqOps[c], SeqCall(c, o)
  PROVE  Begins(c, o)
<1> DEFINE others == {d \in SeqClients \ {c} : Calling(d)}
           meets(d, ops) == o.name \in ops /\ access[d].op.name \in ops
           mine == \E e \in others : meets(e, CtrlOps)
           theirs(d) == seen[d].crossed \/ (d \in others /\ meets(d, CtrlOps))
           was == IF o.name = "push" THEN fifo ELSE <<>>
<1>1. PICK y : y = [name |-> o.name, op |-> o, at |-> 1, half |-> "read", sent |-> FALSE, val |-> {},
                    got |-> NoCounts]
  OBVIOUS
<1>2. ~Calling(c) /\ access' = [access EXCEPT ![c] = y]
  BY <1>1 DEF SeqCall
<1>3. access = [d \in SeqClients |-> access[d]] /\ seen \in [SeqClients -> SeenType] /\ fifo \in Seq(CmdKinds)
      /\ crowded \in BOOLEAN
  BY DEF Types
<1>4. /\ \A d \in SeqClients \ {c} : access'[d] = access[d]
      /\ access'[c] = y /\ access' = [d \in SeqClients |-> access'[d]]
  BY <1>2, <1>3
<1>5. /\ CallFits(c, y) /\ y.op = o /\ y.name = o.name /\ y.at = 1 /\ y.half = "read" /\ ~y.sent
      /\ y # NoAccess
  BY <1>1, FirstAccess
<1>6. Calling(c)'
  BY <1>4, <1>5 DEF Calling
<1>7. seen' = [d \in SeqClients |->
                 IF d = c THEN [NothingSeen EXCEPT !.crossed = mine, !.before = was]
                 ELSE [seen[d] EXCEPT !.crossed = theirs(d)]]
  <2>1. \A d \in SeqClients :
          [seen[d] EXCEPT !.crossed = @ \/ (d \in others /\ meets(d, CtrlOps))]
          = [seen[d] EXCEPT !.crossed = theirs(d)]
    BY <1>3 DEF SeenType
  <2> QED BY <2>1 DEF SeqCall
<1>8. mine <=> o.name \in CtrlOps /\ \E d \in SeqClients \ {c} : InCtrlOp(d)
  BY InOps
<1>9. \A d \in SeqClients \ {c} : theirs(d) <=> seen[d].crossed \/ (o.name \in CtrlOps /\ InCtrlOp(d))
  BY InOps
<1>10. /\ mine \in BOOLEAN /\ was \in Seq(CmdKinds) /\ (o.name = "push" => was = fifo)
       /\ \A d \in SeqClients : theirs(d) \in BOOLEAN
  BY <1>3 DEF SeenType
<1> HIDE DEF mine, theirs, was, others
<1>11. /\ seen'[c] \in SeenType /\ seen'[c].crossed = mine /\ seen'[c].before = was
       /\ seen'[c].port /\ seen'[c].starts = 0
  <2>1. PICK m, w : m = mine /\ w = was
    OBVIOUS
  <2>2. seen'[c] = [NothingSeen EXCEPT !.crossed = m, !.before = w]
    BY <1>7, <2>1
  <2>3. m \in BOOLEAN /\ w \in Seq(CmdKinds)
    BY <1>10, <2>1
  <2>4. NothingSeen \in SeenType /\ NothingSeen.port /\ NothingSeen.starts = 0
    <3>1. <<>> \in Seq(CmdKinds)
      OBVIOUS
    <3> QED BY <3>1 DEF NothingSeen, SeenType
  <2>5. /\ seen'[c] \in SeenType /\ seen'[c].crossed = m /\ seen'[c].before = w
        /\ seen'[c].port = NothingSeen.port /\ seen'[c].starts = NothingSeen.starts
    BY <2>2, <2>3, <2>4 DEF SeenType
  <2> QED BY <2>1, <2>4, <2>5
<1>12. \A d \in SeqClients \ {c} :
         /\ seen'[d] \in SeenType
         /\ seen'[d].mixed = seen[d].mixed /\ seen'[d].port = seen[d].port
         /\ seen'[d].starts = seen[d].starts /\ seen'[d].before = seen[d].before
         /\ seen'[d].moved = seen[d].moved /\ seen'[d].truth = seen[d].truth
         /\ seen'[d].crossed = theirs(d)
  <2> TAKE d \in SeqClients \ {c}
  <2>1. seen'[d] = [seen[d] EXCEPT !.crossed = theirs(d)]
    BY <1>7
  <2>2. seen[d] \in SeenType /\ theirs(d) \in BOOLEAN
    BY <1>3, <1>10
  <2> QED BY <2>1, <2>2 DEF SeenType
<1>13. seen' \in [SeqClients -> SeenType]
  BY <1>7, <1>11, <1>12
<1>14. /\ crowded' \in BOOLEAN
       /\ crowded' <=> crowded \/ (o.name \in QueueOps /\ \E d \in SeqClients \ {c} : InQueueOp(d))
  <2>1. crowded' = (crowded \/ \E e \in others : meets(e, QueueOps))
    BY DEF SeqCall, others
  <2>2. (\E e \in others : meets(e, QueueOps))
          <=> o.name \in QueueOps /\ \E d \in SeqClients \ {c} : InQueueOp(d)
    BY InOps, SMTT(30) DEF others
  <2> QED BY <2>1, <2>2
<1>15. UNCHANGED <<ctrl, fifo, counter, overflow, dest, replies, strayed, flags, settled>>
       /\ outcome' = NoOutcome
  BY DEF SeqCall, deviceSeqVars
<1>16. seen'[c].crossed <=> o.name \in CtrlOps /\ \E d \in SeqClients \ {c} : InCtrlOp(d)
  BY <1>8, <1>11
<1>17. \A d \in SeqClients \ {c} :
         seen'[d].crossed <=> seen[d].crossed \/ (o.name \in CtrlOps /\ InCtrlOp(d))
  BY <1>9, <1>12
<1>18. o.name = "push" => seen'[c].before = fifo
  BY <1>10, <1>11
<1> QED
  BY <1>2, <1>4, <1>5, <1>6, <1>11, <1>12, <1>13, <1>14, <1>15, <1>16, <1>17, <1>18 DEF Begins

(* Every step is one of these. *)
LEMMA StepCases ==
  ASSUME Types, [SeqNext]_seqVars
  PROVE  \/ Quiet
         \/ \E c \in SeqClients :
              \/ \E o \in SeqOps[c] : Begins(c, o)
              \/ SendRequest(c) \/ Answered(c) \/ TimedOut(c)
<1>1. counter \in Nat /\ fifo \in Seq(CmdKinds)
  BY DEF Types
<1>2. CASE UNCHANGED seqVars
  BY <1>1, <1>2 DEF seqVars, deviceSeqVars, historySeqVars, Quiet
<1>3. CASE Execute
  <2>1. counter' \in Nat
    <3>1. counter' = 0 \/ counter' = counter + 1
      BY <1>3 DEF Execute
    <3> QED BY <1>1, <3>1
  <2> QED BY <1>3, <2>1 DEF Execute, Quiet, historySeqVars
<1>4. CASE ReportingFollows
  BY <1>1, <1>4 DEF ReportingFollows, Quiet, historySeqVars
<1>5. ASSUME NEW c \in SeqClients, NEW o \in SeqOps[c], SeqCall(c, o)
      PROVE  Begins(c, o)
  BY <1>5, BeginEffect
<1>6. ASSUME NEW c \in SeqClients, ReplyAccepted(c)
      PROVE  Answered(c)
  <2>1. TakeReply(c)
    BY <1>6, AcceptEffect
  <2> QED BY <1>6, <2>1, AcceptEffect, TakeEffect DEF Answered
<1>7. ASSUME NEW c \in SeqClients, ReplyRefused(c)
      PROVE  Answered(c)
  <2>1. TakeReply(c) /\ EndCall(c, "raised")
    BY <1>7 DEF ReplyRefused
  <2>2. /\ Calling(c) /\ Heard(c) /\ Taken(c)
        /\ replies'[c][Socket(Request(c))] = Tail(replies[c][Socket(Request(c))])
    BY <2>1, TakeEffect
  <2>3. Ends(c, "raised")
    BY <2>1, <2>2, EndEffect
  <2> QED BY <2>2, <2>3 DEF Answered
<1>8. ASSUME NEW c \in SeqClients, NoReply(c)
      PROVE  TimedOut(c)
  <2>1. Calling(c) /\ Deaf(c) /\ EndCall(c, "raised") /\ UNCHANGED replies
    BY <1>8 DEF NoReply, Deaf
  <2> QED BY <2>1, EndEffect DEF TimedOut
<1> QED BY <1>2, <1>3, <1>4, <1>5, <1>6, <1>7, <1>8 DEF SeqNext

-----------------------------------------------------------------------------
(* The types. *)

(* They follow from what a step makes of the client that takes it.         *)
LEMMA TypesFrom ==
  ASSUME Types, NEW c \in SeqClients,
         fifo' \in Seq(CmdKinds), counter' \in Nat, overflow' \in BOOLEAN,
         dest' \in SeqClients \cup {NoPort},
         access' = [d \in SeqClients |-> access'[d]],
         \A d \in SeqClients \ {c} : access'[d] = access[d],
         Calling(c)' => CallFits(c, access'[c]),
         replies' = [d \in SeqClients |-> [s \in Sockets |-> replies'[d][s]]],
         seen' \in [SeqClients -> SeenType], strayed' \subseteq SeqClients, flags' \subseteq Flags,
         settled' \in BOOLEAN, crowded' \in BOOLEAN
  PROVE  Types'
<1>1. \A d \in SeqClients : Calling(d)' => CallFits(d, access'[d])
  <2> TAKE d \in SeqClients
  <2>1. CASE d = c
    BY <2>1
  <2>2. CASE d # c
    BY <2>2 DEF Types, Calling
  <2> QED BY <2>1, <2>2
<1>2. \A d \in SeqClients : Calling(d)' => CallFits(d, access[d])'
  BY <1>1 DEF CallFits
<1> QED BY <1>2 DEF Types

(* The flags that have been asked for stay flags. *)
LEMMA EndTypes ==
  ASSUME Types, NEW c \in SeqClients, Calling(c), NEW result, Ends(c, result)
  PROVE  flags' \subseteq Flags /\ settled' \in BOOLEAN /\ crowded' \in BOOLEAN
<1>1. access[c].op \in SeqOps[c] /\ flags \subseteq Flags /\ settled \in BOOLEAN /\ crowded \in BOOLEAN
  BY CallFacts DEF Types
<1>2. InCtrlOp(c) => access[c].op.name \in CtrlOps
  BY InOps
<1>3. InCtrlOp(c) => FlagsAfter(access[c].op) \subseteq Flags
  BY <1>1, <1>2, CtrlSteps
<1>4. flags' = flags \/ (InCtrlOp(c) /\ flags' = FlagsAfter(access[c].op))
  BY DEF Ends
<1>5. settled' \in BOOLEAN
  BY <1>1 DEF Ends
<1>6. crowded' = crowded
  BY DEF Ends, SameDevice
<1> QED BY <1>1, <1>3, <1>4, <1>5, <1>6

(* Every step keeps the types. *)
LEMMA TypesKept ==
  ASSUME Types, [SeqNext]_seqVars
  PROVE  Types'
<1>1. /\ fifo \in Seq(CmdKinds) /\ counter \in Nat /\ overflow \in BOOLEAN
      /\ dest \in SeqClients \cup {NoPort} /\ flags \subseteq Flags /\ strayed \subseteq SeqClients
      /\ settled \in BOOLEAN /\ crowded \in BOOLEAN /\ seen \in [SeqClients -> SeenType]
      /\ replies = [d \in SeqClients |-> [s \in Sockets |-> replies[d][s]]]
  BY DEF Types
<1>2. CASE Quiet
  <2>1. /\ UNCHANGED <<fifo, overflow, dest, access, replies, seen, strayed, flags, settled, crowded>>
        /\ counter' \in Nat
    BY <1>2 DEF Quiet, historySeqVars
  <2> QED BY <2>1 DEF Types, Calling, CallFits
<1>3. ASSUME NEW c \in SeqClients, NEW o \in SeqOps[c], Begins(c, o)
      PROVE  Types'
  <2>1. /\ UNCHANGED <<fifo, counter, overflow, dest, replies, strayed, flags, settled>>
        /\ access' = [d \in SeqClients |-> access'[d]]
        /\ \A d \in SeqClients \ {c} : access'[d] = access[d]
        /\ CallFits(c, access'[c]) /\ seen' \in [SeqClients -> SeenType]
    BY <1>3 DEF Begins
  <2>2. crowded' \in BOOLEAN
    BY <1>3 DEF Begins
  <2> QED BY <1>1, <2>1, <2>2, TypesFrom
<1>4. ASSUME NEW c \in SeqClients, SendRequest(c)
      PROVE  Types'
  <2>1. /\ access' = [d \in SeqClients |-> access'[d]]
        /\ \A d \in SeqClients \ {c} : access'[d] = access[d]
        /\ CallFits(c, access'[c]) /\ strayed' \subseteq SeqClients
        /\ replies' = [d \in SeqClients |-> [s \in Sockets |-> replies'[d][s]]]
    BY <1>4, SendEffect
  <2>2. Calling(c) /\ UNCHANGED <<flags, settled>> /\ (Unserved \/ Served(c))
    BY <1>4, SendIs
  <2>3. CASE Unserved
    BY <1>1, <2>1, <2>2, <2>3, TypesFrom DEF Unserved
  <2>4. CASE Served(c)
    <3>1. /\ fifo' \in Seq(CmdKinds) /\ counter' \in Nat /\ overflow' \in BOOLEAN
          /\ dest' \in SeqClients \cup {NoPort}
      BY <2>2, <2>4, ServeEffect DEF Served
    <3>2. seen' \in [SeqClients -> SeenType]
      BY <2>4, <3>1, NoticeEffect DEF Served
    <3>3. crowded' \in BOOLEAN
      <4>1. crowded' = (\E d \in SeqClients \ {c} : InQueueOp(d)) \/ crowded' = crowded
        BY <2>4 DEF Served
      <4> QED BY <1>1, <4>1
    <3> QED BY <1>1, <2>1, <2>2, <3>1, <3>2, <3>3, TypesFrom
  <2> QED BY <2>2, <2>3, <2>4
<1>5. ASSUME NEW c \in SeqClients, Moves(c),
             replies' = [d \in SeqClients |-> [s \in Sockets |-> replies'[d][s]]]
      PROVE  Types'
  <2>1. /\ UNCHANGED <<fifo, counter, overflow, dest, strayed, crowded, seen, flags, settled>>
        /\ access' = [d \in SeqClients |-> access'[d]]
        /\ \A d \in SeqClients \ {c} : access'[d] = access[d]
        /\ CallFits(c, access'[c])
    BY <1>5 DEF Moves, SameDevice
  <2> QED BY <1>1, <1>5, <2>1, TypesFrom
<1>6. ASSUME NEW c \in SeqClients, Calling(c), NEW result, Ends(c, result),
             replies' = [d \in SeqClients |-> [s \in Sockets |-> replies'[d][s]]]
      PROVE  Types'
  <2>1. /\ UNCHANGED <<fifo, counter, overflow, dest, strayed>>
        /\ access' = [d \in SeqClients |-> access'[d]]
        /\ \A d \in SeqClients \ {c} : access'[d] = access[d]
        /\ ~Calling(c)' /\ seen' \in [SeqClients -> SeenType]
    BY <1>6 DEF Ends, SameDevice
  <2>2. flags' \subseteq Flags /\ settled' \in BOOLEAN /\ crowded' \in BOOLEAN
    BY <1>6, EndTypes
  <2> QED BY <1>1, <1>6, <2>1, <2>2, TypesFrom
<1>7. ASSUME NEW c \in SeqClients, Answered(c)
      PROVE  Types'
  <2>1. Calling(c) /\ replies' = [d \in SeqClients |-> [s \in Sockets |-> replies'[d][s]]]
    BY <1>7 DEF Answered, Taken
  <2>2. Moves(c) \/ \E result : Ends(c, result)
    BY <1>7 DEF Answered, Halfway, PollsAgain, GoesOn, EndsOk, EndsRefused, EndsCounted
  <2> QED BY <1>5, <1>6, <2>1, <2>2
<1>8. ASSUME NEW c \in SeqClients, TimedOut(c)
      PROVE  Types'
  <2>1. Calling(c) /\ Ends(c, "raised") /\ replies' = [d \in SeqClients |-> [s \in Sockets |-> replies'[d][s]]]
    BY <1>1, <1>8 DEF TimedOut
  <2> QED BY <1>6, <2>1
<1> QED BY <1>2, <1>3, <1>4, <1>7, <1>8, StepCases

-----------------------------------------------------------------------------
(* The replies. *)

(* The call that a step of another client leaves alone. *)
LEMMA Bystander ==
  ASSUME NEW d \in SeqClients, access'[d] = access[d], replies'[d] = replies[d],
         seen'[d].port = seen[d].port, Mail(d)
  PROVE  Mail(d)'
<1>1. /\ Request(d)' = Request(d) /\ Reply(d)' = Reply(d) /\ Heard(d)' = Heard(d) /\ Deaf(d)' = Deaf(d)
      /\ Matching(d)' = Matching(d) /\ Calling(d)' = Calling(d)
  BY Untouched
<1>2. Socket(Request(d))' = Socket(Request(d))
  BY <1>1 DEF Socket
<1> QED BY <1>1, <1>2 DEF Mail

(* A client with nothing on its sockets that waits for nothing. *)
LEMMA Silent ==
  ASSUME NEW c \in SeqClients, \A s \in Sockets : replies'[c][s] = <<>>,
         Calling(c)' => ~access'[c].sent /\ seen'[c].port
  PROVE  Mail(c)'
BY DEF Mail, Heard

(* The reply that has been taken was the only one. *)
LEMMA Emptied ==
  ASSUME Types, NEW c \in SeqClients, Mail(c), Answered(c) \/ TimedOut(c)
  PROVE  \A s \in Sockets : replies'[c][s] = <<>>
<1> DEFINE k == Socket(Request(c))
<1>1. CASE Answered(c)
  <2>1. /\ Calling(c) /\ Heard(c) /\ \A s \in Sockets \ {k} : replies'[c][s] = replies[c][s]
        /\ replies'[c][k] = Tail(replies[c][k])
    BY <1>1 DEF Answered, Taken
  <2>2. replies[c][k] = <<Reply(c)>>
    BY <2>1 DEF Mail
  <2>3. replies'[c][k] = <<>>
    <3>1. \A x : Tail(<<x>>) = <<>>
      OBVIOUS
    <3> QED BY <2>1, <2>2, <3>1
  <2>4. \A s \in Sockets \ {k} : replies[c][s] = <<>>
    BY DEF Mail
  <2> QED BY <2>1, <2>3, <2>4
<1>2. CASE TimedOut(c)
  BY <1>2 DEF TimedOut, Deaf, Mail
<1> QED BY <1>1, <1>2

(* A client that has no request under way finds no reply to it but its own. *)
LEMMA OwnReply ==
  ASSUME Types, NEW c \in SeqClients, SendRequest(c), Mail(c), c \notin strayed'
  PROVE  /\ ~Heard(c) /\ ~Deaf(c) /\ Done(c) = access[c].at - 1 /\ seen[c].port
         /\ Heard(c)' <=> ~Deaf(c)'
         /\ Unserved => Deaf(c)'
         /\ Deaf(c)' => \A s \in Sockets : replies'[c][s] = <<>>
         /\ Heard(c)' =>
              /\ Served(c) /\ dest' = c /\ Reply(c)' = ReplyTo(Request(c))
              /\ replies'[c][Socket(Request(c))] = <<ReplyTo(Request(c))>>
              /\ \A s \in Sockets \ {Socket(Request(c))} : replies'[c][s] = <<>>
<1> DEFINE k == Socket(Request(c))
<1>1. Calling(c) /\ ~access[c].sent
  BY SendIs
<1>2. ~Heard(c) /\ ~Deaf(c) /\ Done(c) = access[c].at - 1 /\ seen[c].port
  BY <1>1, NotSent DEF Mail
<1>3. \A s \in Sockets : replies[c][s] = <<>>
  BY <1>1 DEF Mail
<1>4. access'[c].sent /\ Request(c)' = Request(c) /\ k \in Sockets
  BY <1>1, SendEffect, RequestIs
<1>5. Heard(c)' <=> replies'[c][k] # <<>>
  BY <1>4 DEF Heard
<1>6. Deaf(c)' <=> replies'[c][k] = <<>>
  BY <1>4 DEF Deaf
<1>7. \/ replies'[c] = replies[c]
      \/ /\ Served(c) /\ dest' = c
         /\ \A s \in Sockets \ {k} : replies'[c][s] = replies[c][s]
         /\ replies'[c][k] = Append(replies[c][k], ReplyTo(Request(c)))
  BY SendEffect
<1>8. Unserved => Deaf(c)'
  BY <1>3, <1>4, <1>6 DEF Unserved
<1>9. CASE replies'[c] = replies[c]
  BY <1>2, <1>3, <1>4, <1>5, <1>6, <1>8, <1>9
<1>10. CASE /\ Served(c) /\ dest' = c
            /\ \A s \in Sockets \ {k} : replies'[c][s] = replies[c][s]
            /\ replies'[c][k] = Append(replies[c][k], ReplyTo(Request(c)))
  <2>1. replies'[c][k] = <<ReplyTo(Request(c))>>
    <3>1. \A x : Append(<<>>, x) = <<x>>
      OBVIOUS
    <3> QED BY <1>3, <1>4, <1>10, <3>1
  <2>2. Reply(c)' = ReplyTo(Request(c))
    <3>1. Reply(c)' = Head(replies'[c][k])
      BY <1>4 DEF Reply
    <3>2. \A x : Head(<<x>>) = x
      OBVIOUS
    <3> QED BY <2>1, <3>1, <3>2
  <2>3. replies'[c][k] # <<>>
    BY <2>1
  <2> QED BY <1>2, <1>3, <1>5, <1>6, <1>8, <1>10, <2>1, <2>2, <2>3
<1> QED BY <1>7, <1>9, <1>10

(* Every step keeps what is known of the replies. *)
LEMMA MailKept ==
  ASSUME Types, MailInv, [SeqNext]_seqVars
  PROVE  MailInv'
<1> SUFFICES ASSUME NEW d \in SeqClients, d \notin strayed' PROVE Mail(d)'
  BY DEF MailInv
<1>1. CASE Quiet
  <2>1. UNCHANGED <<access, replies, seen, strayed>>
    BY <1>1 DEF Quiet, historySeqVars
  <2> QED BY <2>1, Bystander DEF MailInv
<1>2. ASSUME NEW c \in SeqClients, NEW o \in SeqOps[c], Begins(c, o)
      PROVE  Mail(d)'
  <2>1. ~Calling(c) /\ ~access'[c].sent /\ seen'[c].port /\ UNCHANGED <<replies, strayed>>
    BY <1>2 DEF Begins
  <2>2. CASE d = c
    <3>1. \A s \in Sockets : replies'[c][s] = <<>>
      BY <2>1, <2>2 DEF MailInv, Mail
    <3> QED BY <2>1, <2>2, <3>1, Silent
  <2>3. CASE d # c
    <3>1. access'[d] = access[d] /\ seen'[d].port = seen[d].port
      BY <1>2, <2>3 DEF Begins
    <3> QED BY <2>1, <3>1, Bystander DEF MailInv
  <2> QED BY <2>2, <2>3
<1>3. ASSUME NEW c \in SeqClients, SendRequest(c)
      PROVE  Mail(d)'
  <2>1. Calling(c) /\ ~access[c].sent /\ (Unserved \/ Served(c)) /\ strayed \subseteq strayed'
    BY <1>3, SendIs, SendEffect
  <2>2. Mail(d)
    BY <2>1 DEF MailInv
  <2>3. CASE d = c
    <3>0. SendRequest(d) /\ Calling(d)
      BY <1>3, <2>1, <2>3
    <3>1. Request(d)' = Request(d) /\ Calling(d)' /\ access'[d].sent
      BY <3>0, SendEffect
    <3>2. CASE Deaf(d)'
      <4>1. ~Heard(d)' /\ \A s \in Sockets : replies'[d][s] = <<>>
        BY <3>0, <2>2, <3>2, OwnReply
      <4> QED BY <3>2, <4>1 DEF Mail
    <3>3. CASE ~Deaf(d)'
      <4>1. /\ Served(d) /\ dest' = d /\ Reply(d)' = ReplyTo(Request(d)) /\ seen[d].port
            /\ replies'[d][Socket(Request(d))] = <<ReplyTo(Request(d))>>
            /\ \A s \in Sockets \ {Socket(Request(d))} : replies'[d][s] = <<>>
        BY <3>0, <2>2, <3>3, OwnReply
      <4>2. fifo' \in Seq(CmdKinds) /\ counter' \in Nat
        BY <3>0, <4>1, ServeEffect DEF Served
      <4>3. seen'[d].port
        BY <4>1, <4>2, NoticeEffect DEF Served
      <4>4. ReplyTo(Request(d)).reg = Request(d).reg
        BY DEF ReplyTo
      <4>5. Matching(d)'
        BY <3>1, <4>1, <4>4 DEF Matching
      <4>6. Socket(Request(d))' = Socket(Request(d))
        BY <3>1
      <4> HIDE DEF Served
      <4> QED BY <3>1, <4>1, <4>3, <4>5, <4>6 DEF Mail
    <3> QED BY <3>2, <3>3
  <2>4. CASE d # c
    <3>1. /\ \A e \in SeqClients \ {c} : access'[e] = access[e]
          /\ \A e \in SeqClients \ {c} : e \notin strayed' => replies'[e] = replies[e]
      BY <1>3, SendEffect
    <3>2. seen'[d].port = seen[d].port
      <4>1. CASE Unserved
        BY <4>1 DEF Unserved
      <4>2. CASE Served(c)
        <5>1. fifo' \in Seq(CmdKinds) /\ counter' \in Nat
          BY <2>1, <4>2, ServeEffect DEF Served
        <5> QED BY <2>4, <4>2, <5>1, NoticeEffect DEF Served
      <4> QED BY <2>1, <4>1, <4>2
    <3> QED BY <2>2, <2>4, <3>1, <3>2, Bystander
  <2> QED BY <2>3, <2>4
<1>4. ASSUME NEW c \in SeqClients, Answered(c) \/ TimedOut(c)
      PROVE  Mail(d)'
  <2>1. /\ \/ Moves(c) /\ Heard(c)
           \/ \E result : Ends(c, result)
        /\ Calling(c) /\ \A e \in SeqClients \ {c} : replies'[e] = replies[e]
    BY <1>4
    DEF Answered, TimedOut, Taken, Halfway, PollsAgain, GoesOn, EndsOk, EndsRefused, EndsCounted
  <2>2. /\ \A e \in SeqClients \ {c} : access'[e] = access[e] /\ seen'[e] = seen[e]
        /\ strayed' = strayed
        /\ Calling(c)' => ~access'[c].sent /\ Heard(c) /\ seen'[c] = seen[c]
    BY <2>1 DEF Moves, Ends, SameDevice
  <2>3. Mail(d)
    BY <2>2 DEF MailInv
  <2>4. CASE d = c
    <3>1. \A s \in Sockets : replies'[c][s] = <<>>
      BY <1>4, <2>3, <2>4, Emptied
    <3>2. Heard(c) => seen[c].port
      BY <2>1, <2>3, <2>4 DEF Mail, Heard, Deaf
    <3> QED BY <2>2, <2>4, <3>1, <3>2, Silent
  <2>5. CASE d # c
    BY <2>1, <2>2, <2>3, <2>5, Bystander
  <2> QED BY <2>4, <2>5
<1> QED BY <1>1, <1>2, <1>3, <1>4, StepCases

-----------------------------------------------------------------------------
(* CTRL. *)

(* What a call that is alone in CTRL has made of it, before and after.     *)
LEMMA SameCtrlAt ==
  ASSUME NEW c, flags' = flags, access'[c].op = access[c].op, NEW k, Done(c)' = k
  PROVE  CtrlAt(access[c].op, Done(c))' = CtrlAt(access[c].op, k)
BY DEF CtrlAt, FlagsAfter, Held, FirstFlagStep

(* The steps of start_sequencer. *)
LEMMA StartIs ==
  ASSUME Types, NEW c \in SeqClients, Calling(c), access[c].name = "start"
  PROVE  /\ access[c].at \in 1 .. 3 /\ Len(SeqMethod(access[c].op)) = 3
         /\ StepOf(c) = Bit("START", IF access[c].at = 2 THEN 1 ELSE 0) /\ StepOf(c).kind = "bit"
<1>1. /\ access[c].op.name = "start" /\ access[c].at \in 1 .. Len(SeqMethod(access[c].op))
      /\ StepOf(c) = SeqMethod(access[c].op)[access[c].at]
  BY CallFacts
<1>2. SeqMethod(access[c].op) = <<Bit("START", 0), Bit("START", 1), Bit("START", 0)>>
  BY <1>1, OtherLists
<1>3. access[c].at \in 1 .. 3 /\ Len(SeqMethod(access[c].op)) = 3
  BY <1>1, <1>2
<1>4. StepOf(c) = Bit("START", IF access[c].at = 2 THEN 1 ELSE 0)
  BY <1>1, <1>2, <1>3
<1>5. StepOf(c).kind = "bit"
  BY <1>4 DEF Bit
<1> QED BY <1>3, <1>4, <1>5

(* A call that a step of another client leaves alone. *)
LEMMA AloneStays ==
  ASSUME NEW d \in SeqClients, access'[d] = access[d], replies'[d] = replies[d],
         ctrl' = ctrl, flags' = flags, settled' = settled,
         seen'[d].starts = seen[d].starts, AloneInCtrl(d)
  PROVE  AloneInCtrl(d)'
<1>1. /\ StepOf(d)' = StepOf(d) /\ Reply(d)' = Reply(d) /\ Heard(d)' = Heard(d) /\ Done(d)' = Done(d)
  BY Untouched
<1>2. CtrlAt(access[d].op, Done(d))' = CtrlAt(access[d].op, Done(d))
  BY <1>1, SameCtrlAt
<1> QED BY <1>1, <1>2 DEF AloneInCtrl

(* A call that is alone in CTRL is served. *)
LEMMA AloneServed ==
  ASSUME Types, NEW c \in SeqClients, InCtrlOp(c), SendRequest(c), Mail(c), c \notin strayed',
         Heard(c)', AloneInCtrl(c)
  PROVE  AloneInCtrl(c)'
<1> DEFINE s == StepOf(c)
           a == access[c]
           k == IF s.kind = "bit" /\ a.half = "read" THEN a.at - 1 ELSE a.at
<1>1. /\ ~Heard(c) /\ Done(c) = a.at - 1 /\ Served(c) /\ Reply(c)' = ReplyTo(Request(c))
  BY OwnReply
<1>2. Calling(c) /\ ~a.sent /\ UNCHANGED <<flags, settled>>
  BY SendIs
<1>3. /\ access'[c].sent /\ access'[c].name = a.name /\ access'[c].op = a.op /\ access'[c].at = a.at
      /\ access'[c].half = a.half /\ StepOf(c)' = s
  BY SendEffect
<1>4. /\ a.name = a.op.name /\ a.op \in SeqOps[c] /\ a.at \in 1 .. Len(SeqMethod(a.op)) /\ a.at \in Nat \ {0}
      /\ s = SeqMethod(a.op)[a.at] /\ a.half \in {"read", "write"} /\ (a.half = "write" => s.kind = "bit")
      /\ s.kind \in {"bit", "put", "get", "poll", "packet"}
      /\ s.kind = "packet" => a.name = "push"
      /\ s.kind = "get" => a.name \in {"push", "unprocessed", "check_err"}
      /\ s.kind = "put" => a.name = "initialize" /\ a.at \in 1 .. 3 /\ (s.reg = "CTRL" <=> a.at = 3)
      /\ s.kind = "bit" => s = Bit(s.bit, s.val)
  BY <1>2, CallFacts
<1>5. a.name \in CtrlOps /\ s.kind \in {"bit", "put", "poll"}
  BY <1>4 DEF InCtrlOp, CtrlOps
<1>6. flags \subseteq Flags
  BY DEF Types
<1>7. /\ s.kind = "bit" => Written(s, CtrlAt(a.op, a.at - 1)) = CtrlAt(a.op, a.at)
      /\ s.kind = "bit" /\ a.name = "initialize" => a.at > 3
      /\ s.kind = "put" => CtrlAt(a.op, a.at) = IF s.reg = "CTRL" THEN {} ELSE CtrlAt(a.op, a.at - 1)
      /\ s.kind = "poll" => a.name \notin {"initialize", "start"} /\ CtrlAt(a.op, a.at) = CtrlAt(a.op, a.at - 1)
  BY ZenonT(30), <1>4, <1>5, <1>6, CtrlSteps
<1>8. Done(c)' = k
  BY <1>3, <1>4 DEF Done
<1>9. CtrlAt(a.op, Done(c))' = CtrlAt(a.op, k)
  BY <1>2, <1>3, <1>8, SameCtrlAt
<1>10. /\ s.kind = "bit" /\ a.half = "write" => ctrl' = Written(s, a.val)
       /\ s.kind = "put" /\ s.reg = "CTRL" => ctrl' = {}
       /\ OnlyAsks(c) => ctrl' = ctrl
       /\ fifo' \in Seq(CmdKinds) /\ counter' \in Nat
  BY <1>1, <1>2, ServeEffect DEF Served, Changed
<1>11. seen'[c].starts = seen[c].starts + (IF EdgeOf("START", ctrl') THEN 1 ELSE 0)
  BY <1>1, <1>10, NoticeEffect DEF Served
<1>12. s.kind = "bit" /\ a.half = "write" => a.val = ctrl
  BY <1>2 DEF AloneInCtrl
<1>13. settled \/ (a.name = "initialize" /\ a.at - 1 >= 3) => ctrl = CtrlAt(a.op, a.at - 1)
  BY <1>1 DEF AloneInCtrl
<1>14. settled \/ (a.name = "initialize" /\ k >= 3) => ctrl' = CtrlAt(a.op, k)
  <2>1. CASE s.kind = "bit" /\ a.half = "read"
    BY <1>10, <1>13, <2>1 DEF OnlyAsks
  <2>2. CASE s.kind = "bit" /\ a.half = "write"
    <3>1. k = a.at /\ ctrl' = Written(s, ctrl)
      BY <1>10, <1>12, <2>2
    <3>2. a.name = "initialize" => a.at - 1 >= 3
      BY <1>4, <1>7, <2>2
    <3> QED BY <1>7, <1>13, <2>2, <3>1, <3>2
  <2>3. CASE s.kind = "put" /\ s.reg = "CTRL"
    BY <1>7, <1>10, <2>3
  <2>4. CASE s.kind = "put" /\ s.reg # "CTRL"
    <3>1. k = a.at /\ ctrl' = ctrl /\ ~(k >= 3)
      BY <1>4, <1>10, <2>4 DEF OnlyAsks
    <3> QED BY <1>7, <1>13, <2>4, <3>1
  <2>5. CASE s.kind = "poll"
    <3>1. k = a.at /\ ctrl' = ctrl
      BY <1>10, <2>5 DEF OnlyAsks
    <3> QED BY <1>7, <1>13, <2>5, <3>1
  <2> QED BY <1>4, <1>5, <2>1, <2>2, <2>3, <2>4, <2>5
<1>15. a.name = "start" =>
         seen'[c].starts = (IF k >= 2 THEN 1 ELSE 0) /\ (k = 1 => "START" \notin ctrl')
  <2> SUFFICES ASSUME a.name = "start"
               PROVE  seen'[c].starts = (IF k >= 2 THEN 1 ELSE 0) /\ (k = 1 => "START" \notin ctrl')
    OBVIOUS
  <2>1. a.at \in 1 .. 3 /\ s = Bit("START", IF a.at = 2 THEN 1 ELSE 0) /\ s.kind = "bit"
    BY <1>2, StartIs
  <2>2. /\ seen[c].starts = (IF a.at - 1 >= 2 THEN 1 ELSE 0)
        /\ a.at - 1 = 1 => "START" \notin ctrl
    BY <1>1 DEF AloneInCtrl
  <2>3. CASE a.half = "read"
    <3>1. ctrl' = ctrl /\ k = a.at - 1
      BY <1>10, <2>1, <2>3 DEF OnlyAsks
    <3>2. ~EdgeOf("START", ctrl')
      BY <3>1 DEF EdgeOf
    <3> QED BY <1>11, <2>1, <2>2, <3>1, <3>2
  <2>4. CASE a.half = "write"
    <3>1. k = a.at /\ ctrl' = Written(s, ctrl)
      BY <1>10, <1>12, <2>1, <2>4
    <3>2. ctrl' = IF a.at = 2 THEN ctrl \cup {"START"} ELSE ctrl \ {"START"}
      <4>1. /\ Written(Bit("START", 1), ctrl) = ctrl \cup {"START"}
            /\ Written(Bit("START", 0), ctrl) = ctrl \ {"START"}
        BY RaiseAndLower
      <4>2. CASE a.at = 2
        <5>1. s = Bit("START", 1)
          BY <2>1, <4>2
        <5> QED BY <3>1, <4>1, <4>2, <5>1
      <4>3. CASE a.at # 2
        <5>1. s = Bit("START", 0)
          BY <2>1, <4>3
        <5> QED BY <3>1, <4>1, <4>3, <5>1
      <4> QED BY <4>2, <4>3
    <3>3. EdgeOf("START", ctrl') <=> a.at = 2
      BY <2>2, <2>1, <3>2 DEF EdgeOf
    <3> QED BY <1>11, <2>1, <2>2, <3>1, <3>2, <3>3
  <2> QED BY <1>4, <2>3, <2>4
<1>16. s.kind = "bit" /\ a.half = "read" => Reply(c)'.val = ctrl'
  <2> SUFFICES ASSUME s.kind = "bit", a.half = "read" PROVE Reply(c)'.val = ctrl'
    OBVIOUS
  <2>1. Request(c) = [kind |-> "read", reg |-> "CTRL", val |-> {}]
    BY <1>2, RequestIs
  <2>2. ReplyTo(Request(c)).val = ctrl
    BY <2>1 DEF ReplyTo, RegisterVal
  <2> QED BY <1>1, <1>10, <2>2 DEF OnlyAsks
<1> HIDE DEF k
<1> QED BY <1>2, <1>3, <1>8, <1>9, <1>14, <1>15, <1>16 DEF AloneInCtrl

(* A call that is alone in CTRL goes on. *)
LEMMA AloneMoves ==
  ASSUME Types, NEW c \in SeqClients, InCtrlOp(c), Heard(c), AloneInCtrl(c),
         Halfway(c) \/ PollsAgain(c) \/ GoesOn(c)
  PROVE  AloneInCtrl(c)'
<1> DEFINE s == StepOf(c)
           a == access[c]
<1>1. /\ Moves(c) /\ Calling(c)' /\ access'[c].op = a.op /\ access'[c].name = a.name /\ ~access'[c].sent
      /\ ctrl' = ctrl /\ flags' = flags /\ settled' = settled /\ seen' = seen
  BY DEF Halfway, PollsAgain, GoesOn, Moves, SameDevice
<1>2. Calling(c) /\ a.op.name \in CtrlOps
  BY InOps
<1>3. /\ a.name = a.op.name /\ a.op \in SeqOps[c] /\ a.at \in 1 .. Len(SeqMethod(a.op)) /\ a.at \in Nat \ {0}
      /\ s = SeqMethod(a.op)[a.at] /\ a.half \in {"read", "write"} /\ (a.half = "write" => s.kind = "bit")
  BY <1>2, CallFacts
<1>4. flags \subseteq Flags
  BY DEF Types
<1>5. /\ CtrlAt(a.op, 0) = flags
      /\ s.kind = "poll" => a.name \notin {"initialize", "start"} /\ CtrlAt(a.op, a.at) = CtrlAt(a.op, a.at - 1)
  BY <1>2, <1>3, <1>4, CtrlSteps
<1>6. ~Heard(c)' /\ Done(c)' = access'[c].at - 1
  BY <1>1 DEF Heard, Done
<1>7. a.name # "unprocessed"
  BY <1>2, <1>3 DEF CtrlOps
<1>8. CASE Halfway(c)
  <2>1. s.kind = "bit" /\ a.half = "read" /\ access'[c].at = a.at /\ access'[c].half = "write"
        /\ access'[c].val = Reply(c).val
    BY <1>8 DEF Halfway
  <2>2. Done(c) = a.at - 1 /\ Reply(c).val = ctrl
    BY <2>1 DEF AloneInCtrl, Done
  <2>3. Done(c)' = Done(c)
    BY <1>6, <2>1, <2>2
  <2>4. CtrlAt(a.op, Done(c))' = CtrlAt(a.op, Done(c))
    BY <1>1, <2>3, SameCtrlAt
  <2> QED BY <1>1, <1>6, <2>1, <2>2, <2>3, <2>4 DEF AloneInCtrl
<1>9. CASE PollsAgain(c)
  <2>1. s.kind = "poll" /\ access'[c].at = a.at /\ access'[c].half = a.half
    BY <1>9 DEF PollsAgain
  <2>2. Done(c) = a.at /\ Done(c)' = a.at - 1
    BY <1>6, <2>1 DEF Done
  <2>3. CtrlAt(a.op, Done(c))' = CtrlAt(a.op, Done(c))
    <3>1. CtrlAt(a.op, Done(c))' = CtrlAt(a.op, a.at - 1)
      BY <1>1, <2>2, SameCtrlAt
    <3> QED BY <1>5, <2>1, <2>2, <3>1
  <2>4. a.name \notin {"initialize", "start"}
    BY <1>5, <2>1
  <2>5. StepOf(c)' = s
    BY <1>1, <2>1 DEF StepOf
  <2> QED BY <1>1, <1>6, <2>1, <2>3, <2>4, <2>5 DEF AloneInCtrl
<1>10. CASE GoesOn(c)
  <2>1. /\ s.kind = "bit" => a.half = "write"
        /\ access'[c].at = a.at + 1 /\ access'[c].half = "read"
    BY <1>10 DEF GoesOn, StepOver
  <2>2. Done(c) = a.at
    BY <2>1 DEF Done
  <2>3. Done(c)' = Done(c)
    BY <1>3, <1>6, <2>1, <2>2
  <2>4. CtrlAt(a.op, Done(c))' = CtrlAt(a.op, Done(c))
    BY <1>1, <2>3, SameCtrlAt
  <2> QED BY <1>1, <1>6, <2>1, <2>3, <2>4 DEF AloneInCtrl
<1> QED BY <1>8, <1>9, <1>10

(* A call that is alone in CTRL begins. *)
LEMMA AloneBegins ==
  ASSUME Types, NEW c \in SeqClients, NEW o \in SeqOps[c], Begins(c, o), o.name \in CtrlOps,
         settled => ctrl = flags
  PROVE  AloneInCtrl(c)'
<1>1. /\ access'[c].op = o /\ access'[c].name = o.name /\ access'[c].at = 1 /\ access'[c].half = "read"
      /\ ~access'[c].sent /\ seen'[c].starts = 0 /\ UNCHANGED <<ctrl, flags, settled>>
  BY DEF Begins
<1>2. ~Heard(c)' /\ Done(c)' = 0
  BY <1>1 DEF Heard, Done
<1>3. CtrlAt(access[c].op, Done(c))' = flags
  <2>1. CtrlAt(o, 0) = flags
    <3>1. FirstFlagStep(o.name) \in {1, 3}
      BY DEF FirstFlagStep
    <3>2. Held(o.name, 0) = {}
      BY DEF Held
    <3>3. ~(0 >= FirstFlagStep(o.name))
      BY <3>1
    <3> QED BY <3>2, <3>3 DEF CtrlAt
  <2>2. CtrlAt(access[c].op, Done(c))' = CtrlAt(o, 0)
    BY <1>1, <1>2 DEF CtrlAt, FlagsAfter, Held, FirstFlagStep
  <2> QED BY <2>1, <2>2
<1> QED BY <1>1, <1>2, <1>3 DEF AloneInCtrl

(* What a call that was alone in CTRL and returns has left there.          *)
LEMMA AloneEnds ==
  ASSUME Types, NEW c \in SeqClients, InCtrlOp(c), Heard(c), AloneInCtrl(c), EndsOk(c)
  PROVE  /\ settled \/ access[c].op.name = "initialize" => ctrl = FlagsAfter(access[c].op)
         /\ access[c].name = "start" => seen[c].starts = 1
<1> DEFINE s == StepOf(c)
           a == access[c]
<1>1. Calling(c) /\ a.op.name \in CtrlOps
  BY InOps
<1>2. a.name = a.op.name /\ a.op \in SeqOps[c] /\ flags \subseteq Flags
  BY <1>1, CallFacts DEF Types
<1>3. CtrlAt(a.op, Len(SeqMethod(a.op))) = FlagsAfter(a.op)
  BY <1>1, <1>2, CtrlSteps
<1>4. a.at = Len(SeqMethod(a.op)) /\ Done(c) = a.at
  BY DEF EndsOk, StepOver, Done
<1>5. a.op.name = "initialize" => Len(SeqMethod(a.op)) = 6
  <2>1. a.op.name = "initialize" =>
          SeqMethod(a.op) = <<Put("DEST_UDP_PORT"), Put("DEST_IP_ADDR"), Put("CTRL"),
                              Bit("RESET", 1), Bit("RESET", 0), Bit("BRANCH_FLAG_NEG", 0)>>
    BY OtherLists
  <2> QED BY <2>1
<1>6. a.name = "start" => Len(SeqMethod(a.op)) = 3
  BY <1>1, StartIs
<1>7. a.op.name = "initialize" => a.name = "initialize" /\ Done(c) >= 3
  <2>1. a.op.name = "initialize" => a.name = "initialize" /\ Done(c) = 6
    BY <1>2, <1>4, <1>5, Zenon
  <2> QED BY <2>1
<1>8. settled \/ a.op.name = "initialize" => ctrl = CtrlAt(a.op, Done(c))
  BY <1>7 DEF AloneInCtrl
<1>9. CtrlAt(a.op, Done(c)) = FlagsAfter(a.op)
  BY <1>3, <1>4
<1>10. a.name = "start" => Done(c) >= 2
  <2>1. a.name = "start" => Done(c) = 3
    BY <1>4, <1>6, Zenon
  <2> QED BY <2>1
<1> QED BY <1>8, <1>9, <1>10 DEF AloneInCtrl

(* What a step of another client leaves alone. *)
LEMMA CtrlBystander ==
  ASSUME NEW d \in SeqClients, Ctrl(d),
         access'[d] = access[d], replies'[d] = replies[d], strayed \subseteq strayed',
         seen'[d].starts = seen[d].starts,
         InCtrlOp(d) /\ ~seen'[d].crossed =>
           /\ ~seen[d].crossed /\ ctrl' = ctrl /\ flags' = flags /\ settled' = settled
           /\ \A e \in SeqClients \ {d} : InCtrlOp(e)' => InCtrlOp(e)
  PROVE  Ctrl(d)'
<1>1. InCtrlOp(d)' = InCtrlOp(d) /\ Deaf(d)' = Deaf(d)
  BY Untouched
<1> SUFFICES ASSUME InCtrlOp(d), ~seen'[d].crossed
             PROVE  /\ \A e \in SeqClients \ {d} : ~InCtrlOp(e)'
                    /\ d \notin strayed' /\ ~Deaf(d) => AloneInCtrl(d)'
  BY <1>1 DEF Ctrl
<1>2. \A e \in SeqClients \ {d} : ~InCtrlOp(e)'
  BY DEF Ctrl
<1>3. ASSUME d \notin strayed', ~Deaf(d) PROVE AloneInCtrl(d)'
  <2>1. AloneInCtrl(d)
    BY <1>3 DEF Ctrl
  <2> QED BY <2>1, AloneStays
<1> QED BY <1>2, <1>3

(* Who makes a call in CTRL after a step. *)
LEMMA SameOps ==
  ASSUME NEW c \in SeqClients, \A d \in SeqClients \ {c} : access'[d] = access[d]
  PROVE  /\ \A d \in SeqClients \ {c} : InCtrlOp(d)' = InCtrlOp(d) /\ InQueueOp(d)' = InQueueOp(d)
         /\ access'[c].name = access[c].name => InCtrlOp(c)' = InCtrlOp(c) /\ InQueueOp(c)' = InQueueOp(c)
BY DEF InCtrlOp, InQueueOp

(* Every step keeps what is known of CTRL. *)
LEMMA CtrlKept ==
  ASSUME Types, MailInv, CtrlInv, [SeqNext]_seqVars
  PROVE  CtrlInv'
<1> DEFINE NoneInside == \A e \in SeqClients : ~InCtrlOp(e)
<1>1. CASE Quiet
  <2>1. UNCHANGED <<access, replies, seen, strayed, ctrl, flags, settled>>
    BY <1>1 DEF Quiet, historySeqVars
  <2>2. \A d \in SeqClients : InCtrlOp(d)' = InCtrlOp(d)
    BY <2>1 DEF InCtrlOp
  <2>3. \A d \in SeqClients : Ctrl(d)'
    BY <2>1, <2>2, CtrlBystander DEF CtrlInv
  <2> QED BY <2>1, <2>2, <2>3 DEF CtrlInv
<1>2. ASSUME NEW c \in SeqClients, NEW o \in SeqOps[c], Begins(c, o)
      PROVE  CtrlInv'
  <2>1. /\ ~Calling(c) /\ Calling(c)' /\ access'[c].name = o.name
        /\ \A d \in SeqClients \ {c} :
             /\ access'[d] = access[d] /\ seen'[d].starts = seen[d].starts
             /\ seen'[d].crossed <=> seen[d].crossed \/ (o.name \in CtrlOps /\ InCtrlOp(d))
        /\ seen'[c].crossed <=> o.name \in CtrlOps /\ \E d \in SeqClients \ {c} : InCtrlOp(d)
        /\ UNCHANGED <<ctrl, replies, strayed, flags, settled>>
    BY <1>2 DEF Begins
  <2>2. \A d \in SeqClients \ {c} : InCtrlOp(d)' = InCtrlOp(d)
    BY <2>1, SameOps
  <2>3. InCtrlOp(c)' <=> o.name \in CtrlOps
    BY <2>1 DEF InCtrlOp
  <2>4. ~InCtrlOp(c)
    BY <2>1, InOps
  <2>5. ASSUME NEW d \in SeqClients \ {c} PROVE Ctrl(d)'
    <3>1. Ctrl(d)
      BY DEF CtrlInv
    <3>2. ~seen'[d].crossed /\ InCtrlOp(d) => ~seen[d].crossed /\ o.name \notin CtrlOps
      BY <2>1
    <3>3. ~seen'[d].crossed /\ InCtrlOp(d) => \A e \in SeqClients \ {d} : InCtrlOp(e)' => InCtrlOp(e)
      BY <2>2, <2>3, <3>2
    <3> QED BY <2>1, <3>1, <3>2, <3>3, CtrlBystander
  <2>6. Ctrl(c)'
    <3> SUFFICES ASSUME InCtrlOp(c)', ~seen'[c].crossed
                 PROVE  (\A d \in SeqClients \ {c} : ~InCtrlOp(d)') /\ AloneInCtrl(c)'
      BY DEF Ctrl
    <3>1. o.name \in CtrlOps /\ \A d \in SeqClients \ {c} : ~InCtrlOp(d)
      BY <2>1, <2>3
    <3>2. settled => ctrl = flags
      BY <2>4, <3>1 DEF CtrlInv
    <3>3. AloneInCtrl(c)'
      BY <1>2, <3>1, <3>2, AloneBegins
    <3> QED BY <2>2, <3>1, <3>3
  <2>7. NoneInside' => NoneInside
    BY <2>2, <2>4
  <2> QED BY <2>1, <2>5, <2>6, <2>7 DEF CtrlInv
<1>3. ASSUME NEW c \in SeqClients, SendRequest(c)
      PROVE  CtrlInv'
  <2>1. /\ Calling(c) /\ ~access[c].sent /\ (Unserved \/ Served(c)) /\ strayed \subseteq strayed'
        /\ UNCHANGED <<flags, settled>>
    BY <1>3, SendIs, SendEffect
  <2>2. /\ access'[c].name = access[c].name /\ \A d \in SeqClients \ {c} : access'[d] = access[d]
        /\ \A d \in SeqClients \ {c} : d \notin strayed' => replies'[d] = replies[d]
    BY <1>3, SendEffect
  <2>3. \A d \in SeqClients : InCtrlOp(d)' = InCtrlOp(d)
    BY <2>2, SameOps
  <2>4. \A d \in SeqClients : /\ seen'[d].crossed = seen[d].crossed
                              /\ d # c => seen'[d].starts = seen[d].starts
    <3>1. CASE Unserved
      BY <3>1 DEF Unserved
    <3>2. CASE Served(c)
      <4>1. fifo' \in Seq(CmdKinds) /\ counter' \in Nat
        BY <2>1, <3>2, ServeEffect DEF Served
      <4> QED BY <3>2, <4>1, NoticeEffect DEF Served
    <3> QED BY <2>1, <3>1, <3>2
  <2>5. ~InCtrlOp(c) => ctrl' = ctrl
    <3> SUFFICES ASSUME ~InCtrlOp(c) PROVE ctrl' = ctrl
      OBVIOUS
    <3>1. StepOf(c).kind \in {"get", "poll", "packet"}
      BY <2>1, CallFacts DEF InCtrlOp
    <3>2. CASE Served(c)
      BY <2>1, <3>1, <3>2, ServeEffect DEF Served, OnlyAsks
    <3> QED BY <2>1, <3>2 DEF Unserved
  <2>6. ASSUME NEW d \in SeqClients \ {c} PROVE Ctrl(d)'
    <3> SUFFICES ASSUME InCtrlOp(d), ~seen[d].crossed
                 PROVE  /\ \A e \in SeqClients \ {d} : ~InCtrlOp(e)
                        /\ d \notin strayed' /\ ~Deaf(d)' => AloneInCtrl(d)'
      BY <2>3, <2>4 DEF Ctrl
    <3>1. Ctrl(d)
      BY DEF CtrlInv
    <3>2. \A e \in SeqClients \ {d} : ~InCtrlOp(e)
      BY <3>1 DEF Ctrl
    <3>3. ASSUME d \notin strayed', ~Deaf(d)' PROVE AloneInCtrl(d)'
      <4>1. access'[d] = access[d] /\ replies'[d] = replies[d]
        BY <2>2, <3>3
      <4>2. Deaf(d)' = Deaf(d)
        BY <4>1, Untouched
      <4>3. AloneInCtrl(d)
        BY <2>1, <3>1, <3>3, <4>2 DEF Ctrl
      <4>4. ctrl' = ctrl
        BY <2>5, <3>2
      <4> QED BY <2>1, <2>4, <4>1, <4>3, <4>4, AloneStays
    <3> QED BY <3>2, <3>3
  <2>7. Ctrl(c)'
    <3> SUFFICES ASSUME InCtrlOp(c), ~seen[c].crossed
                 PROVE  /\ \A e \in SeqClients \ {c} : ~InCtrlOp(e)
                        /\ c \notin strayed' /\ ~Deaf(c)' => AloneInCtrl(c)'
      BY <2>3, <2>4 DEF Ctrl
    <3>1. Ctrl(c)
      BY DEF CtrlInv
    <3>2. ASSUME c \notin strayed', ~Deaf(c)' PROVE AloneInCtrl(c)'
      <4>1. c \notin strayed /\ Mail(c)
        BY <2>1, <3>2 DEF MailInv
      <4>2. ~Deaf(c) /\ Heard(c)'
        BY <1>3, <3>2, <4>1, OwnReply
      <4>3. AloneInCtrl(c)
        BY <3>1, <4>1, <4>2 DEF Ctrl
      <4> QED BY <1>3, <3>2, <4>1, <4>2, <4>3, AloneServed
    <3> QED BY <3>1, <3>2 DEF Ctrl
  <2>8. settled' /\ NoneInside' => ctrl' = flags'
    BY <2>1, <2>3, <2>5 DEF CtrlInv
  <2> QED BY <2>6, <2>7, <2>8 DEF CtrlInv
<1>4. ASSUME NEW c \in SeqClients, Answered(c), Moves(c)
      PROVE  CtrlInv'
  <2>1. /\ Heard(c) /\ (Halfway(c) \/ PollsAgain(c) \/ GoesOn(c))
        /\ \A d \in SeqClients \ {c} : replies'[d] = replies[d] /\ access'[d] = access[d]
        /\ access'[c].name = access[c].name /\ ~access'[c].sent
        /\ UNCHANGED <<ctrl, seen, flags, settled, strayed>>
    BY <1>4 DEF Answered, Taken, Moves, SameDevice, EndsOk, EndsRefused, EndsCounted, Ends
  <2>2. \A d \in SeqClients : InCtrlOp(d)' = InCtrlOp(d)
    BY <2>1, SameOps
  <2>3. ASSUME NEW d \in SeqClients \ {c} PROVE Ctrl(d)'
    BY <2>1, <2>2, CtrlBystander DEF CtrlInv
  <2>4. Ctrl(c)'
    <3> SUFFICES ASSUME InCtrlOp(c), ~seen[c].crossed
                 PROVE  /\ \A e \in SeqClients \ {c} : ~InCtrlOp(e)
                        /\ c \notin strayed => AloneInCtrl(c)'
      BY <2>1, <2>2 DEF Ctrl
    <3>1. Ctrl(c) /\ ~Deaf(c)
      BY <2>1 DEF CtrlInv, Heard, Deaf
    <3>2. c \notin strayed => AloneInCtrl(c)
      BY <3>1 DEF Ctrl
    <3>3. c \notin strayed => AloneInCtrl(c)'
      BY <2>1, <3>2, AloneMoves
    <3> QED BY <3>1, <3>3 DEF Ctrl
  <2>5. settled' /\ NoneInside' => ctrl' = flags'
    BY <2>1, <2>2 DEF CtrlInv
  <2> QED BY <2>3, <2>4, <2>5 DEF CtrlInv
<1>5. ASSUME NEW c \in SeqClients, Calling(c), NEW result, Ends(c, result),
             \A d \in SeqClients \ {c} : replies'[d] = replies[d],
             result = "ok" => Heard(c) /\ (EndsOk(c) \/ ~InCtrlOp(c))
      PROVE  CtrlInv'
  <2>1. /\ \A d \in SeqClients \ {c} : access'[d] = access[d] /\ seen'[d] = seen[d]
        /\ ~Calling(c)' /\ access'[c] = NoAccess /\ ctrl' = ctrl /\ strayed' = strayed
        /\ flags' = IF InCtrlOp(c) /\ (result = "ok" /\ ~seen[c].crossed /\ c \notin strayed)
                    THEN FlagsAfter(access[c].op) ELSE flags
        /\ settled' = IF ~InCtrlOp(c) THEN settled
                      ELSE (result = "ok" /\ ~seen[c].crossed /\ c \notin strayed)
                           /\ (settled \/ access[c].op.name = "initialize")
    BY <1>5 DEF Ends, SameDevice
  <2>2. ~InCtrlOp(c)' /\ \A d \in SeqClients \ {c} : InCtrlOp(d)' = InCtrlOp(d)
    <3>1. "none" \notin CtrlOps
      BY DEF CtrlOps, SeqOpNames
    <3>2. ~InCtrlOp(c)'
      BY <2>1, <3>1 DEF InCtrlOp, NoAccess
    <3> QED BY <2>1, <3>2, SameOps
  <2>3. ASSUME NEW d \in SeqClients \ {c} PROVE Ctrl(d)'
    <3>1. Ctrl(d)
      BY DEF CtrlInv
    <3>2. InCtrlOp(d) /\ ~seen[d].crossed => ~InCtrlOp(c)
      BY <3>1 DEF Ctrl
    <3>3. InCtrlOp(d) /\ ~seen[d].crossed => flags' = flags /\ settled' = settled
      BY <2>1, <3>2
    <3> QED BY <1>5, <2>1, <2>2, <3>1, <3>3, CtrlBystander
  <2>4. Ctrl(c)'
    BY <2>2 DEF Ctrl
  <2>5. ASSUME settled', NoneInside' PROVE ctrl' = flags'
    <3>1. CASE ~InCtrlOp(c)
      <4>1. settled /\ flags' = flags
        BY <2>1, <2>5, <3>1
      <4>2. NoneInside
        BY <2>2, <2>5, <3>1
      <4> QED BY <2>1, <4>1, <4>2 DEF CtrlInv
    <3>2. CASE InCtrlOp(c)
      <4>1. /\ result = "ok" /\ ~seen[c].crossed /\ c \notin strayed
            /\ settled \/ access[c].op.name = "initialize"
            /\ flags' = FlagsAfter(access[c].op)
        BY <2>1, <2>5, <3>2
      <4>2. Heard(c) /\ EndsOk(c) /\ ~Deaf(c)
        BY <1>5, <3>2, <4>1 DEF Heard, Deaf
      <4>3. AloneInCtrl(c)
        BY <3>2, <4>1, <4>2 DEF CtrlInv, Ctrl
      <4> QED BY <2>1, <3>2, <4>1, <4>2, <4>3, AloneEnds
    <3> QED BY <3>1, <3>2
  <2> QED BY <2>3, <2>4, <2>5 DEF CtrlInv
<1>6. ASSUME NEW c \in SeqClients, Answered(c)
      PROVE  CtrlInv'
  <2>1. Calling(c) /\ Heard(c) /\ \A d \in SeqClients \ {c} : replies'[d] = replies[d]
    BY <1>6 DEF Answered, Taken
  <2>2. CASE Halfway(c) \/ PollsAgain(c) \/ GoesOn(c)
    BY <1>4, <1>6, <2>2 DEF Halfway, PollsAgain, GoesOn
  <2>3. CASE EndsOk(c)
    BY <1>5, <2>1, <2>3 DEF EndsOk
  <2>4. CASE EndsRefused(c) \/ Ends(c, "raised")
    BY <1>5, <2>1, <2>4 DEF EndsRefused
  <2>5. CASE EndsCounted(c)
    <3>1. ~InCtrlOp(c)
      BY <2>5, InOps DEF EndsCounted
    <3> QED BY <1>5, <2>1, <2>5, <3>1 DEF EndsCounted
  <2> QED BY <1>6, <2>2, <2>3, <2>4, <2>5 DEF Answered
<1>7. ASSUME NEW c \in SeqClients, TimedOut(c)
      PROVE  CtrlInv'
  BY <1>5, <1>7 DEF TimedOut
<1> QED BY <1>1, <1>2, <1>3, <1>6, <1>7, StepCases

-----------------------------------------------------------------------------
(* The FIFO. *)

(* Two lists, one after the other, are a list of both lengths. *)
LEMMA Together ==
  ASSUME NEW S, NEW p \in Seq(S), NEW q \in Seq(S)
  PROVE  p \o q \in Seq(S) /\ Len(p \o q) = Len(p) + Len(q)
OBVIOUS

(* An element of two lists, one after the other. *)
LEMMA Joined ==
  ASSUME NEW S, NEW p \in Seq(S), NEW q \in Seq(S)
  PROVE  \A i \in 1 .. Len(p) + Len(q) :
           (p \o q)[i] = IF i <= Len(p) THEN p[i] ELSE q[i - Len(p)]
OBVIOUS

(* Two pieces of a list, one after the other. *)
LEMMA Splice ==
  ASSUME NEW b \in Seq(CmdKinds), NEW l \in Seq(CmdKinds), NEW u \in 0 .. Len(l), NEW w \in 0 .. Len(l),
         u <= w, NEW v, v = u + 1
  PROVE  (b \o SubSeq(l, 1, u)) \o SubSeq(l, v, w) = b \o SubSeq(l, 1, w)
<1>1. u \in Nat /\ w \in Nat /\ Len(l) \in Nat /\ u <= w /\ w <= Len(l)
  OBVIOUS
<1>2. \A x \in 0 .. Len(l) : /\ SubSeq(l, 1, x) \in Seq(CmdKinds) /\ Len(SubSeq(l, 1, x)) = x
                            /\ \A i \in 1 .. x : SubSeq(l, 1, x)[i] = l[i]
  OBVIOUS
<1>3. /\ SubSeq(l, u + 1, w) \in Seq(CmdKinds) /\ Len(SubSeq(l, u + 1, w)) = w - u
      /\ \A i \in 1 .. w - u : SubSeq(l, u + 1, w)[i] = l[u + i]
  BY <1>1
<1>4. SubSeq(l, 1, u) \o SubSeq(l, u + 1, w) = SubSeq(l, 1, w)
  <2> DEFINE p == SubSeq(l, 1, u)
             q == SubSeq(l, u + 1, w)
             r == SubSeq(l, 1, w)
  <2>1. /\ p \in Seq(CmdKinds) /\ Len(p) = u /\ (\A i \in 1 .. u : p[i] = l[i])
        /\ r \in Seq(CmdKinds) /\ Len(r) = w /\ (\A i \in 1 .. w : r[i] = l[i])
    BY <1>1, <1>2
  <2>2. q \in Seq(CmdKinds) /\ Len(q) = w - u /\ (\A i \in 1 .. w - u : q[i] = l[u + i])
    BY <1>3
  <2> HIDE DEF p, q, r
  <2>3. p \o q \in Seq(CmdKinds) /\ Len(p \o q) = w
    <3>1. p \o q \in Seq(CmdKinds) /\ Len(p \o q) = Len(p) + Len(q)
      BY <2>1, <2>2, Together
    <3>2. Len(p) + Len(q) = w
      BY <1>1, <2>1, <2>2
    <3> QED BY <3>1, <3>2
  <2>4. ASSUME NEW i \in 1 .. w PROVE (p \o q)[i] = r[i]
    <3>1. i \in Nat /\ i \in 1 .. Len(p) + Len(q) /\ r[i] = l[i]
      BY <1>1, <2>1, <2>2
    <3>2. (p \o q)[i] = IF i <= u THEN p[i] ELSE q[i - u]
      BY SMTT(20), <2>1, <2>2, <3>1, Joined
    <3>3. i <= u => p[i] = l[i]
      BY <1>1, <2>1, <3>1
    <3>4. ~(i <= u) => q[i - u] = l[i]
      <4>1. ~(i <= u) => i - u \in 1 .. w - u /\ u + (i - u) = i
        BY <1>1, <3>1
      <4>2. ~(i <= u) => q[i - u] = l[u + (i - u)]
        BY <2>2, <4>1
      <4> QED BY <4>1, <4>2
    <3> QED BY <3>1, <3>2, <3>3, <3>4
  <2>5. p \o q = r
    <3>1. p \o q \in Seq(CmdKinds) /\ r \in Seq(CmdKinds) /\ Len(p \o q) = Len(r)
      BY <2>1, <2>3
    <3>2. \A i \in 1 .. Len(p \o q) : (p \o q)[i] = r[i]
      BY <2>3, <2>4
    <3> QED BY <3>1, <3>2, SeqEqual
  <2> QED BY <2>5 DEF p, q, r
<1>5. (b \o SubSeq(l, 1, u)) \o SubSeq(l, u + 1, w) = b \o (SubSeq(l, 1, u) \o SubSeq(l, u + 1, w))
  <2>1. PICK p \in Seq(CmdKinds), q \in Seq(CmdKinds) : p = SubSeq(l, 1, u) /\ q = SubSeq(l, u + 1, w)
    BY <1>1, <1>2, <1>3
  <2>2. (b \o p) \o q = b \o (p \o q)
    BY SMTT(20), ConcatAssociative
  <2> QED BY <2>1, <2>2
<1>6. SubSeq(l, v, w) = SubSeq(l, u + 1, w)
  OBVIOUS
<1> QED BY <1>4, <1>5, <1>6

(* All of a list, and nothing of it. *)
LEMMA NoneAndAll ==
  ASSUME NEW b \in Seq(CmdKinds), NEW l \in Seq(CmdKinds)
  PROVE  b \o SubSeq(l, 1, 0) = b /\ SubSeq(l, 1, Len(l)) = l
<1>1. b \o SubSeq(l, 1, 0) = b
  <2>1. SubSeq(l, 1, 0) = <<>>
    OBVIOUS
  <2> QED BY <2>1, ConcatEmptySeq
<1>2. SubSeq(l, 1, Len(l)) = l
  OBVIOUS
<1> QED BY <1>1, <1>2

(* What a number of packets holds. *)
LEMMA SentBounds ==
  ASSUME NEW l \in Seq(CmdKinds), NEW k \in Nat
  PROVE  /\ Sent(l, k) \in 0 .. Len(l) /\ Sent(l, 0) = 0 /\ Sent(l, 1) = 0
         /\ k >= 1 => Sent(l, k) = UpTo(l, k - 1) /\ Sent(l, k) <= Sent(l, k + 1)
         /\ Sent(l, k) % PacketCmds = 0 \/ Sent(l, k) = Len(l)
         /\ Sent(l, PacketCount(l) + 1) = Len(l)
<1>1. PacketCmds \in Nat \ {0} /\ Len(l) \in Nat
  BY SequencerConstants
<1>2. UpTo(l, 0) = 0
  <2>1. 0 * PacketCmds = 0
    BY <1>1
  <2> QED BY <1>1, <2>1 DEF UpTo
<1>3. Sent(l, 0) = 0 /\ Sent(l, 1) = 0
  BY <1>2 DEF Sent
<1>4. k >= 1 => Sent(l, k) = UpTo(l, k - 1) /\ Sent(l, k) <= Sent(l, k + 1) /\ Sent(l, k) \in 0 .. Len(l)
  <2> SUFFICES ASSUME k >= 1
               PROVE  Sent(l, k) = UpTo(l, k - 1) /\ Sent(l, k) <= Sent(l, k + 1) /\ Sent(l, k) \in 0 .. Len(l)
    OBVIOUS
  <2>1. Sent(l, k) = UpTo(l, k - 1) /\ Sent(l, k + 1) = UpTo(l, k) /\ k - 1 \in Nat /\ (k - 1) + 1 = k
    BY DEF Sent
  <2>2. UpTo(l, k - 1) \in 0 .. Len(l) /\ UpTo(l, k - 1) <= UpTo(l, (k - 1) + 1)
    BY <2>1, UpToBounds
  <2> QED BY <2>1, <2>2
<1>5. Sent(l, k) \in 0 .. Len(l)
  BY <1>1, <1>3, <1>4
<1>6. Sent(l, k) % PacketCmds = 0 \/ Sent(l, k) = Len(l)
  <2>1. CASE k = 0
    <3>1. Sent(l, k) = 0 * PacketCmds
      BY <1>1, <1>3, <2>1
    <3> QED BY <1>1, <3>1, Multiple
  <2>2. CASE k # 0
    <3>1. k - 1 \in Nat /\ Sent(l, k) = UpTo(l, k - 1)
      BY <1>4, <2>2
    <3>2. Sent(l, k) = (k - 1) * PacketCmds \/ Sent(l, k) = Len(l)
      BY <3>1 DEF UpTo
    <3>3. ((k - 1) * PacketCmds) % PacketCmds = 0
      BY <1>1, <3>1, Multiple
    <3> QED BY <3>2, <3>3
  <2> QED BY <2>1, <2>2
<1>7. Sent(l, PacketCount(l) + 1) = Len(l)
  <2>1. CASE l = <<>>
    <3>1. Sent(l, PacketCount(l) + 1) = UpTo(l, 1)
      BY <2>1 DEF PacketCount, Sent
    <3>2. UpTo(l, 1) \in 0 .. Len(l) /\ Len(l) = 0
      BY <2>1, UpToBounds
    <3> QED BY <3>1, <3>2
  <2>2. CASE l # <<>>
    <3> DEFINE m == Len(l) - 1
               q == m \div PacketCmds
    <3>1. m \in Nat
      BY <2>2
    <3>2. q \in Nat /\ m < PacketCmds * q + PacketCmds
      BY <1>1, <3>1, Division
    <3>3. PacketCount(l) = q + 1
      BY <2>2 DEF PacketCount
    <3> HIDE DEF q
    <3>4. (q + 1) * PacketCmds = PacketCmds * q + PacketCmds /\ PacketCmds * q \in Nat
      BY <1>1, <3>2
    <3>5. ~((q + 1) * PacketCmds < Len(l))
      BY <1>1, <3>2, <3>4
    <3>6. Sent(l, PacketCount(l) + 1) = UpTo(l, q + 1)
      <4>1. PacketCount(l) + 1 # 0 /\ (PacketCount(l) + 1) - 1 = q + 1
        BY <3>2, <3>3
      <4> QED BY <4>1 DEF Sent
    <3> QED BY <3>5, <3>6 DEF UpTo
  <2> QED BY <2>1, <2>2
<1> QED BY <1>3, <1>4, <1>5, <1>6, <1>7

(* What serving a request of c leaves of what is noticed of each call.     *)
LEMMA SeenAfter ==
  ASSUME Types, NEW c \in SeqClients, SendRequest(c)
  PROVE  /\ fifo' \in Seq(CmdKinds)
         /\ seen'[c].mixed = seen[c].mixed /\ seen'[c].before = seen[c].before
         /\ \A d \in SeqClients \ {c} :
              /\ seen'[d].before = seen[d].before /\ seen'[d].truth = seen[d].truth
              /\ ~seen'[d].mixed => ~seen[d].mixed /\ fifo' = fifo
              /\ ~seen'[d].moved => ~seen[d].moved
              /\ ~seen'[d].moved /\ access[d].name = "unprocessed" =>
                   fifo' = fifo \/ (access[d].at = 2 /\ access[d].sent)
<1>1. Calling(c) /\ (Unserved \/ Served(c)) /\ fifo \in Seq(CmdKinds)
  BY SendIs DEF Types
<1>2. CASE Unserved
  BY <1>1, <1>2 DEF Unserved
<1>3. CASE Served(c)
  <2>1. fifo' \in Seq(CmdKinds) /\ counter' \in Nat
    BY <1>1, <1>3, ServeEffect DEF Served
  <2>2. Notice(c)
    BY <1>3 DEF Served
  <2>3. \A d \in SeqClients : access[d].name = "unprocessed" => Calling(d)
    BY InOps
  <2>4. /\ seen'[c].mixed = seen[c].mixed
        /\ \A d \in SeqClients :
             /\ seen'[d].before = seen[d].before
             /\ d # c =>
                  /\ seen'[d].truth = seen[d].truth
                  /\ ~seen'[d].mixed => ~seen[d].mixed /\ fifo' = fifo
                  /\ ~seen'[d].moved => ~seen[d].moved
                  /\ ~seen'[d].moved /\ Calling(d) /\ access[d].name = "unprocessed" =>
                       fifo' = fifo \/ (access[d].at = 2 /\ access[d].sent)
    BY <2>1, <2>2, NoticeEffect
  <2> QED BY <2>1, <2>3, <2>4
<1> QED BY <1>1, <1>2, <1>3

(* A request of push_commands is served, or lost. *)
LEMMA PushServed ==
  ASSUME Types, NEW c \in SeqClients, SendRequest(c), Mail(c), c \notin strayed', Push(c)
  PROVE  Push(c)'
<1> DEFINE a == access[c]
           arg == access[c].op.arg
           k == access[c].at
           b == seen[c].before
<1>1. /\ ~Heard(c) /\ ~Deaf(c) /\ Done(c) = k - 1
      /\ Heard(c)' <=> ~Deaf(c)'
      /\ Unserved => Deaf(c)'
      /\ Heard(c)' => Served(c) /\ Reply(c)' = ReplyTo(Request(c))
  BY OwnReply
<1>2. Calling(c) /\ (Unserved \/ Served(c))
  BY SendIs
<1>3. /\ access'[c].name = a.name /\ access'[c].op = a.op /\ access'[c].at = k /\ access'[c].half = a.half
      /\ StepOf(c)' = StepOf(c)
  BY SendEffect
<1>4. fifo' \in Seq(CmdKinds) /\ seen'[c].mixed = seen[c].mixed /\ seen'[c].before = b
  BY SeenAfter
<1>5. Pushing(c)' = Pushing(c)
  BY <1>3 DEF Pushing
<1> SUFFICES ASSUME Pushing(c), ~seen[c].mixed PROVE Push(c)'
  BY <1>4, <1>5 DEF Push
<1>6. /\ arg \in Seq(CmdKinds) /\ k \in Nat \ {0}
      /\ k = 1 => StepOf(c) = Get("CMD_BUF_FREE_SPACE")
      /\ k > 1 => StepOf(c) = Packet(SubSeq(arg, UpTo(arg, k - 2) + 1, UpTo(arg, k - 1)))
  BY <1>2, PacketIs, CallFacts DEF Pushing
<1>7. b \in Seq(CmdKinds)
  BY DEF Types, SeenType
<1>8. fifo = b \o SubSeq(arg, 1, Sent(arg, k - 1)) /\ (k > 1 => Len(b) + Len(arg) <= Capacity)
  BY <1>1, Zenon DEF Push, Holds
<1>9. CASE k = 1
  <2>1. StepOf(c).kind = "get" /\ StepOf(c).reg = "CMD_BUF_FREE_SPACE"
    BY <1>6, <1>9 DEF Get
  <2>2. fifo' = fifo
    <3>1. Served(c) => Stays
      BY <1>2, <2>1, ServeEffect DEF Served, OnlyAsks
    <3> QED BY <1>2, <3>1 DEF Unserved, Stays
  <2>3. Sent(arg, 0) = 0 /\ Sent(arg, 1) = 0
    BY <1>6, SentBounds
  <2>4. fifo = b \o SubSeq(arg, 1, 0) /\ fifo = b
    <3>1. 0 \in 0 .. Len(arg) /\ k - 1 = 0
      BY <1>6, <1>9
    <3>2. b \o SubSeq(arg, 1, 0) = b
      BY <1>6, <1>7, NoneAndAll
    <3> QED BY <1>8, <2>3, <3>1, <3>2
  <2>5. Done(c)' \in {0, 1}
    BY <1>3, <1>9 DEF Done
  <2>6. Heard(c)' => Reply(c)'.val = Capacity - Len(b)
    <3>1. Request(c) = [kind |-> "read", reg |-> "CMD_BUF_FREE_SPACE", val |-> {}]
      BY <1>2, <2>1, RequestIs
    <3>2. ReplyTo(Request(c)).val = Capacity - Len(fifo)
      BY <3>1 DEF ReplyTo, RegisterVal
    <3> QED BY <1>1, <2>4, <3>2
  <2>7. fifo' = b \o SubSeq(arg, 1, Sent(arg, Done(c)')) /\ fifo' = b \o SubSeq(arg, 1, Sent(arg, k))
    BY <1>9, <2>2, <2>3, <2>4, <2>5
  <2> QED BY <1>3, <1>4, <1>9, <2>6, <2>7, Zenon DEF Push, Holds
<1>10. CASE k > 1
  <2> DEFINE u == UpTo(arg, k - 2)
             w == UpTo(arg, k - 1)
  <2>1. k - 1 \in Nat /\ k - 2 \in Nat /\ k - 1 >= 1 /\ (k - 1) - 1 = k - 2 /\ (k - 2) + 1 = k - 1 /\ k >= 1
    BY <1>6, <1>10
  <2>2. Sent(arg, k - 1) = u /\ Sent(arg, k) = w
    BY <1>6, <2>1 DEF Sent
  <2>3. u \in 0 .. Len(arg) /\ w \in 0 .. Len(arg) /\ u <= w
    <3>1. UpTo(arg, k - 2) \in 0 .. Len(arg) /\ UpTo(arg, k - 2) <= UpTo(arg, (k - 2) + 1)
      BY <1>6, <2>1, UpToBounds
    <3>2. UpTo(arg, k - 1) \in 0 .. Len(arg)
      BY <1>6, <2>1, UpToBounds
    <3> QED BY <2>1, <3>1, <3>2
  <2>4. StepOf(c).kind = "packet" /\ StepOf(c).cmds = SubSeq(arg, u + 1, w)
    BY <1>6, <1>10 DEF Packet
  <2> HIDE DEF u, w
  <2>5. w \in u .. Len(arg)
    BY <1>6, <2>3, SMTT(30)
  <2>6. fifo = b \o SubSeq(arg, 1, u)
    BY <1>8, <2>2
  <2>7. PICK l \in Seq(CmdKinds), m \in Seq(CmdKinds) : l = arg /\ m = b
    BY <1>6, <1>7
  <2>7a. PICK x \in 0 .. Len(l), y \in 0 .. Len(l) : x <= y /\ l = arg /\ m = b /\ x = u /\ y = w
    BY <2>7, <2>3
  <2>8. Served(c) => fifo' = b \o SubSeq(arg, 1, w)
    <3> SUFFICES ASSUME Served(c) PROVE fifo' = b \o SubSeq(arg, 1, w)
      OBVIOUS
    <3>0. PICK v : v = x + 1
      OBVIOUS
    <3>1. PICK q : q = SubSeq(l, v, y)
      OBVIOUS
    <3>3. fifo = m \o SubSeq(l, 1, x)
      BY <2>6, <2>7a
    <3>2. /\ fifo \o q = m \o SubSeq(l, 1, y) /\ Len(fifo) = Len(m) + x /\ Len(q) = y - x
      <4>1. l \in Seq(CmdKinds) /\ m \in Seq(CmdKinds)
        BY <2>7
      <4>2. x \in 0 .. Len(l) /\ y \in 0 .. Len(l) /\ x <= y
        BY <2>7a
      <4>3. (m \o SubSeq(l, 1, x)) \o SubSeq(l, v, y) = m \o SubSeq(l, 1, y)
        BY ZenonT(30), <3>0, <4>1, <4>2, Splice
      <4>4. SubSeq(l, 1, x) \in Seq(CmdKinds) /\ Len(SubSeq(l, 1, x)) = x
        BY <4>1, <4>2
      <4>5. Len(m \o SubSeq(l, 1, x)) = Len(m) + x
        BY <4>1, <4>2, <4>4
      <4>6. Len(SubSeq(l, v, y)) = y - x
        BY <3>0, <4>1, <4>2
      <4>7. Len(fifo) = Len(m) + x
        BY <3>3, <4>5, Zenon
      <4>8. fifo \o q = m \o SubSeq(l, 1, y)
        BY <3>1, <3>3, <4>3, Zenon
      <4>9. Len(q) = y - x
        BY <3>1, <4>6, Zenon
      <4> QED BY <4>7, <4>8, <4>9
    <3>4. Appended(q)
      <4>1. Appended(SubSeq(arg, u + 1, w))
        BY <1>2, <2>4, ServeEffect DEF Served
      <4> QED BY <2>7a, <3>0, <3>1, <4>1
    <3>6. Fits(q)
      <4>1. Len(m) + Len(l) <= Capacity
        BY <1>8, <1>10, <2>7a
      <4>2. Len(m) \in Nat /\ Len(l) \in Nat /\ Capacity \in Nat /\ x \in Nat /\ y \in Nat /\ y <= Len(l)
        BY SequencerConstants
      <4>3. (Len(m) + x) + (y - x) <= Capacity
        BY <4>1, <4>2
      <4> QED BY <3>2, <4>3 DEF Fits
    <3>7. fifo' = m \o SubSeq(l, 1, y)
      BY <3>2, <3>4, <3>6 DEF Appended
    <3> QED BY <2>7a, <3>7
  <2>9. Heard(c)' => Done(c)' = k
    BY <1>3, <2>4 DEF Done
  <2>10. Unserved => fifo' = fifo
    BY DEF Unserved
  <2>11. fifo' = b \o SubSeq(arg, 1, Sent(arg, k - 1)) \/ fifo' = b \o SubSeq(arg, 1, Sent(arg, k))
    BY <1>2, <2>2, <2>6, <2>8, <2>10
  <2>12. Heard(c)' => fifo' = b \o SubSeq(arg, 1, Sent(arg, Done(c)'))
    BY <1>1, <2>2, <2>8, <2>9
  <2>13. k # 1
    BY <1>6, <1>10
  <2> QED BY <1>1, <1>3, <1>4, <1>8, <1>10, <2>11, <2>12, <2>13, Zenon DEF Push, Holds
<1> QED BY <1>6, <1>9, <1>10

(* A call that a step of another client leaves alone. *)
LEMMA PushBystander ==
  ASSUME NEW d \in SeqClients, access'[d] = access[d], replies'[d] = replies[d],
         seen'[d].before = seen[d].before, ~seen'[d].mixed => ~seen[d].mixed /\ fifo' = fifo, Push(d)
  PROVE  Push(d)'
<1>1. /\ Reply(d)' = Reply(d) /\ Heard(d)' = Heard(d) /\ Deaf(d)' = Deaf(d) /\ Done(d)' = Done(d)
      /\ Pushing(d)' = Pushing(d)
  BY Untouched
<1> QED BY <1>1 DEF Push, Holds

(* A call of push_commands goes on to its next packet. *)
LEMMA PushMoves ==
  ASSUME Types, NEW c \in SeqClients, Calling(c), Heard(c), Push(c),
         Halfway(c) \/ PollsAgain(c) \/ GoesOn(c)
  PROVE  Push(c)'
<1> DEFINE a == access[c]
           arg == access[c].op.arg
<1>1. Moves(c)
  BY DEF Halfway, PollsAgain, GoesOn
<1>2. /\ access'[c].name = a.name /\ access'[c].op = a.op /\ ~access'[c].sent
      /\ seen' = seen /\ fifo' = fifo
  BY <1>1 DEF Moves, SameDevice
<1>3. ~Heard(c)' /\ ~Deaf(c)' /\ Done(c)' = access'[c].at - 1
  BY <1>2 DEF Heard, Deaf, Done
<1> SUFFICES ASSUME Pushing(c), ~seen[c].mixed PROVE Push(c)'
  BY <1>2 DEF Push, Pushing
<1>4. /\ arg \in Seq(CmdKinds) /\ a.at \in Nat \ {0}
      /\ a.at = 1 => StepOf(c) = Get("CMD_BUF_FREE_SPACE")
      /\ StepOf(c).kind = "packet" <=> a.at > 1
  BY PacketIs, CallFacts DEF Pushing
<1>5. StepOf(c).kind \in {"get", "packet"}
  <2>1. Get("CMD_BUF_FREE_SPACE").kind = "get"
    BY DEF Get
  <2> QED BY <1>4, <2>1
<1>6. GoesOn(c)
  BY <1>5 DEF Halfway, PollsAgain
<1>7. access'[c].at = a.at + 1 /\ (a.at = 1 => ~(Len(arg) > Reply(c).val))
  BY <1>6 DEF GoesOn, StepOver, Pushing
<1>8. Done(c) = a.at /\ Done(c)' = Done(c)
  BY <1>3, <1>4, <1>5, <1>7 DEF Done
<1>9. Holds(c, Done(c))
  BY DEF Push, Heard, Deaf
<1>10. Holds(c, Done(c))'
  <2>1. access'[c].op.arg = arg
    BY <1>2
  <2> QED BY <1>2, <1>8, <1>9, <2>1, Zenon DEF Holds
<1>11. Len(seen[c].before) + Len(arg) <= Capacity
  <2>1. CASE a.at = 1
    <3>1. Reply(c).val = Capacity - Len(seen[c].before)
      BY <2>1 DEF Push
    <3>2. Len(seen[c].before) \in Nat /\ Len(arg) \in Nat /\ Capacity \in Nat
      <4>1. seen[c].before \in Seq(CmdKinds)
        BY DEF Types, SeenType
      <4> QED BY <1>4, <4>1, SequencerConstants
    <3>3. ~(Len(arg) > Capacity - Len(seen[c].before))
      BY <1>7, <2>1, <3>1, Zenon
    <3>4. \A x, y, z \in Nat : ~(y > z - x) => x + y <= z
      OBVIOUS
    <3> QED BY <3>2, <3>3, <3>4, Zenon
  <2>2. CASE a.at > 1
    BY <2>2 DEF Push
  <2>3. a.at = 1 \/ a.at > 1
    BY <1>4
  <2> QED BY <2>1, <2>2, <2>3, Zenon
<1> QED BY <1>2, <1>3, <1>4, <1>7, <1>10, <1>11 DEF Push

(* Every step keeps what is known of the pushes under way. *)
LEMMA PushKept ==
  ASSUME Types, MailInv, PushInv, [SeqNext]_seqVars
  PROVE  PushInv'
<1> SUFFICES ASSUME NEW d \in SeqClients, d \notin strayed' PROVE Push(d)'
  BY DEF PushInv
<1>1. CASE Quiet
  <2>1. UNCHANGED <<access, replies, seen, strayed, fifo>>
    BY <1>1 DEF Quiet, historySeqVars
  <2> QED BY <2>1, PushBystander DEF PushInv
<1>2. ASSUME NEW c \in SeqClients, NEW o \in SeqOps[c], Begins(c, o)
      PROVE  Push(d)'
  <2>1. UNCHANGED <<replies, strayed, fifo>>
    BY <1>2 DEF Begins
  <2>2. CASE d = c
    <3>1. /\ access'[c].op = o /\ access'[c].name = o.name /\ access'[c].at = 1 /\ ~access'[c].sent
          /\ o.name = "push" => seen'[c].before = fifo
      BY <1>2 DEF Begins
    <3>2. ~Heard(c)' /\ ~Deaf(c)' /\ Done(c)' = 0
      BY <3>1 DEF Heard, Deaf, Done
    <3> SUFFICES ASSUME o.name = "push" PROVE Push(c)'
      BY <2>2, <3>1 DEF Push, Pushing
    <3>3. o.arg \in Seq(CmdKinds) /\ fifo \in Seq(CmdKinds)
      BY Calls DEF Types
    <3>4. fifo = fifo \o SubSeq(o.arg, 1, 0)
      BY <3>3, NoneAndAll
    <3>5. Holds(c, 0)'
      BY <2>1, <3>1, <3>4 DEF Holds, Sent
    <3>6. Holds(c, Done(c))'
      BY <3>2, <3>5 DEF Holds
    <3> QED BY <3>1, <3>2, <3>6 DEF Push
  <2>3. CASE d # c
    <3>1. access'[d] = access[d] /\ seen'[d].before = seen[d].before /\ seen'[d].mixed = seen[d].mixed
      BY <1>2, <2>3 DEF Begins
    <3> QED BY <2>1, <3>1, PushBystander DEF PushInv
  <2> QED BY <2>2, <2>3
<1>3. ASSUME NEW c \in SeqClients, SendRequest(c)
      PROVE  Push(d)'
  <2>1. strayed \subseteq strayed'
    BY <1>3, SendEffect
  <2>2. Push(d) /\ Mail(d)
    BY <2>1 DEF PushInv, MailInv
  <2>3. CASE d = c
    BY <1>3, <2>2, <2>3, PushServed
  <2>4. CASE d # c
    <3>1. access'[d] = access[d] /\ replies'[d] = replies[d]
      <4>1. /\ \A e \in SeqClients \ {c} : access'[e] = access[e]
            /\ \A e \in SeqClients \ {c} : e \notin strayed' => replies'[e] = replies[e]
        BY <1>3, SendEffect
      <4> QED BY <2>4, <4>1
    <3>2. seen'[d].before = seen[d].before /\ (~seen'[d].mixed => ~seen[d].mixed /\ fifo' = fifo)
      BY <1>3, <2>4, SeenAfter
    <3> QED BY <2>2, <3>1, <3>2, PushBystander
  <2> QED BY <2>3, <2>4
<1>4. ASSUME NEW c \in SeqClients, Answered(c) \/ TimedOut(c)
      PROVE  Push(d)'
  <2>1. /\ \/ Heard(c) /\ (Halfway(c) \/ PollsAgain(c) \/ GoesOn(c))
           \/ \E result : Ends(c, result)
        /\ Calling(c) /\ \A e \in SeqClients \ {c} : replies'[e] = replies[e]
    BY <1>4 DEF Answered, TimedOut, Taken, EndsOk, EndsRefused, EndsCounted
  <2>2. /\ \A e \in SeqClients \ {c} : access'[e] = access[e] /\ seen'[e] = seen[e]
        /\ strayed' = strayed /\ fifo' = fifo
    BY <2>1 DEF Halfway, PollsAgain, GoesOn, Moves, Ends, SameDevice
  <2>3. Push(d)
    BY <2>2 DEF PushInv
  <2>4. CASE d = c
    <3>1. CASE Heard(c) /\ (Halfway(c) \/ PollsAgain(c) \/ GoesOn(c))
      BY <2>1, <2>3, <2>4, <3>1, PushMoves
    <3>2. ASSUME NEW result, Ends(c, result) PROVE Push(d)'
      BY <2>4, <3>2 DEF Ends, NoAccess, Push, Pushing
    <3> QED BY <2>1, <3>1, <3>2
  <2>5. CASE d # c
    BY <2>1, <2>2, <2>3, <2>5, PushBystander
  <2> QED BY <2>4, <2>5
<1> QED BY <1>1, <1>2, <1>3, <1>4, StepCases

-----------------------------------------------------------------------------
(* The two counters. *)

(* A count that a step of another client leaves alone, or that it spoils.  *)
LEMMA CountBystander ==
  ASSUME NEW d \in SeqClients, access'[d] = access[d], replies'[d] = replies[d],
         seen'[d].truth = seen[d].truth, ~seen'[d].moved => ~seen[d].moved,
         ~seen'[d].moved /\ access[d].name = "unprocessed" =>
           fifo' = fifo \/ (access[d].at = 2 /\ access[d].sent),
         Count(d)
  PROVE  Count(d)'
<1>1. Reply(d)' = Reply(d) /\ Heard(d)' = Heard(d)
  BY Untouched
<1> QED BY <1>1 DEF Count

(* A request of num_unprocessed_commands is served, or lost. *)
LEMMA CountServed ==
  ASSUME Types, NEW c \in SeqClients, SendRequest(c), Mail(c), c \notin strayed', Count(c)
  PROVE  Count(c)'
<1> DEFINE a == access[c]
<1>1. /\ ~Heard(c) /\ ~Deaf(c)
      /\ Heard(c)' => Served(c) /\ Reply(c)' = ReplyTo(Request(c))
  BY OwnReply
<1>2. Calling(c) /\ ~a.sent
  BY SendIs
<1>3. /\ access'[c].name = a.name /\ access'[c].at = a.at /\ access'[c].got = a.got /\ access'[c].sent
  BY SendEffect
<1> SUFFICES ASSUME a.name = "unprocessed", ~seen'[c].moved, Heard(c)'
             PROVE  /\ a.at = 1 => Reply(c)'.val = Len(fifo')
                    /\ a.at = 2 => a.got["NUM_STORED_CMDS"] - Reply(c)'.val = seen'[c].truth
  BY <1>3 DEF Count
<1>4. /\ a.at \in {1, 2} /\ StepOf(c).kind = "get"
      /\ StepOf(c).reg = IF a.at = 1 THEN "NUM_STORED_CMDS" ELSE "CMD_COUNTER"
  BY <1>2, CountIs
<1>5. Request(c) = [kind |-> "read", reg |-> StepOf(c).reg, val |-> {}]
  BY <1>2, <1>4, RequestIs
<1>6. ServeRequest(c, Request(c)) /\ Notice(c)
  BY <1>1 DEF Served
<1>7. fifo' = fifo /\ fifo' \in Seq(CmdKinds) /\ counter' \in Nat
  BY <1>2, <1>4, <1>6, ServeEffect DEF OnlyAsks, Stays
<1>8. ctrl' = ctrl /\ counter' = counter
  BY <1>5, <1>6 DEF ServeRequest, deviceSeqVars
<1>9. Reply(c)'.val = IF a.at = 1 THEN Len(fifo) ELSE counter
  <2>1. ReplyTo(Request(c)).val = RegisterVal(StepOf(c).reg)
    BY <1>5 DEF ReplyTo
  <2>2. RegisterVal("NUM_STORED_CMDS") = Len(fifo) /\ RegisterVal("CMD_COUNTER") = counter
    BY DEF RegisterVal
  <2> QED BY <1>1, <1>4, <2>1, <2>2
<1>10. a.at = 2 => seen'[c].moved = seen[c].moved /\ seen'[c].truth = Len(fifo) - counter
  BY <1>2, <1>6, <1>7, NoticeEffect
<1>11. a.at = 2 => a.got["NUM_STORED_CMDS"] = Len(fifo)
  BY <1>2, <1>10 DEF Count
<1> QED BY <1>4, <1>7, <1>9, <1>10, <1>11

(* Every step keeps what is known of the counts under way. *)
LEMMA CountKept ==
  ASSUME Types, MailInv, CountInv, [SeqNext]_seqVars
  PROVE  CountInv'
<1> SUFFICES ASSUME NEW d \in SeqClients, d \notin strayed' PROVE Count(d)'
  BY DEF CountInv
<1>1. CASE Quiet
  <2>1. UNCHANGED <<access, replies, seen, strayed, fifo>>
    BY <1>1 DEF Quiet, historySeqVars
  <2> QED BY <2>1, CountBystander DEF CountInv
<1>2. ASSUME NEW c \in SeqClients, NEW o \in SeqOps[c], Begins(c, o)
      PROVE  Count(d)'
  <2>1. UNCHANGED <<replies, strayed, fifo>>
    BY <1>2 DEF Begins
  <2>2. CASE d = c
    <3>1. access'[c].at = 1 /\ ~access'[c].sent
      BY <1>2 DEF Begins
    <3> QED BY <2>2, <3>1 DEF Count, Heard
  <2>3. CASE d # c
    <3>1. access'[d] = access[d] /\ seen'[d].truth = seen[d].truth /\ seen'[d].moved = seen[d].moved
      BY <1>2, <2>3 DEF Begins
    <3> QED BY <2>1, <3>1, CountBystander DEF CountInv
  <2> QED BY <2>2, <2>3
<1>3. ASSUME NEW c \in SeqClients, SendRequest(c)
      PROVE  Count(d)'
  <2>1. strayed \subseteq strayed'
    BY <1>3, SendEffect
  <2>2. Count(d) /\ Mail(d)
    BY <2>1 DEF CountInv, MailInv
  <2>3. CASE d = c
    BY <1>3, <2>2, <2>3, CountServed
  <2>4. CASE d # c
    <3>1. access'[d] = access[d] /\ replies'[d] = replies[d]
      <4>1. /\ \A e \in SeqClients \ {c} : access'[e] = access[e]
            /\ \A e \in SeqClients \ {c} : e \notin strayed' => replies'[e] = replies[e]
        BY <1>3, SendEffect
      <4> QED BY <2>4, <4>1
    <3>2. /\ seen'[d].truth = seen[d].truth /\ (~seen'[d].moved => ~seen[d].moved)
          /\ ~seen'[d].moved /\ access[d].name = "unprocessed" =>
               fifo' = fifo \/ (access[d].at = 2 /\ access[d].sent)
      BY <1>3, <2>4, SeenAfter
    <3> QED BY <2>2, <3>1, <3>2, CountBystander
  <2> QED BY <2>3, <2>4
<1>4. ASSUME NEW c \in SeqClients, Answered(c) \/ TimedOut(c)
      PROVE  Count(d)'
  <2>1. /\ \/ Heard(c) /\ (Halfway(c) \/ PollsAgain(c) \/ GoesOn(c))
           \/ \E result : Ends(c, result)
        /\ Calling(c) /\ \A e \in SeqClients \ {c} : replies'[e] = replies[e]
    BY <1>4 DEF Answered, TimedOut, Taken, EndsOk, EndsRefused, EndsCounted
  <2>2. /\ \A e \in SeqClients \ {c} : access'[e] = access[e] /\ seen'[e] = seen[e]
        /\ strayed' = strayed /\ fifo' = fifo
    BY <2>1 DEF Halfway, PollsAgain, GoesOn, Moves, Ends, SameDevice
  <2>3. Count(d)
    BY <2>2 DEF CountInv
  <2>4. CASE d = c
    <3>1. CASE Heard(c) /\ (Halfway(c) \/ PollsAgain(c) \/ GoesOn(c))
      <4>1. Moves(c)
        BY <3>1 DEF Halfway, PollsAgain, GoesOn
      <4>2. access'[c].name = access[c].name /\ ~access'[c].sent /\ seen' = seen /\ fifo' = fifo
        BY <4>1 DEF Moves, SameDevice
      <4> SUFFICES ASSUME access[c].name = "unprocessed", ~seen[c].moved, access'[c].at = 2
                   PROVE  access'[c].got["NUM_STORED_CMDS"] = Len(fifo)
        BY <2>4, <4>2 DEF Count, Heard
      <4>3. StepOf(c).kind = "get"
        BY <2>1, CountIs
      <4>4. access[c].at = 1 /\ access'[c].got["NUM_STORED_CMDS"] = Reply(c).val
        BY <3>1, <4>3 DEF Halfway, PollsAgain, GoesOn
      <4> QED BY <2>3, <2>4, <3>1, <4>4 DEF Count
    <3>2. ASSUME NEW result, Ends(c, result) PROVE Count(d)'
      BY <2>4, <3>2 DEF Ends, NoAccess, Count
    <3> QED BY <2>1, <3>1, <3>2
  <2>5. CASE d # c
    BY <2>1, <2>2, <2>3, <2>5, CountBystander
  <2> QED BY <2>4, <2>5
<1> QED BY <1>1, <1>2, <1>3, <1>4, StepCases

-----------------------------------------------------------------------------
(* The room in the FIFO. *)

(* What fits among more fits among fewer. *)
LEMMA Fewer ==
  ASSUME NEW x \in Nat, NEW y \in Nat, NEW z \in Nat, NEW t \in Int, NEW m \in Nat,
         y <= x, x + z - t <= m
  PROVE  y + z - t <= m
OBVIOUS

(* A push has the room it had when another client's step adds nothing.     *)
LEMMA RoomBystander ==
  ASSUME Types, NEW d \in SeqClients, access'[d] = access[d], replies'[d] = replies[d],
         fifo' \in Seq(CmdKinds), Len(fifo') <= Len(fifo), Pushing(d) => HasRoom(d)
  PROVE  Pushing(d)' => HasRoom(d)'
<1>1. Reply(d)' = Reply(d) /\ Heard(d)' = Heard(d) /\ Deaf(d)' = Deaf(d) /\ Done(d)' = Done(d)
      /\ Pushing(d)' = Pushing(d)
  BY Untouched
<1> SUFFICES ASSUME Pushing(d) PROVE HasRoom(d)'
  BY <1>1
<1> DEFINE arg == access[d].op.arg
           k == Done(d)
<1>2. Calling(d)
  BY InOps
<1>3. arg \in Seq(CmdKinds)
  BY <1>2, PacketIs DEF Pushing
<1>4. k \in Nat
  <2>1. access[d].at \in Nat \ {0}
    BY <1>2, CallFacts
  <2>2. k = access[d].at \/ k = access[d].at - 1
    BY DEF Done
  <2> QED BY <2>1, <2>2
<1>5. Sent(arg, k) \in Int
  <2>1. ASSUME NEW l \in Seq(CmdKinds), NEW n \in Nat PROVE Sent(l, n) \in Int
    <3>1. Len(l) \in Nat
      OBVIOUS
    <3>2. Sent(l, n) \in 0 .. Len(l)
      BY SentBounds
    <3> QED BY <3>1, <3>2
  <2> HIDE DEF arg, k
  <2> QED BY <1>3, <1>4, <2>1
<1>6. fifo \in Seq(CmdKinds) /\ Capacity \in Nat
  BY SequencerConstants DEF Types
<1>7. PICK x \in Nat, y \in Nat, z \in Nat, t \in Int :
        x = Len(fifo) /\ y = Len(fifo') /\ z = Len(arg) /\ t = Sent(arg, k) /\ y <= x
  <2>1. Len(fifo) \in Nat /\ Len(fifo') \in Nat /\ Len(fifo') <= Len(fifo)
    BY <1>6
  <2>2. Len(arg) \in Nat
    BY <1>3
  <2> HIDE DEF arg, k
  <2> QED BY <1>5, <2>1, <2>2, Zenon
<1>8. access[d].at > 1 /\ ~Deaf(d) => x + z - t <= Capacity
  BY <1>7 DEF HasRoom
<1>9. access[d].at > 1 /\ ~Deaf(d) => y + z - t <= Capacity
  <2>1. Capacity \in Nat /\ y <= x
    BY <1>6, <1>7
  <2>2. x + z - t <= Capacity => y + z - t <= Capacity
    BY <2>1, Fewer
  <2> QED BY <1>8, <2>2
<1>10. access[d].at = 1 /\ Heard(d) => Reply(d).val \in Int /\ Reply(d).val <= Capacity - x
  BY <1>7 DEF HasRoom
<1>11. access[d].at = 1 /\ Heard(d) => Reply(d).val \in Int /\ Reply(d).val <= Capacity - y
  BY <1>6, <1>7, <1>10
<1>12. Sent(access[d].op.arg, Done(d))' = Sent(arg, k) /\ Len(access[d].op.arg)' = z
  BY <1>1, <1>7 DEF Sent, UpTo
<1> QED BY <1>1, <1>7, <1>9, <1>11, <1>12 DEF HasRoom

(* A request that is no packet adds nothing to the FIFO. *)
LEMMA NothingAdded ==
  ASSUME Types, NEW c \in SeqClients, Calling(c), ServeRequest(c, Request(c)), StepOf(c).kind # "packet"
  PROVE  /\ Len(fifo') <= Len(fifo) /\ (overflow' = overflow \/ overflow' = FALSE)
         /\ Resets(Request(c)) => overflow' = FALSE /\ ~Pushing(c)
<1> DEFINE s == StepOf(c)
           a == access[c]
<1>1. /\ s.kind \in {"bit", "put", "get", "poll"} /\ a.half \in {"read", "write"}
      /\ s.kind \in {"bit", "put"} => a.name \in CtrlOps
  BY CallFacts
<1>2. s.kind \in {"bit", "put"} => ~Pushing(c)
  BY <1>1 DEF CtrlOps, Pushing
<1>3. Len(fifo) \in Nat /\ Len(<<>>) = 0
  BY DEF Types
<1>4. CASE OnlyAsks(c)
  <2>1. fifo' = fifo /\ overflow' = overflow
    BY <1>4, ServeEffect DEF Stays
  <2>2. ~Resets(Request(c))
    <3>1. CASE s.kind \in {"get", "poll"} \/ (s.kind = "bit" /\ a.half = "read")
      <4>1. Request(c).kind = "read"
        BY <3>1, RequestIs
      <4> QED BY <4>1 DEF Resets
    <3>2. CASE s.kind = "put" /\ s.reg # "CTRL"
      <4>1. Request(c).reg # "CTRL"
        BY <3>2, RequestIs
      <4> QED BY <4>1 DEF Resets
    <3> QED BY <1>4, <3>1, <3>2 DEF OnlyAsks
  <2> QED BY <1>3, <2>1, <2>2
<1>5. CASE ~OnlyAsks(c)
  <2>1. (s.kind = "bit" /\ a.half = "write") \/ (s.kind = "put" /\ s.reg = "CTRL")
    BY <1>1, <1>5 DEF OnlyAsks
  <2>2. \E new : Changed(new) /\ (Resets(Request(c)) => "RESET" \in new)
    <3>1. CASE s.kind = "bit" /\ a.half = "write"
      <4>1. Request(c).val = Written(s, a.val)
        BY <3>1, RequestIs
      <4> QED BY <3>1, <4>1, ServeEffect DEF Resets
    <3>2. CASE s.kind = "put" /\ s.reg = "CTRL"
      <4>1. Request(c).val = {}
        BY <3>2, RequestIs
      <4> QED BY <3>2, <4>1, ServeEffect DEF Resets
    <3> QED BY <2>1, <3>1, <3>2
  <2>3. /\ fifo' = fifo \/ fifo' = <<>>
        /\ overflow' = overflow \/ overflow' = FALSE
        /\ Resets(Request(c)) => overflow' = FALSE
    BY <2>2 DEF Changed
  <2>4. Len(fifo') <= Len(fifo)
    BY <1>3, <2>3
  <2> QED BY <1>2, <2>1, <2>3, <2>4
<1> QED BY <1>4, <1>5

(* A request of a push that is alone is served: it fits. *)
LEMMA RoomServed ==
  ASSUME Types, NEW c \in SeqClients, SendRequest(c), Served(c), Mail(c), c \notin strayed',
         Pushing(c), HasRoom(c)
  PROVE  HasRoom(c)' /\ overflow' = overflow
<1> DEFINE a == access[c]
           arg == access[c].op.arg
           k == access[c].at
<1>1. /\ ~Heard(c) /\ ~Deaf(c) /\ Done(c) = k - 1
      /\ Heard(c)' <=> ~Deaf(c)'
      /\ Heard(c)' => Reply(c)' = ReplyTo(Request(c))
  BY OwnReply
<1>2. Calling(c)
  BY SendIs
<1>3. access'[c].op = a.op /\ access'[c].at = k /\ StepOf(c)' = StepOf(c)
  BY SendEffect
<1>4. /\ arg \in Seq(CmdKinds) /\ k \in Nat \ {0}
      /\ k = 1 => StepOf(c) = Get("CMD_BUF_FREE_SPACE")
      /\ k > 1 => StepOf(c) = Packet(SubSeq(arg, UpTo(arg, k - 2) + 1, UpTo(arg, k - 1)))
  BY <1>2, PacketIs, CallFacts DEF Pushing
<1>5. fifo \in Seq(CmdKinds) /\ Capacity \in Nat
  BY SequencerConstants DEF Types
<1>6. ServeRequest(c, Request(c))
  BY DEF Served
<1>7. CASE k = 1
  <2>1. StepOf(c).kind = "get" /\ StepOf(c).reg = "CMD_BUF_FREE_SPACE"
    BY <1>4, <1>7 DEF Get
  <2>2. fifo' = fifo /\ overflow' = overflow
    BY <1>2, <1>6, <2>1, ServeEffect DEF OnlyAsks, Stays
  <2>3. Request(c) = [kind |-> "read", reg |-> "CMD_BUF_FREE_SPACE", val |-> {}]
    BY <1>2, <2>1, RequestIs
  <2>4. ReplyTo(Request(c)).val = Capacity - Len(fifo)
    BY <2>3 DEF ReplyTo, RegisterVal
  <2>5. Heard(c)' => Reply(c)'.val = Capacity - Len(fifo)
    BY <1>1, <2>4
  <2>6. Capacity - Len(fifo) \in Int /\ Capacity - Len(fifo) <= Capacity - Len(fifo)
    BY <1>5
  <2>7. access'[c].at = 1 /\ Heard(c)' => Reply(c)'.val \in Int /\ Reply(c)'.val <= Capacity - Len(fifo')
    BY <2>2, <2>5, <2>6
  <2>8. ~(access'[c].at > 1)
    BY <1>3, <1>7
  <2> QED BY <2>2, <2>7, <2>8 DEF HasRoom
<1>8. CASE k > 1
  <2> DEFINE u == UpTo(arg, k - 2)
             w == UpTo(arg, k - 1)
  <2>1. k - 1 \in Nat /\ k - 2 \in Nat /\ k - 1 # 0 /\ k # 0 /\ (k - 1) - 1 = k - 2 /\ (k - 2) + 1 = k - 1
    BY <1>4, <1>8
  <2>2. Sent(arg, k - 1) = u /\ Sent(arg, k) = w
    BY <2>1 DEF Sent
  <2>3. u \in 0 .. Len(arg) /\ w \in 0 .. Len(arg) /\ u <= w
    <3>1. UpTo(arg, k - 2) \in 0 .. Len(arg) /\ UpTo(arg, k - 2) <= UpTo(arg, (k - 2) + 1)
      BY <1>4, <2>1, UpToBounds
    <3>2. UpTo(arg, k - 1) \in 0 .. Len(arg)
      BY <1>4, <2>1, UpToBounds
    <3> QED BY <2>1, <3>1, <3>2
  <2>4. StepOf(c).kind = "packet" /\ StepOf(c).cmds = SubSeq(arg, u + 1, w)
    BY <1>4, <1>8 DEF Packet
  <2>5. Len(fifo) + Len(arg) - u <= Capacity
    BY <1>1, <1>8, <2>2 DEF HasRoom
  <2> HIDE DEF u, w
  <2>6. PICK q \in Seq(CmdKinds) : q = SubSeq(arg, u + 1, w) /\ Len(q) = w - u
    <3>1. PICK l \in Seq(CmdKinds) : l = arg
      BY <1>4
    <3>2. u \in 0 .. Len(l) /\ w \in 0 .. Len(l) /\ u <= w
      BY <2>3, <3>1
    <3>3. SubSeq(l, u + 1, w) \in Seq(CmdKinds) /\ Len(SubSeq(l, u + 1, w)) = w - u
      BY <3>1, <3>2
    <3> QED BY <3>1, <3>3
  <2>7. Appended(q)
    BY <1>2, <1>6, <2>4, <2>6, ServeEffect
  <2>8. PICK x \in Nat, z \in Nat : x = Len(fifo) /\ z = Len(arg) /\ u \in Nat /\ w \in Nat /\ w <= z /\ u <= w
    BY <1>4, <1>5, <2>3
  <2>9. x + z - u <= Capacity
    BY <2>5, <2>8
  <2>10. x + (w - u) <= Capacity /\ (x + (w - u)) + z - w <= Capacity
    <3>1. \A x1, z1, u1, w1, cap \in Nat :
            x1 + z1 - u1 <= cap /\ w1 <= z1 /\ u1 <= w1 =>
              x1 + (w1 - u1) <= cap /\ (x1 + (w1 - u1)) + z1 - w1 <= cap
      OBVIOUS
    <3>2. x \in Nat /\ z \in Nat /\ u \in Nat /\ w \in Nat /\ w <= z /\ u <= w
      BY <2>8
    <3> QED BY <1>5, <2>9, <3>1, <3>2
  <2>11. Fits(q)
    BY <2>6, <2>8, <2>10 DEF Fits
  <2>12. fifo' = fifo \o q /\ overflow' = overflow
    BY <2>7, <2>11 DEF Appended
  <2>13. Len(fifo') = x + (w - u)
    BY <1>5, <2>6, <2>8, <2>12
  <2>14. ~Deaf(c)' => Done(c)' = k
    BY <1>1, <1>3, <2>4 DEF Done
  <2>15. Sent(access[c].op.arg, Done(c))' = Sent(arg, Done(c)') /\ Len(access[c].op.arg)' = z
    BY <1>3, <2>8 DEF Sent, UpTo
  <2>16. ~Deaf(c)' => Len(fifo') + Len(access[c].op.arg)' - Sent(access[c].op.arg, Done(c))' <= Capacity
    <3>1. ~Deaf(c)' => Sent(access[c].op.arg, Done(c))' = w
      BY <2>2, <2>14, <2>15, Zenon
    <3>2. Len(access[c].op.arg)' = z
      BY <2>15
    <3>3. (x + (w - u)) + z - w <= Capacity
      BY <2>10
    <3> QED BY <2>13, <3>1, <3>2, <3>3, Zenon
  <2>17. access'[c].at # 1
    BY <1>3, <1>4, <1>8
  <2> QED BY <2>12, <2>16, <2>17 DEF HasRoom
<1> QED BY <1>4, <1>7, <1>8

(* It goes on to its next packet. *)
LEMMA RoomMoves ==
  ASSUME Types, NEW c \in SeqClients, Calling(c), Heard(c), Pushing(c), HasRoom(c),
         Halfway(c) \/ PollsAgain(c) \/ GoesOn(c)
  PROVE  HasRoom(c)'
<1> DEFINE a == access[c]
           arg == access[c].op.arg
<1>1. Moves(c)
  BY DEF Halfway, PollsAgain, GoesOn
<1>2. access'[c].name = a.name /\ access'[c].op = a.op /\ ~access'[c].sent /\ fifo' = fifo
  BY <1>1 DEF Moves, SameDevice
<1>3. ~Heard(c)' /\ ~Deaf(c)' /\ Done(c)' = access'[c].at - 1
  BY <1>2 DEF Heard, Deaf, Done
<1>4. /\ arg \in Seq(CmdKinds) /\ a.at \in Nat \ {0}
      /\ a.at = 1 => StepOf(c) = Get("CMD_BUF_FREE_SPACE")
      /\ StepOf(c).kind = "packet" <=> a.at > 1
  BY PacketIs, CallFacts DEF Pushing
<1>5. StepOf(c).kind \in {"get", "packet"}
  <2>1. Get("CMD_BUF_FREE_SPACE").kind = "get"
    BY DEF Get
  <2> QED BY <1>4, <2>1
<1>6. GoesOn(c)
  BY <1>5 DEF Halfway, PollsAgain
<1>7. access'[c].at = a.at + 1 /\ (a.at = 1 => ~(Len(arg) > Reply(c).val))
  BY <1>6 DEF GoesOn, StepOver, Pushing
<1>8. Done(c) = a.at /\ Done(c)' = a.at
  BY <1>3, <1>4, <1>5, <1>7 DEF Done
<1>9. PICK x \in Nat, z \in Nat : x = Len(fifo) /\ z = Len(arg) /\ Capacity \in Nat
  <2>1. fifo \in Seq(CmdKinds) /\ Capacity \in Nat
    BY SequencerConstants DEF Types
  <2>2. Len(fifo) \in Nat /\ Len(arg) \in Nat
    BY <1>4, <2>1
  <2> QED BY <2>1, <2>2
<1>10. Sent(arg, a.at) \in Nat /\ Sent(arg, 1) = 0
  <2>1. Sent(arg, a.at) \in 0 .. Len(arg) /\ Sent(arg, 1) = 0
    BY <1>4, SentBounds
  <2> QED BY <1>4, <2>1
<1>11. x + z - Sent(arg, a.at) <= Capacity
  <2>1. CASE a.at = 1
    <3>1. PICK r \in Int : r = Reply(c).val /\ r <= Capacity - x
      BY <1>9, <2>1 DEF HasRoom
    <3>2. ~(z > r)
      BY <1>7, <1>9, <2>1, <3>1, Zenon
    <3> QED BY <1>9, <1>10, <2>1, <3>1, <3>2, SMTT(30)
  <2>2. CASE a.at > 1
    <3>1. ~Deaf(c)
      BY DEF Heard, Deaf
    <3> QED BY <1>8, <1>9, <2>2, <3>1 DEF HasRoom
  <2>3. a.at = 1 \/ a.at > 1
    BY <1>4
  <2> QED BY <2>1, <2>2, <2>3
<1>12. Sent(access[c].op.arg, Done(c))' = Sent(arg, a.at) /\ Len(access[c].op.arg)' = z /\ Len(fifo') = x
  <2>1. access'[c].op.arg = arg
    BY <1>2
  <2>2. Sent(access[c].op.arg, Done(c))' = Sent(arg, Done(c)')
    BY <2>1 DEF Sent, UpTo
  <2> QED BY <1>2, <1>8, <1>9, <2>1, <2>2
<1>13. access'[c].at # 1
  BY <1>4, <1>7
<1> QED BY <1>11, <1>12, <1>13 DEF HasRoom

(* Every step keeps room for a push that is alone. *)
LEMMA RoomKept ==
  ASSUME Types, MailInv, RoomInv, [SeqNext]_seqVars
  PROVE  RoomInv'
<1> DEFINE Alone == \A e, f \in SeqClients : InQueueOp(e) /\ InQueueOp(f) => e = f
           Rooms == \A e \in SeqClients : Pushing(e) => HasRoom(e)
<1>1. CASE Quiet
  <2>1. UNCHANGED <<access, replies, fifo, strayed, overflow, crowded>>
    BY <1>1 DEF Quiet, historySeqVars
  <2>2. \A d \in SeqClients : InQueueOp(d)' = InQueueOp(d)
    BY <2>1 DEF InQueueOp
  <2>3. fifo' \in Seq(CmdKinds) /\ Len(fifo') <= Len(fifo)
    BY <2>1 DEF Types
  <2>4. Rooms => Rooms'
    BY <2>1, <2>3, RoomBystander
  <2> QED BY <2>1, <2>2, <2>4 DEF RoomInv
<1>2. ASSUME NEW c \in SeqClients, NEW o \in SeqOps[c], Begins(c, o)
      PROVE  RoomInv'
  <2>1. /\ \A d \in SeqClients \ {c} : access'[d] = access[d]
        /\ access'[c].name = o.name /\ access'[c].at = 1 /\ ~access'[c].sent
        /\ crowded' <=> crowded \/ (o.name \in QueueOps /\ \E d \in SeqClients \ {c} : InQueueOp(d))
        /\ UNCHANGED <<fifo, overflow, replies, strayed>>
    BY <1>2 DEF Begins
  <2>2. /\ \A d \in SeqClients \ {c} : InQueueOp(d)' = InQueueOp(d)
        /\ InQueueOp(c)' <=> o.name \in QueueOps
    BY <2>1, SameOps DEF InQueueOp
  <2> SUFFICES ASSUME ~crowded' PROVE Alone' /\ (strayed' = {} => ~overflow' /\ Rooms')
    BY DEF RoomInv
  <2>3. Alone /\ (strayed = {} => ~overflow /\ Rooms)
    BY <2>1 DEF RoomInv
  <2>4. Alone'
    BY <2>1, <2>2, <2>3
  <2>5. Rooms => Rooms'
    <3> SUFFICES ASSUME Rooms, NEW d \in SeqClients PROVE (Pushing(d) => HasRoom(d))'
      OBVIOUS
    <3>1. CASE d = c
      <4>1. ~Heard(c)' /\ ~(access'[c].at > 1)
        BY <2>1 DEF Heard
      <4> QED BY <3>1, <4>1 DEF HasRoom
    <3>2. CASE d # c
      <4>1. fifo' \in Seq(CmdKinds) /\ Len(fifo') <= Len(fifo)
        BY <2>1 DEF Types
      <4>2. access'[d] = access[d] /\ replies'[d] = replies[d]
        BY <2>1, <3>2
      <4> QED BY <4>1, <4>2, RoomBystander
    <3> QED BY <3>1, <3>2
  <2> QED BY <2>1, <2>3, <2>4, <2>5
<1>3. ASSUME NEW c \in SeqClients, SendRequest(c)
      PROVE  RoomInv'
  <2>1. /\ \A d \in SeqClients \ {c} : access'[d] = access[d]
        /\ \A d \in SeqClients \ {c} : d \notin strayed' => replies'[d] = replies[d]
        /\ access'[c].name = access[c].name /\ access'[c].at = access[c].at
        /\ strayed \subseteq strayed'
    BY <1>3, SendEffect
  <2>2. \A d \in SeqClients : InQueueOp(d)' = InQueueOp(d)
    BY <2>1, SameOps
  <2>3. Pushing(c)' = Pushing(c)
    BY <2>1 DEF Pushing
  <2>4. Calling(c) /\ (Unserved \/ Served(c))
    BY <1>3, SendIs
  <2>5. \A d \in SeqClients \ {c} : strayed' = {} => access'[d] = access[d] /\ replies'[d] = replies[d]
    BY <2>1
  <2> SUFFICES ASSUME ~crowded' PROVE Alone' /\ (strayed' = {} => ~overflow' /\ Rooms')
    BY DEF RoomInv
  <2>6. CASE Unserved
    <3>1. UNCHANGED <<fifo, overflow, crowded>>
      BY <2>6 DEF Unserved
    <3>2. Alone /\ (strayed = {} => ~overflow /\ Rooms)
      BY <3>1 DEF RoomInv
    <3>3. ASSUME strayed' = {}, NEW d \in SeqClients PROVE (Pushing(d) => HasRoom(d))'
      <4>1. Rooms /\ Mail(d)
        BY <2>1, <3>2, <3>3 DEF MailInv
      <4>2. CASE d = c
        <5>1. Deaf(c)' /\ ~Heard(c)'
          BY <1>3, <2>6, <3>3, <4>1, <4>2, OwnReply
        <5> QED BY <4>2, <5>1 DEF HasRoom
      <4>3. CASE d # c
        <5>1. fifo' \in Seq(CmdKinds) /\ Len(fifo') <= Len(fifo)
          BY <3>1 DEF Types
        <5>2. access'[d] = access[d] /\ replies'[d] = replies[d]
          BY <2>5, <3>3, <4>3
        <5> QED BY <4>1, <5>1, <5>2, RoomBystander
      <4> QED BY <4>2, <4>3
    <3> QED BY <2>1, <2>2, <3>1, <3>2, <3>3
  <2>7. CASE Served(c)
    <3>1. /\ ServeRequest(c, Request(c))
          /\ crowded' = IF Resets(Request(c)) THEN \E d \in SeqClients \ {c} : InQueueOp(d) ELSE crowded
      BY <2>7 DEF Served
    <3>2. fifo' \in Seq(CmdKinds)
      BY <2>4, <3>1, ServeEffect
    <3>3. CASE StepOf(c).kind # "packet" /\ Resets(Request(c))
      <4>1. \A d \in SeqClients \ {c} : ~InQueueOp(d)
        BY <3>1, <3>3
      <4>2. overflow' = FALSE /\ ~Pushing(c)
        BY <2>4, <3>1, <3>3, NothingAdded
      <4>3. Alone'
        BY <2>2, <4>1
      <4>4. \A d \in SeqClients \ {c} : ~Pushing(d)
        BY <4>1, InOps
      <4>5. \A d \in SeqClients : ~Pushing(d)'
        BY <2>1, <2>3, <4>2, <4>4 DEF Pushing
      <4> QED BY <4>2, <4>3, <4>5
    <3>4. CASE ~Resets(Request(c))
      <4>1. Alone /\ (strayed = {} => ~overflow /\ Rooms)
        BY <3>1, <3>4 DEF RoomInv
      <4>2. Alone'
        BY <2>2, <4>1
      <4>3. ASSUME strayed' = {} PROVE ~overflow' /\ Rooms'
        <5>1. strayed = {} /\ ~overflow /\ Rooms /\ Mail(c)
          BY <2>1, <4>1, <4>3 DEF MailInv
        <5>2. CASE Pushing(c)
          <6>1. HasRoom(c)' /\ overflow' = overflow
            BY <1>3, <2>7, <4>3, <5>1, <5>2, RoomServed
          <6>2. \A d \in SeqClients \ {c} : ~Pushing(d)
            BY <4>1, <5>2, InOps
          <6>3. \A d \in SeqClients \ {c} : ~Pushing(d)'
            BY <2>1, <6>2 DEF Pushing
          <6> QED BY <5>1, <6>1, <6>3
        <5>3. CASE ~Pushing(c)
          <6>1. StepOf(c).kind # "packet"
            BY <2>4, <5>3, CallFacts DEF Pushing
          <6>2. Len(fifo') <= Len(fifo) /\ (overflow' = overflow \/ overflow' = FALSE)
            BY <2>4, <3>1, <6>1, NothingAdded
          <6>3. ASSUME NEW d \in SeqClients \ {c} PROVE (Pushing(d) => HasRoom(d))'
            <7>1. access'[d] = access[d] /\ replies'[d] = replies[d]
              BY <2>5, <4>3
            <7> QED BY <3>2, <5>1, <6>2, <7>1, RoomBystander
          <6> QED BY <2>3, <5>1, <5>3, <6>2, <6>3
        <5> QED BY <5>2, <5>3
      <4> QED BY <4>2, <4>3
    <3>5. StepOf(c).kind = "packet" => ~Resets(Request(c))
      <4>1. StepOf(c).kind = "packet" => Request(c).kind = "cmds"
        BY <2>4, RequestIs
      <4> QED BY <4>1 DEF Resets
    <3> QED BY <3>3, <3>4, <3>5
  <2> QED BY <2>4, <2>6, <2>7
<1>4. ASSUME NEW c \in SeqClients, Answered(c) \/ TimedOut(c)
      PROVE  RoomInv'
  <2>1. /\ \/ Heard(c) /\ (Halfway(c) \/ PollsAgain(c) \/ GoesOn(c))
           \/ \E result : Ends(c, result)
        /\ Calling(c) /\ \A e \in SeqClients \ {c} : replies'[e] = replies[e]
    BY <1>4 DEF Answered, TimedOut, Taken, EndsOk, EndsRefused, EndsCounted
  <2>2. /\ \A e \in SeqClients \ {c} : access'[e] = access[e]
        /\ UNCHANGED <<strayed, fifo, overflow, crowded>>
        /\ Calling(c)' => Moves(c) /\ access'[c].name = access[c].name
    BY <2>1 DEF Halfway, PollsAgain, GoesOn, Moves, Ends, SameDevice
  <2>3. /\ \A d \in SeqClients \ {c} : InQueueOp(d)' = InQueueOp(d)
        /\ InQueueOp(c)' => InQueueOp(c)
    <3>1. InQueueOp(c)' => Calling(c)'
      BY DEF InQueueOp, Calling, NoAccess, QueueOps
    <3> QED BY <2>2, <3>1, SameOps
  <2> SUFFICES ASSUME ~crowded PROVE Alone' /\ (strayed = {} => ~overflow /\ Rooms')
    BY <2>2 DEF RoomInv
  <2>4. Alone /\ (strayed = {} => ~overflow /\ Rooms)
    BY DEF RoomInv
  <2>5. Alone'
    BY <2>3, <2>4
  <2>6. ASSUME Rooms, NEW d \in SeqClients PROVE (Pushing(d) => HasRoom(d))'
    <3>1. CASE d = c
      <4>1. CASE Heard(c) /\ (Halfway(c) \/ PollsAgain(c) \/ GoesOn(c))
        <5>1. Moves(c)
          BY <4>1 DEF Halfway, PollsAgain, GoesOn
        <5>2. Pushing(c)' = Pushing(c)
          BY <5>1 DEF Moves, Pushing
        <5> QED BY <2>1, <2>6, <3>1, <4>1, <5>2, RoomMoves
      <4>2. ASSUME NEW result, Ends(c, result) PROVE ~Pushing(c)'
        BY <4>2 DEF Ends, NoAccess, Pushing
      <4> QED BY <2>1, <3>1, <4>1, <4>2
    <3>2. CASE d # c
      <4>1. fifo' \in Seq(CmdKinds) /\ Len(fifo') <= Len(fifo)
        BY <2>2 DEF Types
      <4>2. access'[d] = access[d] /\ replies'[d] = replies[d]
        BY <2>1, <2>2, <3>2, SMTT(30)
      <4> QED BY <2>6, <4>1, <4>2, RoomBystander
    <3> QED BY <3>1, <3>2
  <2> QED BY <2>4, <2>5, <2>6
<1> QED BY <1>1, <1>2, <1>3, <1>4, StepCases

-----------------------------------------------------------------------------
(* The call that ends. *)

(* What a push has appended when it returns, is refused, or raises.        *)
LEMMA PushTells ==
  ASSUME Types, NEW c \in SeqClients, Calling(c), Push(c), Pushing(c), ~seen[c].mixed
  PROVE  LET arg == access[c].op.arg
             before == seen[c].before
         IN  /\ Heard(c) /\ EndsOk(c) => fifo = before \o arg
             /\ Heard(c) /\ EndsRefused(c) => fifo = before /\ Len(before) + Len(arg) > Capacity
             /\ \E n \in 0 .. Len(arg) :
                  (n % PacketCmds = 0 \/ n = Len(arg)) /\ fifo = before \o SubSeq(arg, 1, n)
<1> DEFINE a == access[c]
           arg == access[c].op.arg
           before == seen[c].before
<1>1. /\ arg \in Seq(CmdKinds) /\ a.at \in Nat \ {0} /\ a.half \in {"read", "write"}
      /\ Len(SeqMethod(a.op)) = PacketCount(arg) + 1
      /\ a.at = 1 => StepOf(c) = Get("CMD_BUF_FREE_SPACE")
      /\ StepOf(c).kind = "packet" <=> a.at > 1
  BY PacketIs, CallFacts DEF Pushing
<1>2. StepOf(c).kind # "bit"
  <2>1. Get("CMD_BUF_FREE_SPACE").kind = "get"
    BY DEF Get
  <2> QED BY <1>1, <2>1
<1>3. before \in Seq(CmdKinds)
  BY DEF Types, SeenType
<1>4. Heard(c) => Done(c) = a.at /\ ~Deaf(c)
  BY <1>2 DEF Done, Heard, Deaf
<1>5. Heard(c) /\ EndsOk(c) => fifo = before \o arg
  <2> SUFFICES ASSUME Heard(c), EndsOk(c) PROVE fifo = before \o arg
    OBVIOUS
  <2>1. Holds(c, a.at) /\ a.at = PacketCount(arg) + 1
    BY <1>1, <1>4 DEF Push, EndsOk
  <2>2. Sent(arg, a.at) = Len(arg)
    <3>1. Sent(arg, PacketCount(arg) + 1) = Len(arg)
      BY <1>1, SentBounds
    <3> QED BY <2>1, <3>1
  <2>3. SubSeq(arg, 1, Len(arg)) = arg
    BY <1>1, <1>3, NoneAndAll
  <2> QED BY <2>1, <2>2, <2>3, Zenon DEF Holds
<1>6. Heard(c) /\ EndsRefused(c) => fifo = before /\ Len(before) + Len(arg) > Capacity
  <2> SUFFICES ASSUME Heard(c), EndsRefused(c)
               PROVE  fifo = before /\ Len(before) + Len(arg) > Capacity
    OBVIOUS
  <2>1. a.at = 1 /\ Len(arg) > Reply(c).val
    BY DEF EndsRefused
  <2>2. Holds(c, 1) /\ Reply(c).val = Capacity - Len(before)
    BY <1>4, <2>1 DEF Push
  <2>3. Sent(arg, 1) = 0
    BY <1>1, SentBounds
  <2>4. before \o SubSeq(arg, 1, 0) = before
    BY <1>1, <1>3, NoneAndAll
  <2>5. fifo = before
    BY <2>2, <2>3, <2>4, Zenon DEF Holds
  <2>6. Len(arg) > Capacity - Len(before)
    BY <2>1, <2>2, Zenon
  <2>7. Len(arg) \in Nat /\ Len(before) \in Nat /\ Capacity \in Nat
    BY <1>1, <1>3, SequencerConstants
  <2>8. \A x, y, z \in Nat : y > z - x => x + y > z
    OBVIOUS
  <2> QED BY <2>5, <2>6, <2>7, <2>8, Zenon
<1>7. \E n \in 0 .. Len(arg) :
        (n % PacketCmds = 0 \/ n = Len(arg)) /\ fifo = before \o SubSeq(arg, 1, n)
  <2>1. PICK k \in Nat : Holds(c, k)
    <3>1. Done(c) \in Nat /\ a.at \in Nat /\ a.at - 1 \in Nat
      BY <1>1 DEF Done
    <3> QED BY <3>1 DEF Push
  <2>2. /\ Sent(arg, k) \in 0 .. Len(arg)
        /\ Sent(arg, k) % PacketCmds = 0 \/ Sent(arg, k) = Len(arg)
    BY <1>1, SentBounds
  <2>3. fifo = before \o SubSeq(arg, 1, Sent(arg, k))
    BY <2>1 DEF Holds
  <2> QED BY <2>2, <2>3, Zenon
<1> QED BY <1>5, <1>6, <1>7

(* Every step tells the truth of the call that it ends. *)
LEMMA OutcomeKept ==
  ASSUME Types, MailInv, CtrlInv, PushInv, CountInv, OutcomeInv, [SeqNext]_seqVars
  PROVE  OutcomeInv'
<1>1. CASE Quiet
  <2>1. fifo' = fifo /\ strayed' = strayed /\ (outcome' = outcome \/ outcome' = NoOutcome)
    BY <1>1 DEF Quiet, historySeqVars
  <2> QED BY <2>1 DEF OutcomeInv, Clean, PushTold, StartTold, TruthTold
<1>2. ASSUME outcome' = NoOutcome PROVE OutcomeInv'
  BY <1>2 DEF OutcomeInv, Clean
<1>3. ASSUME NEW c \in SeqClients, NEW o \in SeqOps[c], Begins(c, o) PROVE OutcomeInv'
  BY <1>2, <1>3 DEF Begins
<1>4. ASSUME NEW c \in SeqClients, SendRequest(c) PROVE OutcomeInv'
  BY <1>2, <1>4 DEF SendRequest
<1>5. ASSUME NEW c \in SeqClients, Moves(c) PROVE OutcomeInv'
  BY <1>2, <1>5 DEF Moves
<1>6. ASSUME NEW c \in SeqClients, Calling(c), NEW result, Ends(c, result),
             \/ Heard(c) /\ EndsOk(c) /\ result = "ok"
             \/ Heard(c) /\ EndsRefused(c) /\ result = "refused"
             \/ /\ Heard(c) /\ EndsCounted(c)
                /\ result = IF access[c].got["NUM_STORED_CMDS"] - Reply(c).val = seen[c].truth THEN "ok"
                            ELSE "miscounted"
             \/ (Heard(c) \/ Deaf(c)) /\ result = "raised"
      PROVE  OutcomeInv'
  <2>1. /\ outcome' = [name |-> access[c].name, result |-> result, by |-> c, arg |-> access[c].op.arg,
                       seen |-> seen[c]]
        /\ fifo' = fifo /\ strayed' = strayed
    BY <1>6 DEF Ends, SameDevice
  <2>2. PICK n, r, w, s : n = access[c].name /\ r = result /\ w = access[c].op.arg /\ s = seen[c]
    OBVIOUS
  <2>3. outcome' = [name |-> n, result |-> r, by |-> c, arg |-> w, seen |-> s]
    BY <2>1, <2>2
  <2>4. outcome'.name = n /\ outcome'.result = r /\ outcome'.by = c /\ outcome'.arg = w /\ outcome'.seen = s
    BY <2>3
  <2>5. Clean' => c \notin strayed
    BY <2>1, <2>4 DEF Clean
  <2> SUFFICES ASSUME c \notin strayed
               PROVE  PushTold' /\ StartTold' /\ TruthTold'
    BY <2>5 DEF OutcomeInv
  <2>6. Mail(c) /\ Push(c) /\ Count(c) /\ Ctrl(c)
    BY DEF MailInv, PushInv, CountInv, CtrlInv
  <2>7. EndsCounted(c) => n = "unprocessed"
    BY <2>2, SMTT(30) DEF EndsCounted
  <2>8. PushTold'
    <3> SUFFICES ASSUME n = "push", ~s.mixed
                 PROVE  /\ r \in {"ok", "refused", "raised"}
                        /\ r = "ok" => fifo = s.before \o w
                        /\ r = "refused" => fifo = s.before /\ Len(s.before) + Len(w) > Capacity
                        /\ r = "raised" =>
                             \E i \in 0 .. Len(w) :
                               (i % PacketCmds = 0 \/ i = Len(w)) /\ fifo = s.before \o SubSeq(w, 1, i)
      BY <2>1, <2>4 DEF PushTold
    <3>1. Pushing(c) /\ ~seen[c].mixed
      BY <2>2 DEF Pushing
    <3>2. /\ Heard(c) /\ EndsOk(c) => fifo = s.before \o w
          /\ Heard(c) /\ EndsRefused(c) => fifo = s.before /\ Len(s.before) + Len(w) > Capacity
          /\ \E i \in 0 .. Len(w) :
               (i % PacketCmds = 0 \/ i = Len(w)) /\ fifo = s.before \o SubSeq(w, 1, i)
      BY <1>6, <2>2, <2>6, <3>1, PushTells
    <3>3. ~EndsCounted(c)
      BY <2>7
    <3> QED BY <1>6, <2>2, <3>2, <3>3
  <2>9. StartTold'
    <3> SUFFICES ASSUME n = "start", r = "ok", ~s.crossed PROVE s.starts = 1
      BY <2>4 DEF StartTold
    <3>1. Heard(c) /\ EndsOk(c)
      BY <1>6, <2>2, <2>7
    <3>2. InCtrlOp(c) /\ access[c].name = "start" /\ ~seen[c].crossed
      BY <2>2 DEF InCtrlOp, CtrlOps, SeqOpNames
    <3>3. AloneInCtrl(c)
      BY <2>6, <3>1, <3>2 DEF Ctrl, Heard, Deaf
    <3>4. seen[c].starts = 1
      BY <3>1, <3>2, <3>3, AloneEnds
    <3> QED BY <2>2, <3>4
  <2>10. TruthTold'
    <3>1. r = "miscounted" => s.moved
      <4> SUFFICES ASSUME r = "miscounted", ~seen[c].moved PROVE FALSE
        BY <2>2
      <4>1. /\ Heard(c) /\ EndsCounted(c)
            /\ ~(access[c].got["NUM_STORED_CMDS"] - Reply(c).val = seen[c].truth)
        BY <1>6, <2>2
      <4> QED BY <2>6, <4>1 DEF EndsCounted, Count
    <3>2. r = "ok" => s.port
      <4>1. r = "ok" => Heard(c)
        BY <1>6, <2>2
      <4>2. Heard(c) => seen[c].port
        BY <1>6, <2>6 DEF Mail, Heard, Deaf
      <4> QED BY <2>2, <4>1, <4>2
    <3> QED BY <2>4, <3>1, <3>2 DEF TruthTold
  <2> QED BY <2>8, <2>9, <2>10
<1>7. ASSUME NEW c \in SeqClients, Answered(c) PROVE OutcomeInv'
  <2>1. Calling(c) /\ Heard(c)
    BY <1>7 DEF Answered
  <2>2. CASE Halfway(c) \/ PollsAgain(c) \/ GoesOn(c)
    BY <1>5, <2>2 DEF Halfway, PollsAgain, GoesOn
  <2>3. CASE EndsOk(c)
    <3>1. Ends(c, "ok")
      BY <2>3 DEF EndsOk
    <3> QED BY <1>6, <2>1, <2>3, <3>1
  <2>4. CASE EndsRefused(c)
    <3>1. Ends(c, "refused")
      BY <2>4 DEF EndsRefused
    <3> QED BY <1>6, <2>1, <2>4, <3>1
  <2>5. CASE EndsCounted(c)
    <3>1. PICK r : r = IF access[c].got["NUM_STORED_CMDS"] - Reply(c).val = seen[c].truth THEN "ok"
                       ELSE "miscounted"
      OBVIOUS
    <3>2. Ends(c, r)
      BY <2>5, <3>1 DEF EndsCounted
    <3> QED BY <1>6, <2>1, <2>5, <3>1, <3>2
  <2>6. CASE Ends(c, "raised")
    BY <1>6, <2>1, <2>6
  <2> QED BY <1>7, <2>2, <2>3, <2>4, <2>5, <2>6 DEF Answered
<1>8. ASSUME NEW c \in SeqClients, TimedOut(c) PROVE OutcomeInv'
  <2>1. Calling(c) /\ Deaf(c) /\ Ends(c, "raised")
    BY <1>8 DEF TimedOut
  <2> QED BY <1>6, <2>1
<1> QED BY <1>1, <1>3, <1>4, <1>7, <1>8, StepCases

-----------------------------------------------------------------------------
(* The sequencer starts with the FIFO that earlier calls have left. *)
LEMMA InitHolds ==
  ASSUME SeqInit
  PROVE  Inv
<1>1. /\ \A c \in SeqClients : access[c] = NoAccess /\ seen[c] = NothingSeen
      /\ \A c \in SeqClients : \A s \in Sockets : replies[c][s] = <<>>
      /\ ctrl = {} /\ fifo \in Queues /\ counter = 0 /\ overflow = FALSE
      /\ dest \in SeqClients \cup {NoPort} /\ outcome = NoOutcome
      /\ strayed = {} /\ flags = {} /\ settled = TRUE /\ crowded = FALSE
  BY DEF SeqInit
<1>2. \A c \in SeqClients :
        ~Calling(c) /\ ~Pushing(c) /\ ~InCtrlOp(c) /\ ~InQueueOp(c) /\ access[c].name = "none"
  <2> TAKE c \in SeqClients
  <2>1. access[c] = NoAccess
    BY <1>1
  <2>2. NoAccess.name = "none"
    BY DEF NoAccess
  <2>3. access[c].name = "none" /\ ~Calling(c)
    BY <2>1, <2>2 DEF Calling
  <2> QED BY <2>3 DEF Pushing, InCtrlOp, InQueueOp, CtrlOps, SeqOpNames, QueueOps
<1>3. Types
  <2>1. fifo \in Seq(CmdKinds)
    BY <1>1, SequencerConstants
  <2>2. access = [c \in SeqClients |-> access[c]]
    BY DEF SeqInit
  <2>3. replies = [c \in SeqClients |-> [s \in Sockets |-> replies[c][s]]]
    BY DEF SeqInit
  <2>4. seen \in [SeqClients -> SeenType]
    <3>1. <<>> \in Seq(CmdKinds)
      OBVIOUS
    <3>2. NothingSeen \in SeenType
      BY <3>1 DEF NothingSeen, SeenType
    <3> QED BY <3>2 DEF SeqInit
  <2> QED BY <1>1, <1>2, <2>1, <2>2, <2>3, <2>4 DEF Types
<1>4. MailInv
  BY <1>1, <1>2 DEF MailInv, Mail
<1>5. CtrlInv
  BY <1>1, <1>2 DEF CtrlInv, Ctrl
<1>6. PushInv /\ RoomInv
  BY <1>1, <1>2 DEF PushInv, Push, RoomInv
<1>7. CountInv
  BY <1>2 DEF CountInv, Count
<1>8. OutcomeInv
  BY <1>1 DEF OutcomeInv, Clean
<1> QED BY <1>3, <1>4, <1>5, <1>6, <1>7, <1>8 DEF Inv

(* Every step keeps the whole of it. *)
LEMMA StepKeeps ==
  ASSUME Inv, [SeqNext]_seqVars
  PROVE  Inv'
BY TypesKept, MailKept, CtrlKept, PushKept, RoomKept, CountKept, OutcomeKept DEF Inv

(* Replies reach the calls they are for, and a call alone in CTRL or on the *)
(* FIFO has made of it what its steps so far say.                           *)
THEOREM Invariant == SeqSpec => []Inv
<1>1. SeqInit => Inv
  BY InitHolds
<1>2. Inv /\ [SeqNext]_seqVars => Inv'
  BY StepKeeps
<1> QED BY <1>1, <1>2, PTL DEF SeqSpec

(* push_commands appends its commands, all and in order, when it returns,   *)
(* nothing when it refuses, whole packets from the front when it raises;    *)
(* and a FIFO that overflows has been pushed to by two calls at once, or a  *)
(* reply has gone to another client.                                        *)
THEOREM PushesAreWhole == SeqSpec => []FifoIsThePushes
<1>1. Inv => FifoIsThePushes
  <2> SUFFICES ASSUME Inv PROVE FifoIsThePushes
    OBVIOUS
  <2>1. overflow => crowded \/ strayed # {}
    BY DEF Inv, RoomInv
  <2>2. Clean => PushTold
    BY DEF Inv, OutcomeInv
  <2> QED BY <2>1, <2>2 DEF FifoIsThePushes, PushTold
<1> QED BY <1>1, Invariant, PTL

(* The control register holds the flags that were asked for as long as no   *)
(* two calls cross there, and a start that returns has started the          *)
(* sequencer once.                                                          *)
THEOREM FlagsAreThoseAsked == SeqSpec => []ControlAsAsked
<1>1. Inv => ControlAsAsked
  <2> SUFFICES ASSUME Inv PROVE ControlAsAsked
    OBVIOUS
  <2>1. settled /\ (\A c \in SeqClients : ~InCtrlOp(c)) => ctrl = flags
    BY DEF Inv, CtrlInv
  <2>2. Clean => StartTold
    BY DEF Inv, OutcomeInv
  <2> QED BY <2>1, <2>2 DEF ControlAsAsked, StartTold
<1> QED BY <1>1, Invariant, PTL

(* A count of unprocessed commands is that of one moment unless the FIFO    *)
(* changed between its two reads, and no call returns to a client whose     *)
(* replies go to another port.                                              *)
THEOREM CallsTellTheTruth == SeqSpec => []ReturnsAreTrue
<1>1. Inv => ReturnsAreTrue
  BY DEF Inv, OutcomeInv, ReturnsAreTrue, TruthTold
<1> QED BY <1>1, Invariant, PTL

-----------------------------------------------------------------------------
(* The receiver of the error reports. *)

(* A packet of reports: their numbers rise, and only the last may be one   *)
(* that cannot be read.                                                    *)
Items == Nat \cup {Unknown}

ErrPackets ==
  {p \in Seq(Items) : \A i, j \in 1 .. Len(p) : i < j => p[i] \in Nat /\ (p[j] \in Nat => p[i] < p[j])}

Places ==
  {"idle", "initialize", "add_entry", "start", "pop", "empty", "close", "join_receiver",
   "join_router", "closed"}

ErrTypes ==
  /\ routerSock \in Seq(ErrPackets) /\ receiverSock \in Seq(ErrPackets) /\ inHand \in ErrPackets
  /\ received \in Seq(Nat) /\ popped \in Seq(Nat) /\ reports \in Seq(Nat)
  /\ user \in [UserThreads -> Places]
  /\ numSent \in Nat

(* The list and its lock: who holds it has taken the list and has still to *)
(* replace it.                                                             *)
ListInv ==
  /\ reportLock = Free => received = popped \o reports
  /\ reportLock # Free => reportLock \in UserThreads /\ received = popped
  /\ \A t \in UserThreads : user[t] = "empty" => reportLock = t

(* What is on its way was sent after what has arrived.                     *)
Numbers(p) == {n \in Nat : \E i \in 1 .. Len(p) : n = p[i]}
NumbersIn(sock) == {n \in Nat : \E i \in 1 .. Len(sock) : n \in Numbers(sock[i])}
Below(S, T) == \A n \in S, m \in T : n < m
InOrder(sock) == \A i, j \in 1 .. Len(sock) : i < j => Below(Numbers(sock[i]), Numbers(sock[j]))

Rising(s) == \A i, j \in 1 .. Len(s) : i < j => s[i] < s[j]

OrderInv ==
  /\ Rising(received)
  /\ InOrder(receiverSock) /\ InOrder(routerSock)
  /\ Below(Numbers(received), Numbers(inHand))
  /\ Below(Numbers(received) \cup Numbers(inHand), NumbersIn(receiverSock))
  /\ Below(Numbers(received) \cup Numbers(inHand) \cup NumbersIn(receiverSock), NumbersIn(routerSock))
  /\ \A n \in Numbers(received) \cup Numbers(inHand) \cup NumbersIn(receiverSock) \cup NumbersIn(routerSock) :
       n <= numSent

ErrInv == ErrTypes /\ ListInv /\ OrderInv

-----------------------------------------------------------------------------
(* Sockets. *)

LEMMA StopIsPacket == Stop \in ErrPackets /\ Numbers(Stop) = {}
  BY DEF Stop, ErrPackets, Numbers, Items

(* Taking the first packet. *)
LEMMA TakenPacket ==
  ASSUME NEW sock \in Seq(ErrPackets), sock # <<>>, InOrder(sock)
  PROVE  /\ Head(sock) \in ErrPackets /\ Tail(sock) \in Seq(ErrPackets) /\ InOrder(Tail(sock))
         /\ NumbersIn(Tail(sock)) \subseteq NumbersIn(sock)
         /\ Numbers(Head(sock)) \subseteq NumbersIn(sock)
         /\ Below(Numbers(Head(sock)), NumbersIn(Tail(sock)))
<1>1. /\ Head(sock) \in ErrPackets /\ Tail(sock) \in Seq(ErrPackets) /\ Len(Tail(sock)) = Len(sock) - 1
      /\ \A i \in 1 .. Len(Tail(sock)) : Tail(sock)[i] = sock[i + 1]
      /\ Len(sock) \in Nat \ {0} /\ Head(sock) = sock[1]
  BY HeadTailProperties, EmptySeq
<1>2. InOrder(Tail(sock)) BY <1>1 DEF InOrder
<1>3. NumbersIn(Tail(sock)) \subseteq NumbersIn(sock) BY <1>1 DEF NumbersIn
<1>4. Numbers(Head(sock)) \subseteq NumbersIn(sock) BY <1>1 DEF NumbersIn, Numbers
<1>5. Below(Numbers(Head(sock)), NumbersIn(Tail(sock)))
  <2>1. \A i \in 1 .. Len(Tail(sock)) : Below(Numbers(sock[1]), Numbers(Tail(sock)[i]))
    BY <1>1 DEF InOrder
  <2>2. QED BY <1>1, <2>1 DEF NumbersIn, Below
<1>6. QED BY <1>1, <1>2, <1>3, <1>4, <1>5

(* Sending one more. *)
LEMMA SentPacket ==
  ASSUME NEW sock \in Seq(ErrPackets), NEW p \in ErrPackets, InOrder(sock),
         Below(NumbersIn(sock), Numbers(p))
  PROVE  /\ Append(sock, p) \in Seq(ErrPackets) /\ InOrder(Append(sock, p))
         /\ NumbersIn(Append(sock, p)) = NumbersIn(sock) \cup Numbers(p)
<1>1. /\ Append(sock, p) \in Seq(ErrPackets) /\ Len(Append(sock, p)) = Len(sock) + 1
      /\ \A i \in 1 .. Len(sock) : Append(sock, p)[i] = sock[i]
      /\ Append(sock, p)[Len(sock) + 1] = p /\ Len(sock) \in Nat
  BY AppendProperties, LenProperties
<1>2. \A i \in 1 .. Len(sock) : Numbers(sock[i]) \subseteq NumbersIn(sock)
  BY DEF NumbersIn, Numbers
<1>3. InOrder(Append(sock, p))
  <2> SUFFICES ASSUME NEW i \in 1 .. Len(sock) + 1, NEW j \in 1 .. Len(sock) + 1, i < j
               PROVE  Below(Numbers(Append(sock, p)[i]), Numbers(Append(sock, p)[j]))
    BY <1>1 DEF InOrder
  <2>1. i \in 1 .. Len(sock) /\ Append(sock, p)[i] = sock[i] BY <1>1
  <2>2. CASE j = Len(sock) + 1 BY <1>1, <1>2, <2>1, <2>2 DEF Below
  <2>3. CASE j # Len(sock) + 1 BY <1>1, <2>1, <2>3 DEF InOrder
  <2>4. QED BY <2>2, <2>3
<1>4. NumbersIn(Append(sock, p)) = NumbersIn(sock) \cup Numbers(p)
  <2>1. NumbersIn(Append(sock, p)) \subseteq NumbersIn(sock) \cup Numbers(p)
    <3> SUFFICES ASSUME NEW n \in Nat, NEW i \in 1 .. Len(sock) + 1, n \in Numbers(Append(sock, p)[i])
                 PROVE  n \in NumbersIn(sock) \cup Numbers(p)
      BY <1>1 DEF NumbersIn
    <3>1. CASE i = Len(sock) + 1 BY <1>1, <3>1
    <3>2. CASE i \in 1 .. Len(sock) BY <1>1, <1>2, <3>2
    <3>3. QED BY <1>1, <3>1, <3>2
  <2>2. NumbersIn(sock) \subseteq NumbersIn(Append(sock, p))
    BY <1>1 DEF NumbersIn
  <2>3. Numbers(p) \subseteq NumbersIn(Append(sock, p))
    <3> SUFFICES ASSUME NEW n \in Numbers(p) PROVE n \in NumbersIn(Append(sock, p)) OBVIOUS
    <3>1. n \in Nat /\ n \in Numbers(Append(sock, p)[Len(sock) + 1]) BY <1>1 DEF Numbers
    <3>2. Len(sock) + 1 \in 1 .. Len(Append(sock, p)) BY <1>1
    <3>3. QED BY <3>1, <3>2 DEF NumbersIn
  <2>4. QED BY <2>1, <2>2, <2>3
<1>5. QED BY <1>1, <1>3, <1>4

-----------------------------------------------------------------------------
LEMMA ReportsStart == ReportInit => ErrInv
<1> SUFFICES ASSUME ReportInit PROVE ErrInv OBVIOUS
<1>1. <<>> \in ErrPackets BY StopIsPacket DEF Stop
<1>2. ErrTypes BY <1>1, EmptySeq DEF ReportInit, ErrTypes, Places
<1>3. ListInv
  <2>1. <<>> \o <<>> = <<>> OBVIOUS
  <2>2. QED BY <2>1 DEF ReportInit, ListInv
<1>4. OrderInv BY DEF ReportInit, OrderInv, Rising, InOrder, Numbers, NumbersIn, Below
<1>5. QED BY <1>2, <1>3, <1>4 DEF ErrInv

(* ErrPackets on their way. *)

LEMMA PacketOfReports ==
  ASSUME NEW m \in Nat, NEW n \in Nat \ {0}, NEW bad \in BOOLEAN, NEW packet,
         packet = IF bad THEN [[i \in 1 .. n |-> m + i] EXCEPT ![n] = Unknown] ELSE [i \in 1 .. n |-> m + i]
  PROVE  packet \in ErrPackets /\ Numbers(packet) \subseteq m + 1 .. m + n
<1> USE ReportConstants DEF ReportConstants
<1>1. packet = [i \in 1 .. n |-> IF bad /\ i = n THEN Unknown ELSE m + i] OBVIOUS
<1>2. packet \in Seq(Items) /\ Len(packet) = n
  <2>1. \A i \in 1 .. n : packet[i] \in Items BY <1>1 DEF Items
  <2>2. packet \in [1 .. n -> Items] /\ DOMAIN packet = 1 .. n BY <1>1, <2>1
  <2>3. packet \in Seq(Items)
    <3> HIDE DEF Items
    <3>1. QED BY <2>2, SeqDef, ZenonT(60)
  <2>4. Len(packet) \in Nat /\ 1 .. Len(packet) = 1 .. n BY <2>2, <2>3, LenProperties
  <2>5. QED BY <2>3, <2>4
<1>3. \A i \in 1 .. n : packet[i] \in Nat => packet[i] = m + i BY <1>1
<1>4. \A i \in 1 .. n : i < n => packet[i] = m + i BY <1>1
<1>5. packet \in ErrPackets
  <2>1. \A i, j \in 1 .. n : i < j => packet[i] \in Nat /\ (packet[j] \in Nat => packet[i] < packet[j])
    <3> SUFFICES ASSUME NEW i \in 1 .. n, NEW j \in 1 .. n, i < j
                 PROVE  packet[i] \in Nat /\ (packet[j] \in Nat => packet[i] < packet[j])
      OBVIOUS
    <3>1. packet[i] = m + i BY <1>4
    <3>2. packet[j] \in Nat => packet[j] = m + j BY <1>3
    <3>3. QED BY <3>1, <3>2
  <2>2. QED BY <1>2, <2>1 DEF ErrPackets
<1>6. Numbers(packet) \subseteq m + 1 .. m + n
  <2> SUFFICES ASSUME NEW k \in Nat, NEW i \in 1 .. Len(packet), k = packet[i]
               PROVE  k \in m + 1 .. m + n
    BY DEF Numbers
  <2>1. i \in 1 .. n /\ k = m + i BY <1>2, <1>3
  <2>2. QED BY <2>1
<1>7. QED BY <1>5, <1>6

LEMMA SendReportsKeepsInv ==
  ASSUME ErrInv, SendReports
  PROVE  ErrInv'
<1> USE DEF ErrInv
<1>1. PICK n \in PacketSizes, bad \in BOOLEAN :
        /\ numSent' = numSent + n
        /\ LET numbers == [i \in 1 .. n |-> numSent + i]
               packet == IF bad THEN [numbers EXCEPT ![n] = Unknown] ELSE numbers
           IN  routerSock' \in {routerSock, Append(routerSock, packet)}
  BY DEF SendReports
<1> DEFINE packet == IF bad THEN [[i \in 1 .. n |-> numSent + i] EXCEPT ![n] = Unknown]
                     ELSE [i \in 1 .. n |-> numSent + i]
<1>2. routerSock' \in {routerSock, Append(routerSock, packet)} BY <1>1
<1>3. n \in Nat \ {0} /\ numSent \in Nat BY ReportConstants DEF ReportConstants, ErrTypes
<1>4. packet \in ErrPackets /\ Numbers(packet) \subseteq numSent + 1 .. numSent + n
  BY <1>3, PacketOfReports
<1> HIDE DEF packet
<1>5. Below(NumbersIn(routerSock), Numbers(packet))
  <2> SUFFICES ASSUME NEW k \in NumbersIn(routerSock), NEW l \in Numbers(packet) PROVE k < l
    BY DEF Below
  <2>1. k \in Nat /\ k <= numSent BY DEF OrderInv, NumbersIn
  <2>2. l \in numSent + 1 .. numSent + n BY <1>4
  <2>3. QED BY <1>3, <2>1, <2>2
<1>6. /\ routerSock' \in Seq(ErrPackets) /\ InOrder(routerSock')
      /\ NumbersIn(routerSock') \subseteq NumbersIn(routerSock) \cup Numbers(packet)
  BY <1>2, <1>4, <1>5, SentPacket DEF OrderInv, ErrTypes
<1>7. UNCHANGED <<receiverSock, inHand, listVars, user>> BY DEF SendReports
<1>8. ErrTypes' BY <1>1, <1>3, <1>6, <1>7 DEF ErrTypes, listVars
<1>9. ListInv' BY <1>7 DEF ListInv, listVars
<1>10. OrderInv'
  <2>1. UNCHANGED <<received, inHand, receiverSock>> BY <1>7 DEF listVars
  <2> DEFINE before == Numbers(received) \cup Numbers(inHand) \cup NumbersIn(receiverSock)
  <2>2. Below(before, NumbersIn(routerSock'))
    <3> SUFFICES ASSUME NEW k \in before, NEW l \in NumbersIn(routerSock') PROVE k < l
      BY DEF Below
    <3>1. CASE l \in NumbersIn(routerSock) BY <3>1 DEF OrderInv, Below
    <3>2. CASE l \in Numbers(packet)
      <4>1. k \in Nat /\ k <= numSent BY DEF OrderInv, Numbers, NumbersIn
      <4>2. l \in numSent + 1 .. numSent + n BY <1>4, <3>2
      <4>3. QED BY <1>3, <4>1, <4>2
    <3>3. QED BY <1>6, <3>1, <3>2
  <2>3. \A k \in before \cup NumbersIn(routerSock') : k <= numSent'
    <3> SUFFICES ASSUME NEW k \in before \cup NumbersIn(routerSock') PROVE k <= numSent'
      OBVIOUS
    <3>1. CASE k \in before \cup NumbersIn(routerSock)
      <4>1. k \in Nat /\ k <= numSent BY <3>1 DEF OrderInv, Numbers, NumbersIn
      <4>2. QED BY <1>1, <1>3, <4>1
    <3>2. CASE k \in Numbers(packet)
      <4>1. k \in numSent + 1 .. numSent + n BY <1>4, <3>2
      <4>2. QED BY <1>1, <1>3, <4>1
    <3>3. QED BY <1>6, <3>1, <3>2
  <2>4. QED BY <1>6, <2>1, <2>2, <2>3 DEF OrderInv
<1>11. QED BY <1>8, <1>9, <1>10

LEMMA RouteKeepsInv ==
  ASSUME ErrInv, Route
  PROVE  ErrInv'
<1> USE DEF ErrInv
<1> DEFINE p == Head(routerSock)
<1>1. /\ routerSock # <<>> /\ routerSock' = Tail(routerSock)
      /\ receiverSock' \in {receiverSock, Append(receiverSock, p)}
      /\ UNCHANGED <<inHand, listVars, user, numSent>>
  BY DEF Route, ToReceiver
<1>2. /\ p \in ErrPackets /\ routerSock' \in Seq(ErrPackets) /\ InOrder(routerSock')
      /\ NumbersIn(routerSock') \subseteq NumbersIn(routerSock)
      /\ Numbers(p) \subseteq NumbersIn(routerSock)
      /\ Below(Numbers(p), NumbersIn(routerSock'))
  BY <1>1, TakenPacket DEF ErrTypes, OrderInv
<1> HIDE DEF p
<1>3. Below(NumbersIn(receiverSock), Numbers(p)) BY <1>2 DEF OrderInv, Below
<1>4. /\ receiverSock' \in Seq(ErrPackets) /\ InOrder(receiverSock')
      /\ NumbersIn(receiverSock') \subseteq NumbersIn(receiverSock) \cup Numbers(p)
  BY <1>1, <1>2, <1>3, SentPacket DEF ErrTypes, OrderInv
<1>5. ErrTypes' BY <1>1, <1>2, <1>4 DEF ErrTypes, listVars
<1>6. ListInv' BY <1>1 DEF ListInv, listVars
<1>7. OrderInv'
  <2>1. UNCHANGED <<received, inHand, numSent>> BY <1>1 DEF listVars
  <2> DEFINE before == Numbers(received) \cup Numbers(inHand)
  <2>2. Below(before, NumbersIn(receiverSock')) BY <1>2, <1>4 DEF OrderInv, Below
  <2>3. Below(before \cup NumbersIn(receiverSock'), NumbersIn(routerSock'))
    BY <1>2, <1>4 DEF OrderInv, Below
  <2>4. \A k \in before \cup NumbersIn(receiverSock') \cup NumbersIn(routerSock') : k <= numSent
    BY <1>2, <1>4 DEF OrderInv
  <2>5. QED BY <1>2, <1>4, <2>1, <2>2, <2>3, <2>4 DEF OrderInv
<1>8. QED BY <1>5, <1>6, <1>7

LEMMA ReceiveKeepsInv ==
  ASSUME ErrInv, Receive
  PROVE  ErrInv'
<1> USE DEF ErrInv
<1> DEFINE p == Head(receiverSock)
<1>1. /\ receiverSock # <<>> /\ receiverSock' = Tail(receiverSock)
      /\ inHand' \in {inHand, p}
      /\ UNCHANGED <<routerSock, listVars, user, numSent>>
  BY DEF Receive
<1>2. /\ p \in ErrPackets /\ receiverSock' \in Seq(ErrPackets) /\ InOrder(receiverSock')
      /\ NumbersIn(receiverSock') \subseteq NumbersIn(receiverSock)
      /\ Numbers(p) \subseteq NumbersIn(receiverSock)
      /\ Below(Numbers(p), NumbersIn(receiverSock'))
  BY <1>1, TakenPacket DEF ErrTypes, OrderInv
<1> HIDE DEF p
<1>3. inHand' \in ErrPackets /\ Numbers(inHand') \in {Numbers(inHand), Numbers(p)}
  BY <1>1, <1>2 DEF ErrTypes
<1>4. ErrTypes' BY <1>1, <1>2, <1>3 DEF ErrTypes, listVars
<1>5. ListInv' BY <1>1 DEF ListInv, listVars
<1>6. OrderInv'
  <2>1. UNCHANGED <<received, routerSock, numSent>> BY <1>1 DEF listVars
  <2>2. Below(Numbers(received), Numbers(inHand')) BY <1>2, <1>3 DEF OrderInv, Below
  <2>3. Below(Numbers(received) \cup Numbers(inHand'), NumbersIn(receiverSock'))
    BY <1>2, <1>3 DEF OrderInv, Below
  <2>4. Below(Numbers(received) \cup Numbers(inHand') \cup NumbersIn(receiverSock'), NumbersIn(routerSock))
    BY <1>2, <1>3 DEF OrderInv, Below
  <2>5. \A k \in Numbers(received) \cup Numbers(inHand') \cup NumbersIn(receiverSock') \cup NumbersIn(routerSock) :
          k <= numSent
    BY <1>2, <1>3 DEF OrderInv
  <2>6. QED BY <1>2, <2>1, <2>2, <2>3, <2>4, <2>5 DEF OrderInv
<1>7. QED BY <1>4, <1>5, <1>6

LEMMA AppendAssociates ==
  \A p, q, r \in Seq(Nat) : (p \o q) \o r = p \o (q \o r)
<1> SUFFICES ASSUME NEW p \in Seq(Nat), NEW q \in Seq(Nat), NEW r \in Seq(Nat)
             PROVE  (p \o q) \o r = p \o (q \o r)
  OBVIOUS
<1>1. /\ (p \o q) \o r \in Seq(Nat) /\ p \o (q \o r) \in Seq(Nat)
      /\ Len((p \o q) \o r) = Len(p \o (q \o r))
  BY ConcatProperties, LenProperties
<1>2. \A i \in 1 .. Len((p \o q) \o r) : ((p \o q) \o r)[i] = (p \o (q \o r))[i]
  BY ConcatProperties, LenProperties
<1> DEFINE left == (p \o q) \o r
<1> DEFINE right == p \o (q \o r)
<1> HIDE DEF left, right
<1>3. left \in Seq(Nat) /\ right \in Seq(Nat) /\ Len(left) = Len(right) BY <1>1 DEF left, right
<1>4. \A i \in 1 .. Len(left) : left[i] = right[i] BY <1>2 DEF left, right
<1>5. left = right BY <1>3, <1>4, SeqEqual
<1>6. QED BY <1>5 DEF left, right

(* The reports that can be read go behind those that were kept before.     *)
LEMMA KeepReportsKeepsInv ==
  ASSUME ErrInv, KeepReports
  PROVE  ErrInv'
<1> USE DEF ErrInv
<1> DEFINE good == IF Last(inHand) = Unknown THEN Front(inHand) ELSE inHand
<1>1. /\ inHand # <<>> /\ reportLock = Free /\ inHand' = <<>>
      /\ reports' = reports \o good /\ received' = received \o good
      /\ UNCHANGED <<routerSock, receiverSock, reportLock, popped, user, numSent>>
  BY DEF KeepReports
<1>2. /\ inHand \in Seq(Items) /\ Len(inHand) \in Nat \ {0}
      /\ \A i \in 1 .. Len(inHand) : inHand[i] \in Items
      /\ \A i, j \in 1 .. Len(inHand) :
           i < j => inHand[i] \in Nat /\ (inHand[j] \in Nat => inHand[i] < inHand[j])
  BY <1>1, EmptySeq DEF ErrTypes, ErrPackets
<1>3. /\ good \in Seq(Nat) /\ Len(good) <= Len(inHand) /\ Len(good) \in Nat
      /\ \A i \in 1 .. Len(good) : good[i] = inHand[i]
  <2>1. CASE Last(inHand) = Unknown
    <3>1. good = SubSeq(inHand, 1, Len(inHand) - 1) BY <2>1 DEF Front
    <3>2. \A i \in 1 .. Len(inHand) - 1 : inHand[i] \in Nat BY <1>2
    <3>3. QED BY <1>2, <3>1, <3>2, SubSeqProperties
  <2>2. CASE Last(inHand) # Unknown
    <3>1. good = inHand BY <2>2
    <3>2. \A i \in 1 .. Len(inHand) : inHand[i] \in Nat BY <1>2, <2>2 DEF Last, Items
    <3>3. inHand = [i \in 1 .. Len(inHand) |-> inHand[i]] BY <1>2
    <3>4. QED BY <1>2, <3>1, <3>2, <3>3, IsASeq
  <2>3. QED BY <2>1, <2>2
<1> HIDE DEF good
<1>4. /\ received' \in Seq(Nat) /\ reports' \in Seq(Nat)
      /\ Len(received') = Len(received) + Len(good) /\ Len(received) \in Nat
      /\ \A i \in 1 .. Len(received) + Len(good) :
           received'[i] = IF i <= Len(received) THEN received[i] ELSE good[i - Len(received)]
  BY <1>1, <1>3, ConcatProperties, LenProperties DEF ErrTypes
<1>5. Numbers(good) \subseteq Numbers(inHand) BY <1>2, <1>3 DEF Numbers
<1>10. ASSUME NEW i \in 1 .. Len(received')
      PROVE  \/ i \in 1 .. Len(received) /\ received'[i] = received[i]
             \/ /\ i > Len(received) /\ i - Len(received) \in 1 .. Len(good)
                /\ received'[i] = good[i - Len(received)]
  <2> DEFINE r == Len(received)
  <2> DEFINE g == Len(good)
  <2>1. r \in Nat /\ g \in Nat /\ i \in 1 .. r + g BY <1>3, <1>4
  <2>2. received'[i] = IF i <= r THEN received[i] ELSE good[i - r] BY <1>4, <2>1
  <2> HIDE DEF r, g
  <2>3. \/ i \in 1 .. r /\ received'[i] = received[i]
        \/ i > r /\ i - r \in 1 .. g /\ received'[i] = good[i - r]
    BY <2>1, <2>2
  <2>4. QED BY <2>3 DEF r, g
<1>6. ErrTypes'
  <2>1. inHand' \in ErrPackets BY <1>1, StopIsPacket DEF Stop
  <2>2. QED BY <1>1, <1>4, <2>1 DEF ErrTypes
<1>7. ListInv'
  <2>1. popped \in Seq(Nat) /\ reports \in Seq(Nat) /\ received = popped \o reports
    BY <1>1 DEF ListInv, ErrTypes
  <2>2. (popped \o reports) \o good = popped \o (reports \o good)
    BY <1>3, <2>1, AppendAssociates
  <2>3. QED BY <1>1, <2>1, <2>2 DEF ListInv
<1>8. OrderInv'
  <2>1. Numbers(received') \subseteq Numbers(received) \cup Numbers(inHand)
    <3> SUFFICES ASSUME NEW k \in Nat, NEW i \in 1 .. Len(received'), k = received'[i]
                 PROVE  k \in Numbers(received) \cup Numbers(inHand)
      BY DEF Numbers
    <3>1. CASE i \in 1 .. Len(received) /\ received'[i] = received[i] BY <3>1 DEF Numbers
    <3>2. CASE i - Len(received) \in 1 .. Len(good) /\ received'[i] = good[i - Len(received)]
      <4>1. k \in Numbers(good) BY <3>2 DEF Numbers
      <4>2. QED BY <1>5, <4>1
    <3>3. QED BY <1>10, <3>1, <3>2
  <2>2. Rising(received')
    <3> SUFFICES ASSUME NEW i \in 1 .. Len(received'), NEW j \in 1 .. Len(received'), i < j
                 PROVE  received'[i] < received'[j]
      BY DEF Rising
    <3> DEFINE Old(l) == l \in 1 .. Len(received) /\ received'[l] = received[l]
    <3> DEFINE New(l) == /\ l > Len(received) /\ l - Len(received) \in 1 .. Len(good)
                         /\ received'[l] = good[l - Len(received)]
    <3>1. Old(i) \/ New(i) BY <1>10
    <3>2. Old(j) \/ New(j) BY <1>10
    <3>3. i \in Int /\ j \in Int BY <1>4
    <3>4. CASE Old(i) /\ Old(j) BY <3>4 DEF OrderInv, Rising
    <3>5. CASE Old(i) /\ New(j)
      <4>1. received'[i] \in Numbers(received)
        <5>1. received[i] \in Nat BY <3>5, ElementOfSeq DEF ErrTypes
        <5>2. QED BY <3>5, <5>1 DEF Numbers
      <4>2. received'[j] \in Numbers(good)
        <5>1. good[j - Len(received)] \in Nat BY <1>3, <3>5, ElementOfSeq
        <5>2. QED BY <3>5, <5>1 DEF Numbers
      <4>3. QED BY <1>5, <4>1, <4>2 DEF OrderInv, Below
    <3>6. CASE New(i) /\ New(j)
      <4> DEFINE a == i - Len(received)
      <4> DEFINE b == j - Len(received)
      <4>1. a \in 1 .. Len(good) /\ b \in 1 .. Len(good) /\ a < b BY <1>4, <3>3, <3>6
      <4>2. received'[i] = good[a] /\ received'[j] = good[b] BY <3>6
      <4> HIDE DEF a, b
      <4>3. a \in 1 .. Len(inHand) /\ b \in 1 .. Len(inHand) /\ good[a] = inHand[a] /\ good[b] = inHand[b]
        BY <1>2, <1>3, <4>1
      <4>4. good[b] \in Nat BY <1>3, <4>1, ElementOfSeq
      <4>5. inHand[a] < inHand[b] BY <1>2, <4>1, <4>3, <4>4
      <4>6. QED BY <4>2, <4>3, <4>5
    <3>7. CASE New(i) /\ Old(j) BY <1>4, <3>3, <3>7
    <3>8. QED BY <3>1, <3>2, <3>4, <3>5, <3>6, <3>7
  <2>3. Numbers(inHand') = {} BY <1>1 DEF Numbers
  <2>4. UNCHANGED <<routerSock, receiverSock, numSent>> BY <1>1
  <2>5. Below(Numbers(received'), {}) BY DEF Below
  <2>6. Below(Numbers(received') \cup {}, NumbersIn(receiverSock)) BY <2>1 DEF OrderInv, Below
  <2>7. Below(Numbers(received') \cup {} \cup NumbersIn(receiverSock), NumbersIn(routerSock))
    BY <2>1 DEF OrderInv, Below
  <2>8. \A k \in Numbers(received') \cup {} \cup NumbersIn(receiverSock) \cup NumbersIn(routerSock) :
          k <= numSent
    BY <2>1 DEF OrderInv
  <2>9. QED BY <2>2, <2>3, <2>4, <2>5, <2>6, <2>7, <2>8 DEF OrderInv
<1>9. QED BY <1>6, <1>7, <1>8

-----------------------------------------------------------------------------
(* The threads of the program. *)

(* What carries no report, a thread that goes on without the lock.         *)
LEMMA PlainUserStepKeepsInv ==
  ASSUME ErrInv, NEW t \in UserThreads, NEW place \in Places, place # "empty",
         user' = [user EXCEPT ![t] = place],
         UNCHANGED <<routerSock, receiverSock, inHand, listVars, numSent>>
  PROVE  ErrInv'
<1>1. ErrTypes' BY DEF ErrInv, ErrTypes, listVars
<1>2. ListInv' BY DEF ErrInv, ListInv, ErrTypes, listVars
<1>3. OrderInv' BY DEF ErrInv, OrderInv, listVars
<1>4. QED BY <1>1, <1>2, <1>3 DEF ErrInv

LEMMA TakeListKeepsInv ==
  ASSUME ErrInv, NEW t \in UserThreads, TakeList(t)
  PROVE  ErrInv'
<1> USE DEF ErrInv
<1>1. /\ reportLock = Free /\ reportLock' = t /\ popped' = popped \o reports
      /\ user' = [user EXCEPT ![t] = "empty"]
      /\ UNCHANGED <<routerSock, receiverSock, inHand, reports, received, numSent>>
  BY DEF TakeList, Goes, socketVars
<1>2. popped' \in Seq(Nat) BY <1>1, ConcatProperties DEF ErrTypes
<1>3. ErrTypes' BY <1>1, <1>2 DEF ErrTypes, Places
<1>4. ListInv' BY <1>1, ReportConstants DEF ListInv, ErrTypes, ReportConstants
<1>5. OrderInv' BY <1>1 DEF OrderInv
<1>6. QED BY <1>3, <1>4, <1>5

LEMMA EmptyListKeepsInv ==
  ASSUME ErrInv, NEW t \in UserThreads, EmptyList(t)
  PROVE  ErrInv'
<1> USE DEF ErrInv
<1>1. /\ user[t] = "empty" /\ reports' = <<>> /\ reportLock' = Free
      /\ user' = [user EXCEPT ![t] = "idle"]
      /\ UNCHANGED <<routerSock, receiverSock, inHand, received, popped, numSent>>
  BY DEF EmptyList, Goes, socketVars
<1>2. ErrTypes' BY <1>1, EmptySeq DEF ErrTypes, Places
<1>3. reportLock = t /\ received = popped BY <1>1, ReportConstants DEF ListInv, ReportConstants
<1>4. popped \o <<>> = popped BY ConcatEmptySeq DEF ErrTypes
<1>5. ListInv' BY <1>1, <1>3, <1>4 DEF ListInv, ErrTypes
<1>6. OrderInv' BY <1>1 DEF OrderInv
<1>7. QED BY <1>2, <1>5, <1>6

(* A packet that ends a thread has no report in it.                        *)
LEMMA StopIsSent ==
  ASSUME NEW sock \in Seq(ErrPackets), InOrder(sock)
  PROVE  /\ Append(sock, Stop) \in Seq(ErrPackets) /\ InOrder(Append(sock, Stop))
         /\ NumbersIn(Append(sock, Stop)) = NumbersIn(sock)
<1>1. Below(NumbersIn(sock), Numbers(Stop)) BY StopIsPacket DEF Below
<1>2. QED BY <1>1, StopIsPacket, SentPacket

LEMMA StopKeepsInv ==
  ASSUME ErrInv, NEW t \in UserThreads, StopReceiver(t) \/ StopRouter(t)
  PROVE  ErrInv'
<1> USE DEF ErrInv
<1>1. /\ receiverSock' \in {receiverSock, Append(receiverSock, Stop)}
      /\ routerSock' \in {routerSock, Append(routerSock, Stop)}
      /\ \E place \in {"join_receiver", "join_router"} : user' = [user EXCEPT ![t] = place]
      /\ UNCHANGED <<inHand, listVars, numSent>>
  BY DEF StopReceiver, StopRouter, Goes
<1>2. /\ receiverSock' \in Seq(ErrPackets) /\ InOrder(receiverSock')
      /\ NumbersIn(receiverSock') = NumbersIn(receiverSock)
  BY <1>1, StopIsSent DEF ErrTypes, OrderInv
<1>3. /\ routerSock' \in Seq(ErrPackets) /\ InOrder(routerSock')
      /\ NumbersIn(routerSock') = NumbersIn(routerSock)
  BY <1>1, StopIsSent DEF ErrTypes, OrderInv
<1>4. ErrTypes' BY <1>1, <1>2, <1>3 DEF ErrTypes, Places, listVars
<1>5. ListInv' BY <1>1 DEF ListInv, ErrTypes, listVars
<1>6. OrderInv'
  <2>1. UNCHANGED <<received, inHand, numSent>> BY <1>1 DEF listVars
  <2>2. QED BY <1>2, <1>3, <2>1 DEF OrderInv
<1>7. QED BY <1>4, <1>5, <1>6

-----------------------------------------------------------------------------
LEMMA StepsKeepInv == ErrInv /\ [ReportNext]_reportVars => ErrInv'
<1> SUFFICES ASSUME ErrInv, [ReportNext]_reportVars PROVE ErrInv' OBVIOUS
<1>1. CASE UNCHANGED reportVars
  BY <1>1 DEF ErrInv, ErrTypes, ListInv, OrderInv, reportVars, socketVars, listVars
<1>2. CASE SendReports BY <1>2, SendReportsKeepsInv
<1>3. CASE Route BY <1>3, RouteKeepsInv
<1>4. CASE Receive BY <1>4, ReceiveKeepsInv
<1>5. CASE KeepReports BY <1>5, KeepReportsKeepsInv
<1>6. ASSUME NEW t \in UserThreads, NEW method \in {"pop", "initialize", "close"}, Use(t, method)
      PROVE  ErrInv'
  <2>1. /\ method \in Places /\ method # "empty" /\ user' = [user EXCEPT ![t] = method]
        /\ UNCHANGED <<routerSock, receiverSock, inHand, listVars, numSent>>
    BY <1>6 DEF Use, Goes, Places, socketVars
  <2>2. QED BY <2>1, PlainUserStepKeepsInv
<1>7. ASSUME NEW t \in UserThreads, UserStep(t)
      PROVE  ErrInv'
  <2>1. CASE TakeList(t) BY <2>1, TakeListKeepsInv
  <2>2. CASE EmptyList(t) BY <2>2, EmptyListKeepsInv
  <2>3. CASE StopReceiver(t) \/ StopRouter(t) BY <2>3, StopKeepsInv
  <2>4. CASE CreateReceiver(t) \/ AddEntry(t) \/ StartReceiver(t) \/ NothingToPop(t) \/ Closed(t)
    <3>1. /\ \E place \in {"add_entry", "start", "idle", "closed"} : user' = [user EXCEPT ![t] = place]
          /\ UNCHANGED <<routerSock, receiverSock, inHand, listVars, numSent>>
      BY <2>4 DEF CreateReceiver, AddEntry, StartReceiver, NothingToPop, Closed, Goes, socketVars
    <3>2. PICK place \in {"add_entry", "start", "idle", "closed"} : user' = [user EXCEPT ![t] = place]
      BY <3>1
    <3>3. place \in Places /\ place # "empty" BY DEF Places
    <3>4. QED BY <3>1, <3>2, <3>3, PlainUserStepKeepsInv
  <2>5. QED BY <1>7, <2>1, <2>2, <2>3, <2>4 DEF UserStep
<1>8. QED
  <2>1. Owner \in UserThreads BY ReportConstants DEF ReportConstants
  <2>2. QED BY <1>1, <1>2, <1>3, <1>4, <1>5, <1>6, <1>7, <2>1 DEF ReportNext

(* For every number of threads of the program, every split into packets    *)
(* and every loss: the receiver's list and what was popped are together    *)
(* what the receiver has read, in the order of sending (udpaccess.py:      *)
(* CmdErrReceiver.run, pop_err_reports).                                   *)
THEOREM ReportsKeptOnce == ReportSpec => []ReportsOnce
<1>1. ErrInv => ReportsOnce
  <2> SUFFICES ASSUME ErrInv PROVE ReportsOnce OBVIOUS
  <2>1. reportLock = Free => received = popped \o reports BY DEF ErrInv, ListInv
  <2>2. DOMAIN received = 1 .. Len(received) BY LenProperties DEF ErrInv, ErrTypes
  <2>3. \A i, j \in 1 .. Len(received) : i < j => received[i] < received[j]
    BY DEF ErrInv, OrderInv, Rising
  <2>4. QED BY <2>1, <2>2, <2>3, Zenon DEF ReportsOnce
<1>2. QED BY <1>1, ReportsStart, StepsKeepInv, PTL DEF ReportSpec

=============================================================================
