---------------------------- MODULE ErrReports ----------------------------
(***************************************************************************)
(* How a SequencerCtrl receives what the sequencer sends (udpaccess.py:    *)
(* UdpRouter, CmdErrReceiver).  One thread, the router, reads the socket   *)
(* that the sequencer sends to, and passes each packet on to the socket    *)
(* its table has for the kind; a second one, the receiver, reads the error *)
(* reports from its socket into a list that pop_cmd_err_reports empties.   *)
(* close ends either thread by a packet to its own socket.                 *)
(*                                                                         *)
(* Replies go the same way (Sequencer.tla); here the packets are of error  *)
(* reports, each a list of numbers, in the order of sending.  A report of  *)
(* a command that the receiver does not know is Unknown.                   *)
(***************************************************************************)
EXTENDS Naturals, Sequences, SequencesExt

CONSTANTS
  UserThreads,  \* threads of the program that use the controller
  Owner,        \* the one that initializes and closes it
  PacketSizes,  \* how many reports come in a packet
  Unknown,      \* a report that the receiver cannot read
  Free,         \* nobody has the lock
  MAX_REPORTS,  \* bound: reports sent
  MAX_USES      \* bound: calls in a behaviour

ASSUME ReportConstants ==
  /\ Owner \in UserThreads /\ Unknown \notin Nat /\ Free \notin UserThreads
  /\ PacketSizes \subseteq Nat \ {0} /\ MAX_REPORTS \in Nat /\ MAX_USES \in Nat

VARIABLES
  router,      \* the router thread: "running" or "ended"
  routerSock,  \* packets in its socket
  routed,      \* its table has an entry for error reports
  receiver,    \* the receiver: "none", "new", "running", "ended" or "died"
  receiverSock,
  inHand,      \* the packet it has read and not yet put into the list, or <<>>
  reportLock,  \* who has the lock of the list, or Free
  reports,     \* the list
  user,        \* where each thread of the program is, or "idle"
  numSent, numUses,
  \* history, for the properties only
  received,    \* reports the receiver has put into the list
  popped,      \* reports that were returned, or thrown away by initialize
  stopLost     \* a packet that ends a thread was lost

socketVars == <<router, routerSock, routed, receiver, receiverSock, inHand>>
listVars == <<reportLock, reports, received, popped>>
reportVars == <<socketVars, listVars, user, numSent, numUses, stopLost>>

\* A packet of another kind: it ends the thread that reads it.
Stop == <<>>

Running == receiver \in {"new", "running"}

-----------------------------------------------------------------------------
\* The sequencer sends a packet of reports; it may be lost.
SendReports ==
  /\ \E n \in PacketSizes, bad \in BOOLEAN :
       /\ numSent + n <= MAX_REPORTS
       /\ numSent' = numSent + n
       /\ LET numbers == [i \in 1 .. n |-> numSent + i]
              packet == IF bad THEN [numbers EXCEPT ![n] = Unknown] ELSE numbers
          IN  routerSock' \in {routerSock, Append(routerSock, packet)}
  /\ UNCHANGED <<router, routed, receiver, receiverSock, inHand, listVars, user, numUses, stopLost>>

\* A packet to the receiver; its socket is there until close.
ToReceiver(packet) ==
  receiverSock' = IF receiver \in {"none", "ended"} THEN receiverSock
                  ELSE Append(receiverSock, packet)

\* Mutant: the table is looked up before the kind that ends the thread.
RouteLookupFirst ==
  /\ router = "running" /\ routerSock # <<>>
  /\ routerSock' = Tail(routerSock)
  /\ IF routed /\ Head(routerSock) # Stop THEN ToReceiver(Head(routerSock)) ELSE UNCHANGED receiverSock
  /\ UNCHANGED <<router, routed, receiver, inHand, listVars, user, numSent, numUses, stopLost>>

\* UdpRouter.run: what the table does not know is dropped.
Route ==
  /\ router = "running" /\ routerSock # <<>>
  /\ routerSock' = Tail(routerSock)
  /\ IF Head(routerSock) = Stop
     THEN router' = "ended" /\ UNCHANGED receiverSock
     ELSE /\ IF routed THEN ToReceiver(Head(routerSock)) ELSE UNCHANGED receiverSock
          /\ UNCHANGED router
  /\ UNCHANGED <<routed, receiver, inHand, listVars, user, numSent, numUses, stopLost>>

\* CmdErrReceiver.run: recvfrom ...
Receive ==
  /\ receiver = "running" /\ inHand = <<>> /\ receiverSock # <<>>
  /\ receiverSock' = Tail(receiverSock)
  /\ IF Head(receiverSock) = Stop
     THEN receiver' = "ended" /\ UNCHANGED inHand
     ELSE inHand' = Head(receiverSock) /\ UNCHANGED receiver
  /\ UNCHANGED <<router, routerSock, routed, listVars, user, numSent, numUses, stopLost>>

\* ... and, under the lock, the reports one after the other: an unknown one
\* raises, after those before it are in the list, and the thread is over.
KeepReports ==
  LET bad == Last(inHand) = Unknown
      good == IF bad THEN Front(inHand) ELSE inHand
  IN  /\ inHand # <<>> /\ reportLock = Free
      /\ reports' = reports \o good
      /\ received' = received \o good
      /\ inHand' = <<>>
      /\ receiver' = IF bad THEN "died" ELSE receiver
      /\ UNCHANGED <<router, routerSock, routed, receiverSock, reportLock, popped, user, numSent, numUses, stopLost>>

-----------------------------------------------------------------------------
\* A thread of the program goes from one place in a method to the next.
Goes(t, from, to) == user[t] = from /\ user' = [user EXCEPT ![t] = to]

Use(t, method) ==
  /\ numUses < MAX_USES /\ numUses' = numUses + 1
  /\ Goes(t, "idle", method)
  /\ UNCHANGED <<socketVars, listVars, numSent, stopLost>>

\* initialize, after it has reset the sequencer: the receiver, its entry in
\* the table of the router, its start; or only the old reports thrown away.
CreateReceiver(t) ==
  /\ receiver = "none" /\ receiver' = "new"
  /\ Goes(t, "initialize", "add_entry")
  /\ UNCHANGED <<router, routerSock, routed, receiverSock, inHand, listVars, numSent, numUses, stopLost>>

AddEntry(t) ==
  /\ routed' = TRUE
  /\ Goes(t, "add_entry", "start")
  /\ UNCHANGED <<router, routerSock, receiver, receiverSock, inHand, listVars, numSent, numUses, stopLost>>

StartReceiver(t) ==
  /\ receiver' = "running"
  /\ Goes(t, "start", "idle")
  /\ UNCHANGED <<router, routerSock, routed, receiverSock, inHand, listVars, numSent, numUses, stopLost>>

\* pop_cmd_err_reports, and initialize again: the list is taken ...
\* Mutant: without the lock.
TakeListUnlocked(t) ==
  /\ receiver # "none"
  /\ popped' = popped \o reports
  /\ Goes(t, "pop", "empty") \/ Goes(t, "initialize", "empty")
  /\ UNCHANGED <<socketVars, reports, received, reportLock, numSent, numUses, stopLost>>

TakeList(t) ==
  /\ receiver # "none"
  /\ reportLock = Free /\ reportLock' = t
  /\ popped' = popped \o reports
  /\ Goes(t, "pop", "empty") \/ Goes(t, "initialize", "empty")
  /\ UNCHANGED <<socketVars, reports, received, numSent, numUses, stopLost>>

\* ... and replaced by an empty one.
EmptyList(t) ==
  /\ Goes(t, "empty", "idle")
  /\ reports' = <<>>
  /\ reportLock' = Free
  /\ UNCHANGED <<socketVars, received, popped, numSent, numUses, stopLost>>

NothingToPop(t) ==
  /\ receiver = "none"
  /\ Goes(t, "pop", "idle")
  /\ UNCHANGED <<socketVars, listVars, numSent, numUses, stopLost>>

\* close: a thread that is alive gets its packet, and is joined.
StopReceiver(t) ==
  /\ Goes(t, "close", "join_receiver")
  /\ \/ /\ ~Running
        /\ UNCHANGED <<receiverSock, stopLost>>
     \/ /\ Running
        /\ \/ receiverSock' = Append(receiverSock, Stop) /\ UNCHANGED stopLost
           \/ stopLost' = TRUE /\ UNCHANGED receiverSock
  /\ UNCHANGED <<router, routerSock, routed, receiver, inHand, listVars, numSent, numUses>>

StopRouter(t) ==
  /\ ~Running
  /\ Goes(t, "join_receiver", "join_router")
  /\ \/ routerSock' = Append(routerSock, Stop) /\ UNCHANGED stopLost
     \/ stopLost' = TRUE /\ UNCHANGED routerSock
  /\ UNCHANGED <<router, routed, receiver, receiverSock, inHand, listVars, numSent, numUses>>

Closed(t) ==
  /\ router = "ended"
  /\ Goes(t, "join_router", "closed")
  /\ UNCHANGED <<socketVars, listVars, numSent, numUses, stopLost>>

-----------------------------------------------------------------------------
ReportInit ==
  /\ router = "running" /\ routerSock = <<>> /\ routed = FALSE
  /\ receiver = "none" /\ receiverSock = <<>> /\ inHand = <<>>
  /\ reportLock = Free /\ reports = <<>> /\ received = <<>> /\ popped = <<>>
  /\ user = [t \in UserThreads |-> "idle"]
  /\ numSent = 0 /\ numUses = 0 /\ stopLost = FALSE

UserStep(t) ==
  \/ CreateReceiver(t) \/ AddEntry(t) \/ StartReceiver(t)
  \/ TakeList(t) \/ EmptyList(t) \/ NothingToPop(t)
  \/ StopReceiver(t) \/ StopRouter(t) \/ Closed(t)

ReportNext ==
  \/ SendReports \/ Route \/ Receive \/ KeepReports
  \/ \E t \in UserThreads : Use(t, "pop") \/ UserStep(t)
  \/ Use(Owner, "initialize") \/ Use(Owner, "close")

\* Every thread goes on when it can.
ReportFairness ==
  /\ WF_reportVars(Route) /\ WF_reportVars(Receive) /\ WF_reportVars(KeepReports)
  /\ \A t \in UserThreads : WF_reportVars(UserStep(t))

ReportSpec == ReportInit /\ [][ReportNext]_reportVars /\ ReportFairness

-----------------------------------------------------------------------------
\* No report that the receiver has read is lost between its list and the
\* threads that pop it, none is returned twice, and they come in the order in
\* which they were sent.
ReportsOnce ==
  /\ reportLock = Free => received = popped \o reports
  /\ \A i, j \in DOMAIN received : i < j => received[i] < received[j]

\* close ends, whatever the two threads are doing, or have died of, unless the
\* packet that is to end one of them is lost.
CloseEnds == user[Owner] = "close" ~> user[Owner] = "closed" \/ stopLost

=============================================================================
