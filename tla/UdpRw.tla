------------------------------- MODULE UdpRw -------------------------------
(***************************************************************************)
(* e7awgsw/udpaccess.py: UdpRw, one request and one reply per register     *)
(* access, over UDP; with the loop of emulator/upldispatcher.py that       *)
(* serves them.  Packets take any time, overtake each other, and get lost. *)
(* A reply carries the address and the size of its request and nothing     *)
(* that tells it from the reply to an earlier one.                         *)
(*                                                                         *)
(* Accesses here are of one register, so every request and reply has the   *)
(* same size; how longer ones are split, and those that are not aligned    *)
(* widened, is another matter.                                             *)
(***************************************************************************)
EXTENDS Naturals, Sequences

CONSTANTS
  Clients,   (* threads that access registers                              *)
  Sockets,   (* UdpRw objects, each with a UDP socket of its own           *)
  SocketOf,  (* the one each client uses                                   *)
  Addrs, Values, Zero,
  MaxCalls   (* bound: accesses in a behaviour                             *)

ASSUME UdpRwAssumption ==
  /\ SocketOf \in [Clients -> Sockets]
  /\ Zero \in Values
  /\ MaxCalls \in Nat

VARIABLES
  mem,       (* the registers, in the device                               *)
  requests,  (* request packets under way                                  *)
  replies,   (* reply packets under way                                    *)
  buffer,    (* replies that each socket has received, oldest first        *)
  call,      (* the access each client waits for, or Idle                  *)
  result,    (* what its last call returned                                *)
  sent,      (* number of calls so far                                     *)
  (* history, for the properties only *)
  current,   (* number of the client's call                                *)
  answer,    (* what the device made of it: {} before that, then one value *)
  raised     (* has a call of the client ended by an exception?            *)

packets == <<requests, replies, buffer>>
vars == <<mem, packets, call, result, sent, current, answer, raised>>

Accesses == [kind : {"read", "write"}, addr : Addrs, val : Values]

Idle == [kind |-> "idle"]

Waiting(c) == call[c] # Idle

Buffer(c) == buffer[SocketOf[c]]

Init ==
  /\ mem = [a \in Addrs |-> Zero]
  /\ requests = {} /\ replies = {}
  /\ buffer = [s \in Sockets |-> <<>>]
  /\ call = [c \in Clients |-> Idle]
  /\ result = [c \in Clients |-> Zero]
  /\ sent = 0
  /\ current = [c \in Clients |-> 0]
  /\ answer = [c \in Clients |-> {}]
  /\ raised = [c \in Clients |-> FALSE]

-----------------------------------------------------------------------------
(* read and write send the request, and wait in recvfrom. *)
Call(c) ==
  /\ ~Waiting(c)
  /\ sent < MaxCalls
  /\ sent' = sent + 1
  /\ \E x \in Accesses :
       /\ call' = [call EXCEPT ![c] = x]
       /\ requests' = requests \cup {[id |-> sent', from |-> c, access |-> x]}
  /\ current' = [current EXCEPT ![c] = sent']
  /\ UNCHANGED <<mem, replies, buffer, result, answer, raised>>

(* The device takes one request, does what it says, and replies.  A write  *)
(* is acknowledged by a packet without payload: read as a value it is 0.   *)
Yield(x) == IF x.kind = "read" THEN mem[x.addr] ELSE Zero

(* Mutant: the acknowledgement is sent before the write is done, by a      *)
(* thread that may lose it.                                                *)
ServeUnwritten(r) ==
  LET x == r.access IN
  /\ r \in requests
  /\ requests' = requests \ {r}
  /\ replies' = replies \cup
       {[id |-> r.id, to |-> SocketOf[r.from], addr |-> x.addr, val |-> Yield(x)]}
  /\ answer' = [answer EXCEPT ![r.from] =
       IF Waiting(r.from) /\ current[r.from] = r.id THEN {Yield(x)} ELSE @]
  /\ UNCHANGED <<mem, buffer, call, result, sent, current, raised>>

Serve(r) ==
  LET x == r.access IN
  /\ r \in requests
  /\ requests' = requests \ {r}
  /\ mem' = IF x.kind = "write" THEN [mem EXCEPT ![x.addr] = x.val] ELSE mem
  /\ replies' = replies \cup
       {[id |-> r.id, to |-> SocketOf[r.from], addr |-> x.addr, val |-> Yield(x)]}
  /\ answer' = [answer EXCEPT ![r.from] =
       IF Waiting(r.from) /\ current[r.from] = r.id THEN {Yield(x)} ELSE @]
  /\ UNCHANGED <<buffer, call, result, sent, current, raised>>

(* The reply reaches the socket, whether anyone is waiting there or not. *)
Deliver(p) ==
  /\ p \in replies
  /\ replies' = replies \ {p}
  /\ buffer' = [buffer EXCEPT ![p.to] = Append(@, p)]
  /\ UNCHANGED <<mem, requests, call, result, sent, current, answer, raised>>

LoseRequest(r) ==
  /\ r \in requests
  /\ requests' = requests \ {r}
  /\ UNCHANGED <<mem, replies, buffer, call, result, sent, current, answer, raised>>

LoseReply(p) ==
  /\ p \in replies
  /\ replies' = replies \ {p}
  /\ UNCHANGED <<mem, requests, buffer, call, result, sent, current, answer, raised>>

-----------------------------------------------------------------------------
Finish(c) ==
  /\ call' = [call EXCEPT ![c] = Idle]
  /\ answer' = [answer EXCEPT ![c] = {}]
  /\ UNCHANGED <<mem, requests, replies, sent, current>>

TakeReply(c) ==
  /\ Waiting(c)
  /\ Buffer(c) # <<>>
  /\ buffer' = [buffer EXCEPT ![SocketOf[c]] = Tail(@)]
  /\ Finish(c)

(* The oldest reply in the socket is taken.  If its address (and size) are *)
(* those of the request it is the answer, whatever the mode: __recv_data   *)
(* returns its payload, __send_data returns.  If not, ValueError.          *)
Matches(c) == Head(Buffer(c)).addr = call[c].addr

Receive(c) ==
  /\ TakeReply(c)
  /\ result' = [result EXCEPT ![c] =
       IF ~Matches(c) THEN @
       ELSE IF call[c].kind = "read" THEN Head(Buffer(c)).val ELSE Zero]
  /\ raised' = [raised EXCEPT ![c] = ~Matches(c)]

(* Mutant: the socket has no timeout. *)
TimeOutNever(c) == FALSE

(* Nothing came for TIMEOUT seconds: socket.timeout. *)
TimeOut(c) ==
  /\ Waiting(c)
  /\ Buffer(c) = <<>>
  /\ Finish(c)
  /\ raised' = [raised EXCEPT ![c] = TRUE]
  /\ UNCHANGED <<buffer, result>>

-----------------------------------------------------------------------------
Network ==
  \/ \E r \in requests : Serve(r) \/ LoseRequest(r)
  \/ \E p \in replies : Deliver(p) \/ LoseReply(p)

(* Clients that give the object up after an exception. *)
CarefulNext ==
  \/ \E c \in Clients : (~raised[c] /\ Call(c)) \/ Receive(c) \/ TimeOut(c)
  \/ Network

CarefulSpec == Init /\ [][CarefulNext]_vars

(* A call that has a reply to take takes it; one that has none times out.  *)
Fairness == \A c \in Clients : WF_vars(Receive(c) \/ TimeOut(c))

FairSpec == CarefulSpec /\ Fairness

-----------------------------------------------------------------------------
Requests == [id : Nat, from : Clients, access : Accesses]
Replies == [id : Nat, to : Sockets, addr : Addrs, val : Values]

(* Every variable has its type; packets have the numbers of calls made. *)
TypeOK ==
  /\ mem \in [Addrs -> Values]
  /\ requests \subseteq Requests /\ replies \subseteq Replies
  /\ buffer \in [Sockets -> Seq(Replies)]
  /\ call \in [Clients -> Accesses \cup {Idle}]
  /\ result \in [Clients -> Values]
  /\ sent \in 0..MaxCalls
  /\ current \in [Clients -> 0..MaxCalls]
  /\ answer \in [Clients -> SUBSET Values]
  /\ raised \in [Clients -> BOOLEAN]

(* The request r is that of the call its client is in. *)
Live(r) == Waiting(r.from) /\ current[r.from] = r.id

(* Requests of calls that have ended are accesses that may still happen. *)
Late(c) == {r.access : r \in {q \in requests : q.from = c /\ ~Live(q)}}

lateBar == [c \in Clients |-> Late(c)]

(* A client that is alone on its socket and gives it up after an exception *)
(* has registers: each access it asks for happens once, between the call   *)
(* and the return, or perhaps later when the call ends by the exception.   *)
Abstract == INSTANCE Register WITH late <- lateBar

ImplementsRegister == Abstract!Spec

(* Every call ends, with an answer or an exception, whatever the network   *)
(* loses.                                                                  *)
CallsEnd == \A c \in Clients : Waiting(c) ~> ~Waiting(c)
=============================================================================
