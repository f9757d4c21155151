---------------------------- MODULE UdpRwProofs ----------------------------
(***************************************************************************)
(* For any number of clients, registers, values and calls: a client that   *)
(* is alone on its socket, and gives it up after an exception, has         *)
(* registers whose accesses happen between the call and the return.        *)
(***************************************************************************)
EXTENDS UdpRw, SequenceTheorems, TLAPS

OwnSockets == \A c, d \in Clients : SocketOf[c] = SocketOf[d] => c = d

(* A client that has not given its socket up has at most one packet under  *)
(* way: the request of its call, which has not happened yet, or the reply, *)
(* which has the answer.                                                   *)
RequestsInv ==
  /\ \A r \in requests : r.id <= sent
  /\ \A r, q \in requests : r.from = q.from => r = q
  /\ \A r \in requests : ~raised[r.from] => Live(r)
  /\ \A r \in requests : Live(r) => r.access = call[r.from] /\ answer[r.from] = {}

Answers(p, c) ==
  Waiting(c) /\ answer[c] = {p.val} /\ p.addr = call[c].addr /\ p.id = current[c]

RepliesTo(c) ==
  /\ \A p \in replies : p.to = SocketOf[c] => Answers(p, c) /\ Buffer(c) = <<>>
  /\ \A p, q \in replies : p.to = SocketOf[c] /\ q.to = SocketOf[c] => p = q
  /\ Buffer(c) # <<>> => Len(Buffer(c)) = 1 /\ Answers(Head(Buffer(c)), c)

RepliesInv == \A c \in Clients : ~raised[c] => RepliesTo(c)

CallsInv ==
  \A c \in Clients :
    /\ raised[c] => ~Waiting(c)
    /\ ~Waiting(c) => answer[c] = {}
    /\ answer[c] # {} => \E v \in Values : answer[c] = {v}
    /\ call[c].kind = "write" => answer[c] \subseteq {Zero}

Inv == TypeOK /\ RequestsInv /\ RepliesInv /\ CallsInv

-----------------------------------------------------------------------------
(* The initial state. *)
LEMMA InitInv == Init => Inv
<1> SUFFICES ASSUME Init PROVE Inv OBVIOUS
<1> USE UdpRwAssumption DEF UdpRwAssumption, Init
<1>1. TypeOK BY DEF TypeOK
<1>2. RequestsInv BY DEF RequestsInv
<1>3. RepliesInv BY DEF RepliesInv, RepliesTo, Buffer
<1>4. CallsInv BY DEF CallsInv, Waiting, Idle
<1>5. QED BY <1>1, <1>2, <1>3, <1>4 DEF Inv

(* What a client waits for is an access. *)
LEMMA WaitingAccess ==
  ASSUME TypeOK, NEW c \in Clients, Waiting(c)
  PROVE  call[c] \in Accesses
BY DEF TypeOK, Waiting

(* A careful client that calls has no packet under way. *)
LEMMA CallKeepsInv ==
  ASSUME Inv, NEW c \in Clients, ~raised[c], Call(c)
  PROVE  Inv'
<1> USE DEF Inv
<1>1. PICK x \in Accesses :
        /\ call' = [call EXCEPT ![c] = x]
        /\ requests' = requests \cup {[id |-> sent', from |-> c, access |-> x]}
  BY DEF Call
<1> DEFINE r == [id |-> sent', from |-> c, access |-> x]
<1>2. /\ ~Waiting(c) /\ sent < MaxCalls /\ sent' = sent + 1
      /\ current' = [current EXCEPT ![c] = sent']
      /\ UNCHANGED <<mem, replies, buffer, result, answer, raised>>
  BY DEF Call
<1>3. sent' \in 0..MaxCalls /\ sent \in Nat /\ sent' \in Nat
  BY <1>2, UdpRwAssumption DEF TypeOK, UdpRwAssumption
<1>4. TypeOK'
  <2>1. r \in Requests BY <1>3 DEF Requests
  <2>2. QED BY <1>1, <1>2, <1>3, <2>1 DEF TypeOK
<1>5. x # Idle /\ x.kind \in {"read", "write"} BY DEF Accesses, Idle
<1>6. /\ Waiting(c)' /\ call'[c] = x /\ current'[c] = sent'
      /\ \A d \in Clients : d # c => /\ Waiting(d)' <=> Waiting(d)
                                    /\ call'[d] = call[d] /\ current'[d] = current[d]
  BY <1>1, <1>2, <1>5 DEF TypeOK, Waiting
<1>7. answer[c] = {} BY <1>2 DEF CallsInv
<1>8. \A q \in requests : q.from # c /\ q.from \in Clients
  <2>1. \A q \in requests : q.from \in Clients BY DEF TypeOK, Requests
  <2>2. QED BY <1>2, <2>1 DEF RequestsInv, Live
<1>9. RequestsInv'
  <2>1. \A q \in requests' : q.id <= sent'
    <3>1. \A q \in requests : q.id \in Nat BY DEF TypeOK, Requests
    <3>2. QED BY <1>1, <1>2, <1>3, <3>1 DEF RequestsInv
  <2>2. \A q, s \in requests' : q.from = s.from => q = s BY <1>1, <1>8 DEF RequestsInv
  <2>3. \A q \in requests' : ~raised'[q.from] => Live(q)'
    BY <1>1, <1>2, <1>6, <1>8 DEF RequestsInv, Live
  <2>4. \A q \in requests' : Live(q)' => q.access = call'[q.from] /\ answer'[q.from] = {}
    BY <1>1, <1>2, <1>6, <1>7, <1>8 DEF RequestsInv, Live
  <2>5. QED BY <2>1, <2>2, <2>3, <2>4 DEF RequestsInv
<1>10. RepliesInv'
  <2>1. ASSUME NEW d \in Clients, ~raised[d], d # c PROVE RepliesTo(d)'
    BY <1>2, <1>6, <2>1 DEF RepliesInv, RepliesTo, Answers, Buffer
  <2>2. \A p \in replies : p.to # SocketOf[c] BY <1>2 DEF RepliesInv, RepliesTo, Answers
  <2>3. Buffer(c) = <<>> BY <1>2 DEF RepliesInv, RepliesTo, Answers
  <2>4. RepliesTo(c)' BY <1>2, <2>2, <2>3 DEF RepliesTo, Buffer
  <2>5. QED BY <1>2, <2>1, <2>4 DEF RepliesInv
<1>11. CallsInv' BY <1>2, <1>6, <1>7 DEF CallsInv
<1>12. QED BY <1>4, <1>9, <1>10, <1>11

(* The device's answer goes to the one reply. *)
LEMMA ServeKeepsInv ==
  ASSUME Inv, OwnSockets, NEW r \in requests, Serve(r)
  PROVE  Inv'
<1> USE DEF Inv
<1> DEFINE x == r.access
           c == r.from
<1>0. PICK p : p = [id |-> r.id, to |-> SocketOf[c], addr |-> x.addr, val |-> Yield(x)]
  OBVIOUS
<1>1. /\ requests' = requests \ {r}
      /\ mem' = (IF x.kind = "write" THEN [mem EXCEPT ![x.addr] = x.val] ELSE mem)
      /\ replies' = replies \cup {p}
      /\ answer' = [answer EXCEPT ![c] = IF Live(r) THEN {Yield(x)} ELSE @]
      /\ UNCHANGED <<buffer, call, result, sent, current, raised>>
  BY <1>0 DEF Serve, Live
<1>2. r.id \in Nat /\ c \in Clients /\ x \in Accesses BY DEF TypeOK, Requests
<1>3. x.addr \in Addrs /\ x.val \in Values /\ x.kind \in {"read", "write"} BY <1>2 DEF Accesses
<1>4. Yield(x) \in Values BY <1>3, UdpRwAssumption DEF Yield, TypeOK, UdpRwAssumption
<1>5. TypeOK'
  <2>1. mem' \in [Addrs -> Values] BY <1>1, <1>3 DEF TypeOK
  <2>2. p \in Replies BY <1>0, <1>2, <1>3, <1>4, UdpRwAssumption DEF Replies, UdpRwAssumption
  <2>3. answer' \in [Clients -> SUBSET Values] BY <1>1, <1>4 DEF TypeOK
  <2>4. QED BY <1>1, <2>1, <2>2, <2>3 DEF TypeOK
<1>6. \A d \in Clients : d # c => answer'[d] = answer[d] BY <1>1 DEF TypeOK
<1>7. answer'[c] = IF Live(r) THEN {Yield(x)} ELSE answer[c] BY <1>1, <1>2 DEF TypeOK
<1>8. \A q \in requests' : q.from # c /\ q.from \in Clients BY <1>1 DEF RequestsInv, TypeOK, Requests
<1>9. RequestsInv' BY <1>1, <1>6, <1>8 DEF RequestsInv, Live, Waiting
<1>10. RepliesInv'
  <2>1. ASSUME NEW d \in Clients, ~raised[d], d # c PROVE RepliesTo(d)'
    <3>1. p.to # SocketOf[d] BY <1>0, <1>2, <2>1 DEF OwnSockets
    <3>2. QED
      BY <1>1, <1>6, <2>1, <3>1 DEF RepliesInv, RepliesTo, Answers, Buffer, Waiting
  <2>2. ASSUME ~raised[c] PROVE RepliesTo(c)'
    <3>1. Live(r) /\ x = call[c] /\ answer[c] = {} BY <2>2 DEF RequestsInv
    <3>2. \A q \in replies : q.to # SocketOf[c]
      BY <1>2, <2>2, <3>1 DEF RepliesInv, RepliesTo, Answers
    <3>3. Buffer(c) = <<>> BY <1>2, <2>2, <3>1 DEF RepliesInv, RepliesTo, Answers
    <3>4. /\ answer'[c] = {p.val} /\ p.addr = call'[c].addr /\ p.id = current'[c]
          /\ call'[c] # Idle
      BY <1>0, <1>1, <1>7, <3>1 DEF Live, Waiting
    <3>5. QED BY <1>1, <3>2, <3>3, <3>4 DEF RepliesTo, Buffer, Answers, Waiting
  <2>3. QED BY <1>1, <2>1, <2>2 DEF RepliesInv
<1>11. CallsInv'
  <2>1. Live(r) => x = call[c] BY DEF RequestsInv
  <2>2. /\ ~Waiting(c) => ~Live(r)
        /\ answer'[c] # {} => \E v \in Values : answer'[c] = {v}
        /\ call[c].kind = "write" => answer'[c] \subseteq {Zero}
    BY <1>2, <1>4, <1>7, <2>1 DEF CallsInv, Live, Yield
  <2>3. QED BY <1>1, <1>2, <1>6, <1>7, <2>2 DEF CallsInv, Waiting
<1>12. QED BY <1>5, <1>9, <1>10, <1>11

(* A packet that is lost leaves the others. *)
LEMMA LoseRequestKeepsInv ==
  ASSUME Inv, NEW r \in requests, LoseRequest(r)
  PROVE  Inv'
<1> USE DEF Inv
<1>1. requests' \subseteq requests
      /\ UNCHANGED <<mem, replies, buffer, call, result, sent, current, answer, raised>>
  BY DEF LoseRequest
<1>2. TypeOK' BY <1>1 DEF TypeOK
<1>3. RequestsInv' BY <1>1 DEF RequestsInv, Live, Waiting
<1>4. RepliesInv' BY <1>1 DEF RepliesInv, RepliesTo, Answers, Buffer, Waiting
<1>5. CallsInv' BY <1>1 DEF CallsInv, Waiting
<1>6. QED BY <1>2, <1>3, <1>4, <1>5

LEMMA LoseReplyKeepsInv ==
  ASSUME Inv, NEW p \in replies, LoseReply(p)
  PROVE  Inv'
<1> USE DEF Inv
<1>1. replies' \subseteq replies
      /\ UNCHANGED <<mem, requests, buffer, call, result, sent, current, answer, raised>>
  BY DEF LoseReply
<1>2. TypeOK' BY <1>1 DEF TypeOK
<1>3. RequestsInv' BY <1>1 DEF RequestsInv, Live, Waiting
<1>4. RepliesInv' BY <1>1 DEF RepliesInv, RepliesTo, Answers, Buffer, Waiting
<1>5. CallsInv' BY <1>1 DEF CallsInv, Waiting
<1>6. QED BY <1>2, <1>3, <1>4, <1>5

(* The reply that arrives is alone in its socket. *)
LEMMA DeliverKeepsInv ==
  ASSUME Inv, NEW p \in replies, Deliver(p)
  PROVE  Inv'
<1> USE DEF Inv
<1>1. /\ replies' = replies \ {p}
      /\ buffer' = [buffer EXCEPT ![p.to] = Append(@, p)]
      /\ UNCHANGED <<mem, requests, call, result, sent, current, answer, raised>>
  BY DEF Deliver
<1>2. p \in Replies /\ p.to \in Sockets BY DEF TypeOK, Replies
<1>3. TypeOK' BY <1>1, <1>2 DEF TypeOK
<1>4. RequestsInv' BY <1>1 DEF RequestsInv, Live, Waiting
<1>5. RepliesInv'
  <2>1. SUFFICES ASSUME NEW c \in Clients, ~raised[c] PROVE RepliesTo(c)'
    BY <1>1 DEF RepliesInv
  <2>2. RepliesTo(c) BY <2>1 DEF RepliesInv
  <2>3. SocketOf[c] \in Sockets BY UdpRwAssumption DEF UdpRwAssumption
  <2>4. CASE p.to # SocketOf[c]
    <3>1. buffer'[SocketOf[c]] = buffer[SocketOf[c]] BY <1>1, <2>3, <2>4 DEF TypeOK
    <3>2. QED BY <1>1, <2>2, <3>1 DEF RepliesTo, Answers, Buffer, Waiting
  <2>5. CASE p.to = SocketOf[c]
    <3>1. buffer[SocketOf[c]] = <<>> BY <2>2, <2>5 DEF RepliesTo, Buffer
    <3>2. buffer'[SocketOf[c]] = <<p>> BY <1>1, <2>3, <2>5, <3>1 DEF TypeOK
    <3>3. \A q \in replies' : q.to # SocketOf[c] BY <1>1, <2>2, <2>5 DEF RepliesTo
    <3>4. /\ call'[c] # Idle /\ answer'[c] = {p.val}
          /\ p.addr = call'[c].addr /\ p.id = current'[c]
      BY <1>1, <2>2, <2>5 DEF RepliesTo, Answers, Waiting
    <3>5. Len(<<p>>) = 1 /\ Head(<<p>>) = p OBVIOUS
    <3>6. QED BY <3>2, <3>3, <3>4, <3>5 DEF RepliesTo, Answers, Buffer, Waiting
  <2>6. QED BY <2>4, <2>5
<1>6. CallsInv' BY <1>1 DEF CallsInv, Waiting
<1>7. QED BY <1>3, <1>4, <1>5, <1>6

(* A call that ends leaves its request, if that is still under way, to be  *)
(* served late; then the client gives up.                                  *)
LEMMA FinishKeepsInv ==
  ASSUME Inv, OwnSockets, NEW c \in Clients, Waiting(c), Finish(c),
         raised' = [raised EXCEPT ![c] = raised'[c]], raised'[c] \in BOOLEAN,
         result' \in [Clients -> Values],
         buffer' \in [Sockets -> Seq(Replies)],
         \A s \in Sockets : s # SocketOf[c] => buffer'[s] = buffer[s],
         ~raised'[c] => /\ buffer'[SocketOf[c]] = <<>>
                        /\ \A r \in requests : r.from # c
                        /\ \A p \in replies : p.to # SocketOf[c]
  PROVE  Inv'
<1> USE DEF Inv
<1>1. /\ call' = [call EXCEPT ![c] = Idle]
      /\ answer' = [answer EXCEPT ![c] = {}]
      /\ UNCHANGED <<mem, requests, replies, sent, current>>
  BY DEF Finish
<1>2. /\ ~Waiting(c)' /\ answer'[c] = {} /\ call'[c] = Idle
      /\ \A d \in Clients : d # c => /\ Waiting(d)' <=> Waiting(d)
                                    /\ call'[d] = call[d] /\ answer'[d] = answer[d]
                                    /\ raised'[d] = raised[d]
  BY <1>1 DEF TypeOK, Waiting
<1>3. TypeOK' BY <1>1 DEF TypeOK
<1>4. RequestsInv'
  <2>1. \A r \in requests : r.from \in Clients BY DEF TypeOK, Requests
  <2>2. \A r \in requests' : ~raised'[r.from] => Live(r)'
    BY <1>1, <1>2, <2>1 DEF RequestsInv, Live
  <2>3. \A r \in requests' : Live(r)' => r.access = call'[r.from] /\ answer'[r.from] = {}
    BY <1>1, <1>2, <2>1, ZenonT(60) DEF RequestsInv, Live
  <2>4. QED BY <1>1, <2>2, <2>3 DEF RequestsInv
<1>5. RepliesInv'
  <2>1. SUFFICES ASSUME NEW d \in Clients, ~raised'[d] PROVE RepliesTo(d)' BY DEF RepliesInv
  <2>2. CASE d = c BY <1>1, <2>1, <2>2 DEF RepliesTo, Buffer
  <2>3. CASE d # c
    <3>1. SocketOf[d] # SocketOf[c] /\ SocketOf[d] \in Sockets
      BY <2>3, UdpRwAssumption DEF OwnSockets, UdpRwAssumption
    <3>2. buffer'[SocketOf[d]] = buffer[SocketOf[d]] BY <3>1
    <3>3. RepliesTo(d) BY <1>2, <2>1, <2>3 DEF RepliesInv
    <3>4. QED BY <1>1, <1>2, <2>3, <3>2, <3>3 DEF RepliesTo, Answers, Buffer
  <2>4. QED BY <2>2, <2>3
<1>6. CallsInv'
  <2>1. Idle.kind = "idle" BY DEF Idle
  <2>2. QED BY <1>2, <2>1, SMTT(30) DEF CallsInv
<1>7. QED BY <1>3, <1>4, <1>5, <1>6

(* What a careful client finds in its socket answers its call. *)
LEMMA HeadAnswers ==
  ASSUME Inv, NEW c \in Clients, TakeReply(c)
  PROVE  /\ ~raised[c] /\ RepliesTo(c)
         /\ Len(Buffer(c)) = 1 /\ Tail(Buffer(c)) = <<>>
         /\ Answers(Head(Buffer(c)), c)
<1> USE DEF Inv
<1>1. ~raised[c] BY DEF TakeReply, CallsInv
<1>2. RepliesTo(c) BY <1>1 DEF RepliesInv
<1>3. Len(Buffer(c)) = 1 /\ Answers(Head(Buffer(c)), c) BY <1>2 DEF TakeReply, RepliesTo
<1>4. Buffer(c) \in Seq(Replies) BY UdpRwAssumption DEF TypeOK, Buffer, UdpRwAssumption
<1>5. \A s \in Seq(Replies) : Len(s) = 1 => Tail(s) = <<>>
  <2> SUFFICES ASSUME NEW s \in Seq(Replies), Len(s) = 1 PROVE Tail(s) = <<>> OBVIOUS
  <2>1. s # <<>> BY EmptySeq
  <2>2. Tail(s) \in Seq(Replies) /\ Len(Tail(s)) = 0 BY <2>1, HeadTailProperties
  <2>3. QED BY <2>2, EmptySeq
<1>6. Tail(Buffer(c)) = <<>> BY <1>3, <1>4, <1>5
<1>7. QED BY <1>1, <1>2, <1>3, <1>6

LEMMA TakeReplyKeepsInv ==
  ASSUME Inv, OwnSockets, NEW c \in Clients, TakeReply(c),
         UNCHANGED raised, result' \in [Clients -> Values]
  PROVE  Inv'
<1> USE DEF Inv
<1>1. /\ ~raised[c] /\ RepliesTo(c) /\ Answers(Head(Buffer(c)), c)
      /\ Tail(Buffer(c)) = <<>>
  BY HeadAnswers
<1>2. /\ Waiting(c) /\ Finish(c)
      /\ buffer' = [buffer EXCEPT ![SocketOf[c]] = Tail(Buffer(c))]
  BY DEF TakeReply, Buffer
<1>3. raised' = [raised EXCEPT ![c] = raised'[c]] /\ raised'[c] \in BOOLEAN BY DEF TypeOK
<1>4. SocketOf[c] \in Sockets BY UdpRwAssumption DEF UdpRwAssumption
<1>5. /\ buffer' \in [Sockets -> Seq(Replies)] /\ buffer'[SocketOf[c]] = <<>>
      /\ \A s \in Sockets : s # SocketOf[c] => buffer'[s] = buffer[s]
  <2>1. buffer' = [buffer EXCEPT ![SocketOf[c]] = <<>>] BY <1>1, <1>2
  <2>2. buffer \in [Sockets -> Seq(Replies)] BY DEF TypeOK
  <2>3. QED BY <1>4, <2>1, <2>2
<1>6. \A r \in requests : r.from # c
  BY <1>1 DEF RequestsInv, Answers
<1>7. \A p \in replies : p.to # SocketOf[c] BY <1>1 DEF RepliesTo, TakeReply
<1>8. QED BY <1>2, <1>3, <1>5, <1>6, <1>7, FinishKeepsInv

LEMMA TimeOutKeepsInv ==
  ASSUME Inv, OwnSockets, NEW c \in Clients, TimeOut(c)
  PROVE  Inv'
<1> USE DEF Inv
<1>1. Waiting(c) /\ Finish(c) /\ raised' = [raised EXCEPT ![c] = TRUE]
      /\ UNCHANGED <<buffer, result>>
  BY DEF TimeOut
<1>2. raised'[c] = TRUE BY <1>1 DEF TypeOK
<1>3. result' \in [Clients -> Values] /\ buffer' \in [Sockets -> Seq(Replies)]
  BY <1>1 DEF TypeOK
<1>4. raised' = [raised EXCEPT ![c] = raised'[c]] /\ raised'[c] \in BOOLEAN
  BY <1>1, <1>2
<1>5. QED BY <1>1, <1>2, <1>3, <1>4, FinishKeepsInv

(* A careful client never finds a reply that it must reject. *)
LEMMA ReceiveResult ==
  ASSUME Inv, NEW c \in Clients, Receive(c)
  PROVE  /\ TakeReply(c) /\ UNCHANGED raised
         /\ answer[c] # {}
         /\ \E v \in answer[c] : result' = [result EXCEPT ![c] = v]
         /\ result' \in [Clients -> Values]
<1> USE DEF Inv
<1>1. /\ TakeReply(c)
      /\ result' = [result EXCEPT ![c] =
           IF ~Matches(c) THEN @
           ELSE IF call[c].kind = "read" THEN Head(Buffer(c)).val ELSE Zero]
      /\ raised' = [raised EXCEPT ![c] = ~Matches(c)]
  BY DEF Receive
<1>2. answer[c] = {Head(Buffer(c)).val} /\ Matches(c) /\ ~raised[c]
  BY <1>1, HeadAnswers DEF Answers, Matches
<1>3. UNCHANGED raised
  <2>1. raised[c] = FALSE BY <1>2 DEF TypeOK
  <2>2. raised' = [raised EXCEPT ![c] = FALSE] BY <1>1, <1>2
  <2>3. QED BY <2>1, <2>2 DEF TypeOK
<1>4. call[c].kind = "read" \/ call[c].kind = "write"
  BY <1>1, WaitingAccess DEF TakeReply, Accesses
<1>5. call[c].kind = "write" => Head(Buffer(c)).val = Zero BY <1>2 DEF CallsInv
<1>6. result' = [result EXCEPT ![c] = Head(Buffer(c)).val] BY <1>1, <1>2, <1>4, <1>5
<1>7. Head(Buffer(c)).val \in Values BY <1>2 DEF TypeOK
<1>8. QED BY <1>1, <1>2, <1>3, <1>6, <1>7 DEF TypeOK

LEMMA NextKeepsInv ==
  ASSUME Inv, OwnSockets, [CarefulNext]_vars
  PROVE  Inv'
<1>1. CASE UNCHANGED vars
  <2>1. UNCHANGED <<mem, requests, replies, buffer, call, result, sent, current, answer, raised>>
    BY <1>1 DEF vars, packets
  <2>2. TypeOK' BY <2>1 DEF Inv, TypeOK
  <2>3. RequestsInv' BY <2>1 DEF Inv, RequestsInv, Live, Waiting
  <2>4. RepliesInv' BY <2>1 DEF Inv, RepliesInv, RepliesTo, Answers, Buffer, Waiting
  <2>5. CallsInv' BY <2>1 DEF Inv, CallsInv, Waiting
  <2>6. QED BY <2>2, <2>3, <2>4, <2>5 DEF Inv
<1>2. ASSUME NEW c \in Clients, ~raised[c], Call(c) PROVE Inv' BY <1>2, CallKeepsInv
<1>3. ASSUME NEW c \in Clients, Receive(c) PROVE Inv'
  BY <1>3, ReceiveResult, TakeReplyKeepsInv
<1>4. ASSUME NEW c \in Clients, TimeOut(c) PROVE Inv' BY <1>4, TimeOutKeepsInv
<1>5. CASE Network
  BY <1>5, ServeKeepsInv, LoseRequestKeepsInv, DeliverKeepsInv, LoseReplyKeepsInv DEF Network
<1>6. QED BY <1>1, <1>2, <1>3, <1>4, <1>5 DEF CarefulNext

(* Types, and one packet under way per careful client, for any number of   *)
(* clients, registers, values and calls.                                   *)
THEOREM CarefulInv == ASSUME OwnSockets PROVE CarefulSpec => []Inv
<1>1. Inv /\ [CarefulNext]_vars => Inv' BY NextKeepsInv
<1>2. QED BY <1>1, InitInv, PTL DEF CarefulSpec

(* The types, for clients that have a socket each and give it up after an   *)
(* exception.                                                               *)
THEOREM UdpRwTypes == ASSUME OwnSockets PROVE CarefulSpec => []TypeOK
<1>1. Inv => TypeOK BY DEF Inv
<1>2. QED BY <1>1, CarefulInv, PTL

-----------------------------------------------------------------------------
(* The refinement: the accesses that may still happen are those of the     *)
(* requests under way whose call has ended.                                *)
LEMMA LateUnchanged ==
  ASSUME \A c \in Clients : Late(c)' = Late(c)
  PROVE  lateBar' = lateBar
BY DEF lateBar

LEMMA LateUpdated ==
  ASSUME NEW c \in Clients, \A d \in Clients : d # c => Late(d)' = Late(d)
  PROVE  lateBar' = [lateBar EXCEPT ![c] = Late(c)']
BY DEF lateBar

LEMMA InitRefines == Init => Abstract!Init
<1> SUFFICES ASSUME Init PROVE Abstract!Init OBVIOUS
<1>1. \A c \in Clients : Late(c) = {} BY DEF Init, Late
<1>2. lateBar = [c \in Clients |-> {}] BY <1>1 DEF lateBar
<1>3. QED BY <1>2 DEF Init, Abstract!Init, Idle, Abstract!Idle

LEMMA CallRefines ==
  ASSUME Inv, NEW c \in Clients, ~raised[c], Call(c)
  PROVE  Abstract!Call(c)
<1> USE DEF Inv
<1>1. PICK x \in Accesses :
        /\ call' = [call EXCEPT ![c] = x]
        /\ requests' = requests \cup {[id |-> sent', from |-> c, access |-> x]}
  BY DEF Call
<1>2. /\ ~Waiting(c) /\ current' = [current EXCEPT ![c] = sent']
      /\ UNCHANGED <<mem, answer, result>>
  BY DEF Call
<1>3. x # Idle BY DEF Accesses, Idle
<1>4. /\ Waiting(c)' /\ current'[c] = sent'
      /\ \A d \in Clients : d # c => (Waiting(d)' <=> Waiting(d)) /\ current'[d] = current[d]
  <2>1. current'[c] = sent' BY <1>2 DEF TypeOK
  <2>2. QED BY <1>1, <1>2, <1>3, <2>1 DEF TypeOK, Waiting
<1>5. \A q \in requests : q.from # c BY <1>2 DEF RequestsInv, Live
<1>6. ASSUME NEW d \in Clients PROVE Late(d)' = Late(d)
  <2>1. {q \in requests' : q.from = d /\ ~Live(q)'} = {q \in requests : q.from = d /\ ~Live(q)}
    BY <1>1, <1>4, <1>5 DEF Live
  <2>2. QED BY <2>1 DEF Late
<1>7. lateBar' = lateBar BY <1>6, LateUnchanged
<1>8. QED BY <1>1, <1>2, <1>7 DEF Abstract!Call, Waiting, Idle, Abstract!Idle, Accesses, Abstract!Accesses

LEMMA ServeRefines ==
  ASSUME Inv, NEW r \in requests, Serve(r)
  PROVE  Abstract!Happen(r.from) \/ Abstract!HappenLate(r.from)
<1> USE DEF Inv
<1> DEFINE x == r.access
           c == r.from
<1>1. /\ requests' = requests \ {r}
      /\ mem' = (IF x.kind = "write" THEN [mem EXCEPT ![x.addr] = x.val] ELSE mem)
      /\ answer' = [answer EXCEPT ![c] = IF Live(r) THEN {Yield(x)} ELSE @]
      /\ UNCHANGED <<call, result, current>>
  BY DEF Serve, Live
<1>2. c \in Clients BY DEF TypeOK, Requests
<1>3. \A q \in requests : q.from = c => q = r BY DEF RequestsInv
<1>4. \A q : Live(q)' <=> Live(q) BY <1>1 DEF Live, Waiting
<1>5. \A d \in Clients : d # c => Late(d)' = Late(d) BY <1>1, <1>4 DEF Late
<1>6. Late(c)' = {} BY <1>1, <1>3 DEF Late
<1>7. Abstract!Access(x) BY <1>1 DEF Abstract!Access
<1>8. Abstract!Yield(x) = Yield(x) BY DEF Abstract!Yield, Yield
<1>9. CASE Live(r)
  <2>1. Late(c) = {} BY <1>3, <1>9 DEF Late
  <2>2. lateBar' = lateBar BY <1>5, <1>6, <2>1, LateUnchanged
  <2>3. x = call[c] /\ answer[c] = {} BY <1>9 DEF RequestsInv
  <2>4. answer' = [answer EXCEPT ![c] = {Yield(x)}] BY <1>1, <1>9
  <2>5. call[c] # Abstract!Idle BY <1>9 DEF Live, Waiting, Idle, Abstract!Idle
  <2>6. QED BY <1>1, <1>7, <1>8, <2>2, <2>3, <2>4, <2>5 DEF Abstract!Happen
<1>10. CASE ~Live(r)
  <2>1. Late(c) = {x} BY <1>3, <1>10 DEF Late
  <2>2. lateBar[c] = {x} BY <1>2, <2>1 DEF lateBar
  <2>3. lateBar' = [lateBar EXCEPT ![c] = {}] BY <1>2, <1>5, <1>6, LateUpdated
  <2>4. lateBar' = [lateBar EXCEPT ![c] = @ \ {x}] BY <2>2, <2>3
  <2>5. answer' = answer BY <1>1, <1>10, <1>2 DEF TypeOK
  <2>6. QED BY <1>1, <1>7, <2>2, <2>4, <2>5 DEF Abstract!HappenLate
<1>11. QED BY <1>9, <1>10

LEMMA LoseRequestRefines ==
  ASSUME Inv, NEW r \in requests, LoseRequest(r)
  PROVE  Abstract!NeverHappen(r.from) \/ UNCHANGED Abstract!vars
<1> USE DEF Inv
<1> DEFINE c == r.from
<1>1. requests' = requests \ {r} /\ UNCHANGED <<mem, call, result, current, answer>>
  BY DEF LoseRequest
<1>2. c \in Clients BY DEF TypeOK, Requests
<1>3. \A q \in requests : q.from = c => q = r BY DEF RequestsInv
<1>4. \A q : Live(q)' <=> Live(q) BY <1>1 DEF Live, Waiting
<1>5. \A d \in Clients : d # c => Late(d)' = Late(d) BY <1>1, <1>4 DEF Late
<1>6. Late(c)' = {} BY <1>1, <1>3 DEF Late
<1>7. CASE Live(r)
  <2>1. Late(c) = {} BY <1>3, <1>7 DEF Late
  <2>2. lateBar' = lateBar BY <1>5, <1>6, <2>1, LateUnchanged
  <2>3. QED BY <1>1, <2>2 DEF Abstract!vars
<1>8. CASE ~Live(r)
  <2>1. Late(c) = {r.access} BY <1>3, <1>8 DEF Late
  <2>2. lateBar[c] = {r.access} BY <1>2, <2>1 DEF lateBar
  <2>3. lateBar' = [lateBar EXCEPT ![c] = {}] BY <1>2, <1>5, <1>6, LateUpdated
  <2>4. lateBar' = [lateBar EXCEPT ![c] = @ \ {r.access}] BY <2>2, <2>3
  <2>5. QED BY <1>1, <2>2, <2>4 DEF Abstract!NeverHappen
<1>9. QED BY <1>7, <1>8

(* Nothing of the registers is in a reply, nor in a socket. *)
LEMMA ReplyStutters ==
  ASSUME UNCHANGED <<mem, requests, call, result, current, answer>>
  PROVE  UNCHANGED Abstract!vars
<1>1. \A c \in Clients : Late(c)' = Late(c) BY DEF Late, Live, Waiting
<1>2. lateBar' = lateBar BY <1>1, LateUnchanged
<1>3. QED BY <1>2 DEF Abstract!vars

LEMMA ReceiveRefines ==
  ASSUME Inv, NEW c \in Clients, Receive(c)
  PROVE  Abstract!Return(c)
<1> USE DEF Inv
<1>1. /\ TakeReply(c) /\ answer[c] # {}
      /\ \E v \in answer[c] : result' = [result EXCEPT ![c] = v]
  BY ReceiveResult
<1>2. /\ call' = [call EXCEPT ![c] = Idle]
      /\ answer' = [answer EXCEPT ![c] = {}]
      /\ UNCHANGED <<mem, requests, current>>
  BY <1>1 DEF TakeReply, Finish
<1>3. \A q \in requests : q.from # c BY <1>1, HeadAnswers DEF RequestsInv, Answers
<1>4. \A d \in Clients : d # c => (Waiting(d)' <=> Waiting(d))
  BY <1>2 DEF TypeOK, Waiting
<1>5. ASSUME NEW d \in Clients PROVE Late(d)' = Late(d)
  <2>1. {q \in requests' : q.from = d /\ ~Live(q)'} = {q \in requests : q.from = d /\ ~Live(q)}
    BY <1>2, <1>3, <1>4 DEF Live
  <2>2. QED BY <2>1 DEF Late
<1>6. lateBar' = lateBar BY <1>5, LateUnchanged
<1>7. QED BY <1>1, <1>2, <1>6 DEF Abstract!Return, Idle, Abstract!Idle

LEMMA TimeOutRefines ==
  ASSUME Inv, NEW c \in Clients, TimeOut(c)
  PROVE  Abstract!Raise(c)
<1> USE DEF Inv
<1>1. /\ Waiting(c)
      /\ call' = [call EXCEPT ![c] = Idle]
      /\ answer' = [answer EXCEPT ![c] = {}]
      /\ UNCHANGED <<mem, requests, current, result>>
  BY DEF TimeOut, Finish
<1>2. ~Waiting(c)' /\ \A d \in Clients : d # c => (Waiting(d)' <=> Waiting(d))
  BY <1>1 DEF TypeOK, Waiting
<1>3. ASSUME NEW d \in Clients, d # c PROVE Late(d)' = Late(d)
  <2>1. {q \in requests' : q.from = d /\ ~Live(q)'} = {q \in requests : q.from = d /\ ~Live(q)}
    BY <1>1, <1>2, <1>3 DEF Live
  <2>2. QED BY <2>1 DEF Late
<1>4. \A q \in requests : q.from = c => Live(q) /\ q.access = call[c] /\ answer[c] = {}
  BY <1>1 DEF RequestsInv, CallsInv
<1>5. Late(c) = {} BY <1>4 DEF Late
<1>6. Late(c)' = {q.access : q \in {s \in requests : s.from = c}}
  <2>1. {q \in requests' : q.from = c /\ ~Live(q)'} = {s \in requests : s.from = c}
    BY <1>1, <1>2 DEF Live
  <2>2. QED BY <2>1 DEF Late
<1>7. \/ lateBar' = lateBar
      \/ answer[c] = {} /\ lateBar' = [lateBar EXCEPT ![c] = @ \cup {call[c]}]
  <2>1. CASE \A q \in requests : q.from # c
    <3>1. Late(c)' = {} BY <1>6, <2>1
    <3>2. QED BY <1>3, <1>5, <3>1, LateUnchanged
  <2>2. CASE \E q \in requests : q.from = c
    <3>1. answer[c] = {} BY <1>4, <2>2
    <3>2. Late(c)' = {call[c]} BY <1>4, <1>6, <2>2
    <3>3. lateBar[c] = {} BY <1>5 DEF lateBar
    <3>4. lateBar' = [lateBar EXCEPT ![c] = {call[c]}] BY <1>3, <3>2, LateUpdated
    <3>5. lateBar' = [lateBar EXCEPT ![c] = @ \cup {call[c]}] BY <3>3, <3>4
    <3>6. QED BY <3>1, <3>5
  <2>3. QED BY <2>1, <2>2
<1>8. QED BY <1>1, <1>7 DEF Abstract!Raise, Waiting, Idle, Abstract!Idle

LEMMA NextRefines ==
  ASSUME Inv, [CarefulNext]_vars
  PROVE  [Abstract!Next]_(Abstract!vars)
<1> USE DEF Inv
<1>1. CASE UNCHANGED vars BY <1>1, ReplyStutters DEF vars, packets
<1>2. ASSUME NEW c \in Clients, ~raised[c], Call(c) PROVE Abstract!Next
  BY <1>2, CallRefines DEF Abstract!Next
<1>3. ASSUME NEW c \in Clients, Receive(c) PROVE Abstract!Next
  BY <1>3, ReceiveRefines DEF Abstract!Next
<1>4. ASSUME NEW c \in Clients, TimeOut(c) PROVE Abstract!Next
  BY <1>4, TimeOutRefines DEF Abstract!Next
<1>5. ASSUME NEW r \in requests, Serve(r) \/ LoseRequest(r)
      PROVE  [Abstract!Next]_(Abstract!vars)
  <2>1. r.from \in Clients BY DEF TypeOK, Requests
  <2>2. QED BY <1>5, <2>1, ServeRefines, LoseRequestRefines DEF Abstract!Next
<1>6. ASSUME NEW p \in replies, Deliver(p) \/ LoseReply(p)
      PROVE  UNCHANGED Abstract!vars
  BY <1>6, ReplyStutters DEF Deliver, LoseReply
<1>7. QED BY <1>1, <1>2, <1>3, <1>4, <1>5, <1>6 DEF CarefulNext, Network

(* A client alone on its socket, which it gives up after an exception, has *)
(* registers: udpaccess.py implements the accesses the control classes     *)
(* build on, whatever packets are lost or late.                            *)
THEOREM UdpImplementsRegister ==
  ASSUME OwnSockets PROVE CarefulSpec => ImplementsRegister
<1>1. Init => Abstract!Init BY InitRefines
<1>2. Inv /\ [CarefulNext]_vars => [Abstract!Next]_(Abstract!vars) BY NextRefines
<1>3. CarefulSpec => []Inv BY CarefulInv
<1>4. QED BY <1>1, <1>2, <1>3, PTL DEF CarefulSpec, ImplementsRegister, Abstract!Spec
=============================================================================
