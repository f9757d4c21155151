------------------------------ MODULE Register ------------------------------
(***************************************************************************)
(* What the control classes take RegAccess.read and write for: accesses of *)
(* the device's registers that happen at one point between the call and    *)
(* the return.  A call can end by an exception instead; the access may     *)
(* then have happened, may never happen, or may still happen later.        *)
(***************************************************************************)
CONSTANTS
  Clients,   (* threads that access registers                              *)
  Addrs,     (* the registers                                              *)
  Values,    (* what a register can hold                                   *)
  Zero       (* what it holds after reset                                  *)

VARIABLES
  mem,       (* the registers                                              *)
  call,      (* the access each client has asked for, or Idle              *)
  answer,    (* what it has yielded: {} until it happens, then one value   *)
  result,    (* what the client's last call returned                       *)
  late       (* accesses of calls that have ended before they happened     *)

vars == <<mem, call, answer, result, late>>

Accesses == [kind : {"read", "write"}, addr : Addrs, val : Values]

Idle == [kind |-> "idle"]

Init ==
  /\ mem = [a \in Addrs |-> Zero]
  /\ call = [c \in Clients |-> Idle]
  /\ answer = [c \in Clients |-> {}]
  /\ result = [c \in Clients |-> Zero]
  /\ late = [c \in Clients |-> {}]

Call(c) ==
  /\ call[c] = Idle
  /\ \E x \in Accesses : call' = [call EXCEPT ![c] = x]
  /\ UNCHANGED <<mem, answer, result, late>>

(* A register takes a value, or gives one. *)
Access(x) ==
  mem' = IF x.kind = "write" THEN [mem EXCEPT ![x.addr] = x.val] ELSE mem

Yield(x) == IF x.kind = "read" THEN mem[x.addr] ELSE Zero

Happen(c) ==
  /\ call[c] # Idle /\ answer[c] = {}
  /\ Access(call[c])
  /\ answer' = [answer EXCEPT ![c] = {Yield(call[c])}]
  /\ UNCHANGED <<call, result, late>>

Return(c) ==
  /\ answer[c] # {}
  /\ \E v \in answer[c] : result' = [result EXCEPT ![c] = v]
  /\ call' = [call EXCEPT ![c] = Idle]
  /\ answer' = [answer EXCEPT ![c] = {}]
  /\ UNCHANGED <<mem, late>>

Raise(c) ==
  /\ call[c] # Idle
  /\ \/ late' = late
     \/ answer[c] = {} /\ late' = [late EXCEPT ![c] = @ \cup {call[c]}]
  /\ call' = [call EXCEPT ![c] = Idle]
  /\ answer' = [answer EXCEPT ![c] = {}]
  /\ UNCHANGED <<mem, result>>

HappenLate(c) ==
  \E x \in late[c] :
    /\ Access(x)
    /\ late' = [late EXCEPT ![c] = @ \ {x}]
    /\ UNCHANGED <<call, answer, result>>

NeverHappen(c) ==
  \E x \in late[c] :
    /\ late' = [late EXCEPT ![c] = @ \ {x}]
    /\ UNCHANGED <<mem, call, answer, result>>

Next ==
  \E c \in Clients :
    Call(c) \/ Happen(c) \/ Return(c) \/ Raise(c) \/ HappenLate(c) \/ NeverHappen(c)

Spec == Init /\ [][Next]_vars
=============================================================================
