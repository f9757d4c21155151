------------------------- MODULE LabradServerProofs -------------------------
(***************************************************************************)
(* For any number of remote controllers, threads that use them and threads *)
(* of the server's pool, and programs that die at any time: a request      *)
(* reaches the controller that was made for the remote one it comes from,  *)
(* a controller is closed at most once, and none is left behind but those  *)
(* whose close raises.                                                     *)
(***************************************************************************)
EXTENDS LabradServer, SequenceTheorems, TLAPS

-----------------------------------------------------------------------------
(* Types. *)

Places == {"create", "construct", "count", "discard", "close", "look_up", "call"}

AllMethods == UNION {Methods(k) : k \in Kinds}

Asked == {"create", "discard"} \cup AllMethods

Settings == {"create", "discard"} \cup UNION {{Setting(k, m) : m \in Methods(k)} : k \in Kinds}

Requests ==
  [at : Places, from : Threads, kind : Kinds, handle : Nat \cup {NoHandle},
   setting : Settings, asked : Asked, ctrl : Nat, method : Asked \cup {"none"}]

RemoteStates ==
  [kind : Kinds, at : {"new", "connecting", "open", "dead"}, handle : Nat \cup {NoHandle}]

Types ==
  /\ remote \in [Remotes -> RemoteStates]
  /\ thread \in [Threads -> {"idle", "waiting", "dead"}]
  /\ DOMAIN ctrls = Kinds /\ nextHandle \in Nat
  /\ queue \in Seq(Requests) /\ job \in [PoolThreads -> Requests \cup {NoJob}]
  /\ made \in Seq(Remotes) /\ closings \in Seq(Nat) /\ Len(closings) = Len(made)
  /\ raised \subseteq DOMAIN made

(* A thread is dead when its program is.                                   *)
ThreadInv == \A t \in Threads : thread[t] = "dead" <=> remote[RemoteOf[t]].at = "dead"

-----------------------------------------------------------------------------
(* Requests. *)

Busy(w) == job[w] # NoJob

For(q) == RemoteOf[q.from]

(* If a controller has the handle, it is the one of the remote controller. *)
Owned(h, r) ==
  LET table == ctrls[remote[r].kind] IN h \in DOMAIN table => made[table[h]] = r

Creates(q) == q.asked = "create" /\ q.at \in {"create", "construct", "count"}
Discards(q) == q.asked = "discard" /\ q.at \in {"discard", "close"}
Calls(q) ==
  /\ q.asked \in Methods(q.kind) /\ q.setting = Setting(q.kind, q.asked)
  /\ q.at \in {"look_up", "call"}

(* What a request says of the remote controller it comes from.             *)
Sound(q) ==
  LET r == remote[For(q)] IN
  /\ q.kind = r.kind
  /\ Creates(q) \/ Discards(q) \/ Calls(q)
  /\ Creates(q) => r.at \in {"connecting", "dead"}
  /\ ~Creates(q) => r.at \in {"open", "dead"}
  /\ Creates(q) /\ q.at # "count" => \A c \in DOMAIN made : made[c] # For(q)
  /\ q.at \in {"discard", "look_up"} => q.handle \in Nat /\ q.handle < nextHandle /\ Owned(q.handle, For(q))
  /\ q.at = "discard" => r.handle \in {q.handle, NoHandle}

(* Two requests are not both for the controller of one remote controller.  *)
Apart(p, q) == Creates(p) /\ Creates(q) => For(p) # For(q)

QueueInv ==
  /\ \A i \in DOMAIN queue : Sound(queue[i]) /\ queue[i].at \in {"create", "discard", "look_up"}
  /\ \A i, j \in DOMAIN queue : i # j => Apart(queue[i], queue[j])
  /\ \A i \in DOMAIN queue, w \in PoolThreads : Busy(w) => Apart(queue[i], job[w])

(* A thread of the pool: what it has found, and what it has locked.        *)
Working(w) ==
  LET j == job[w] IN
  /\ Sound(j)
  /\ j.at = "construct" => j.handle = nextHandle
  /\ j.at = "count" =>
       /\ j.handle = nextHandle /\ nextHandle \in DOMAIN ctrls[j.kind]
       /\ made[ctrls[j.kind][nextHandle]] = For(j)
  /\ j.at \in {"call", "close"} => j.ctrl \in DOMAIN made /\ made[j.ctrl] = For(j)
  /\ j.at = "call" => j.method = j.asked
  /\ j.at = "close" =>
       /\ closings[j.ctrl] = 0
       /\ \A k \in Kinds : \A h \in DOMAIN ctrls[k] : ctrls[k][h] # j.ctrl

JobInv ==
  /\ \A w \in PoolThreads : Busy(w) => Working(w)
  /\ \A v, w \in PoolThreads : v # w /\ Busy(v) /\ Busy(w) => Apart(job[v], job[w])

LockPlaces == {"construct", "count", "close"}

LockInv == \A w \in PoolThreads : serverLock = w <=> Busy(w) /\ job[w].at \in LockPlaces

-----------------------------------------------------------------------------
(* Controllers. *)

(* The controllers in the tables are open, and each is there once.         *)
TableInv ==
  /\ \A k \in Kinds : \A h \in DOMAIN ctrls[k] :
       /\ h \in Nat /\ ctrls[k][h] \in DOMAIN made
       /\ closings[ctrls[k][h]] = 0 /\ ctrls[k][h] \notin raised
       /\ remote[made[ctrls[k][h]]].kind = k
       /\ h <= nextHandle /\ (h = nextHandle => \E w \in PoolThreads : At(w, "count") /\ job[w].kind = k)
  /\ \A k \in Kinds : \A g, h \in DOMAIN ctrls[k] : ctrls[k][g] = ctrls[k][h] => g = h

RemoteInv ==
  \A r \in Remotes :
    /\ remote[r].handle # NoHandle =>
         remote[r].at \in {"open", "dead"} /\ remote[r].handle < nextHandle /\ Owned(remote[r].handle, r)
    /\ remote[r].at = "new" => \A c \in DOMAIN made : made[c] # r

(* A remote controller has one controller at most.                         *)
MadeInv ==
  /\ \A c, d \in DOMAIN made : made[c] = made[d] => c = d
  /\ \A c \in DOMAIN made : closings[c] \in {0, 1}

(* What NothingLeftBehind says of a controller.                            *)
Handled(c, h) ==
  LET r == made[c] IN
  /\ ctrls[remote[r].kind][h] = c
  /\ \/ remote[r].handle = h \/ remote[r].at = "dead"
     \/ \E w \in PoolThreads : At(w, "count") /\ job[w].handle = h

Accounted(c) ==
  \/ closings[c] = 1 \/ c \in raised
  \/ \E w \in PoolThreads : At(w, "close") /\ job[w].ctrl = c
  \/ \E h \in DOMAIN ctrls[remote[made[c]].kind] : Handled(c, h)

LeftInv == \A c \in DOMAIN made : Accounted(c)

Inv ==
  /\ Types /\ ThreadInv /\ QueueInv /\ JobInv /\ LockInv /\ TableInv /\ RemoteInv /\ MadeInv
  /\ LeftInv

-----------------------------------------------------------------------------
(* Names. *)

(* The method the server calls for the setting of a method is that method. *)
LEMMA MethodOfSetting ==
  ASSUME NEW k \in Kinds, NEW m \in Methods(k)
  PROVE  MethodFor(k, Setting(k, m)) = m
<1>1. CASE k = "awg"
  BY <1>1 DEF Methods, RemoteAwgMethods, MethodFor, Setting, AwgMethod, RemoteAwgSetting
<1>2. CASE k = "capture"
  BY <1>2 DEF Methods, RemoteCaptureDataMethods, RemoteCaptureModuleMethods, MethodFor, Setting,
              CaptureModuleMethod, CaptureDataMethod, RemoteCaptureSetting
<1>3. CASE k = "sequencer"
  BY <1>3 DEF Methods, RemoteSequencerMethods, RemoteSequencerQueries, MethodFor, Setting,
              SequencerMethod, SequencerQuery, RemoteSequencerSetting
<1>4. QED BY <1>1, <1>2, <1>3 DEF Kinds

(* No method is called create or discard.                                  *)
LEMMA MethodNames ==
  ASSUME NEW k \in Kinds
  PROVE  "create" \notin Methods(k) /\ "discard" \notin Methods(k)
BY DEF Kinds, Methods, RemoteAwgMethods, RemoteCaptureDataMethods, RemoteCaptureModuleMethods,
       RemoteSequencerMethods, RemoteSequencerQueries

-----------------------------------------------------------------------------
(* What a step leaves as it is. *)

(* A step may kill the remote controller that q comes from or take its     *)
(* handle away, and make new handles, and leaves the rest of what q needs. *)
Keeps(q) ==
  LET r == For(q) IN
  /\ remote'[r].kind = remote[r].kind /\ remote'[r].at \in {remote[r].at, "dead"}
  /\ remote'[r].handle \in {remote[r].handle, NoHandle} /\ nextHandle' >= nextHandle
  /\ \A h \in Nat : h < nextHandle /\ Owned(h, r) => Owned(h, r)'
  /\ Creates(q) => \A c \in DOMAIN made' : made'[c] = r => \E d \in DOMAIN made : made[d] = r

(* What is said of a request stays true in a step that keeps what it needs. *)
LEMMA SoundKept ==
  ASSUME Types, Types', NEW q \in Requests, Sound(q), Keeps(q)
  PROVE  Sound(q)'
<1> DEFINE r == For(q)
<1>1. For(q)' = r /\ r \in Remotes BY ServerConstants DEF For, Requests, ServerConstants
<1>2. (Creates(q) <=> Creates(q)') /\ (Discards(q) <=> Discards(q)') /\ (Calls(q) <=> Calls(q)')
  BY DEF Creates, Discards, Calls
<1>3. q.at \in {"discard", "look_up"} => q.handle < nextHandle' /\ Owned(q.handle, r)'
  <2> HAVE q.at \in {"discard", "look_up"}
  <2>1. q.handle \in Nat /\ q.handle < nextHandle /\ Owned(q.handle, r) BY DEF Sound
  <2>2. nextHandle \in Nat /\ nextHandle' \in Nat BY DEF Types
  <2>3. QED BY <2>1, <2>2 DEF Keeps
<1>4. q.kind = remote'[r].kind BY DEF Sound, Keeps
<1>5. /\ Creates(q) => remote'[r].at \in {"connecting", "dead"}
      /\ ~Creates(q) => remote'[r].at \in {"open", "dead"}
  BY DEF Sound, Keeps
<1>6. Creates(q) /\ q.at # "count" => \A c \in DOMAIN made' : made'[c] # r
  BY DEF Sound, Keeps
<1>7. q.at = "discard" => remote'[r].handle \in {q.handle, NoHandle} BY DEF Sound, Keeps
<1> HIDE DEF r
<1>8. QED BY <1>1, <1>2, <1>3, <1>4, <1>5, <1>6, <1>7 DEF Sound

(* What was made stays made.                                               *)
StaysMade == \A c \in DOMAIN made : c \in DOMAIN made' /\ made'[c] = made[c]

(* A thread of the pool that a step does not run.                          *)
LEMMA WorkingKept ==
  ASSUME Types, Types', NEW w \in PoolThreads, Busy(w), Working(w), job'[w] = job[w],
         Keeps(job[w]), StaysMade,
         job[w].at \in LockPlaces => UNCHANGED <<ctrls, nextHandle, made, closings, raised>>
  PROVE  Working(w)'
<1> DEFINE j == job[w]
<1>1. j \in Requests BY DEF Types, Busy
<1>2. For(j)' = For(j) BY DEF For
<1>3. Sound(j)' BY <1>1, SoundKept DEF Working
<1>4. j.at \in {"call", "close"} => j.ctrl \in DOMAIN made' /\ made'[j.ctrl] = For(j)
  BY DEF Working, StaysMade
<1>5. CASE j.at \in LockPlaces BY <1>2, <1>3, <1>4, <1>5 DEF Working, LockPlaces, For
<1>6. CASE j.at \notin LockPlaces BY <1>2, <1>3, <1>4, <1>6 DEF Working, LockPlaces
<1>7. QED BY <1>5, <1>6

(* Two requests are apart whatever the state is.                           *)
LEMMA ApartIsRigid == ASSUME NEW p, NEW q, Apart(p, q) PROVE Apart(p, q)' /\ Apart(q, p) /\ Apart(q, p)'
BY DEF Apart, Creates, For

(* A step of a thread of the pool that has a request.                      *)
LEMMA WorkerStep ==
  ASSUME Types, Types', QueueInv, JobInv, NEW w \in PoolThreads, Busy(w),
         NEW new \in Requests \cup {NoJob}, UNCHANGED queue, job' = [job EXCEPT ![w] = new],
         new # NoJob => /\ For(new) = For(job[w]) /\ (Creates(new) => Creates(job[w]))
                        /\ Working(w)',
         \A q \in Requests : Sound(q) /\ Apart(q, job[w]) => Keeps(q),
         StaysMade,
         \A v \in PoolThreads \ {w} : Busy(v) /\ job[v].at \in LockPlaces
            => UNCHANGED <<ctrls, nextHandle, made, closings, raised>>
  PROVE  QueueInv' /\ JobInv'
<1>1. \A v \in PoolThreads \ {w} : job'[v] = job[v] /\ (Busy(v)' <=> Busy(v)) BY DEF Types, Busy
<1>2. job'[w] = new /\ (Busy(w)' <=> new # NoJob) BY DEF Types, Busy
<1>3. ASSUME NEW q, Apart(q, job[w]), new # NoJob PROVE Apart(q, new)
  BY <1>3 DEF Apart
<1>4. QueueInv'
  <2>1. ASSUME NEW i \in DOMAIN queue
        PROVE  Sound(queue[i])' /\ queue'[i].at \in {"create", "discard", "look_up"}
    <3>1. queue[i] \in Requests /\ Sound(queue[i]) BY DEF Types, QueueInv
    <3>2. Apart(queue[i], job[w]) BY DEF QueueInv
    <3>3. Keeps(queue[i]) BY <3>1, <3>2
    <3>4. Sound(queue[i])' BY <3>1, <3>3, SoundKept
    <3>5. QED BY <3>4 DEF QueueInv
  <2>2. ASSUME NEW i \in DOMAIN queue, NEW j \in DOMAIN queue, i # j
        PROVE  Apart(queue[i], queue[j])'
    BY <2>2, ApartIsRigid DEF QueueInv
  <2>3. ASSUME NEW i \in DOMAIN queue, NEW v \in PoolThreads, Busy(v)'
        PROVE  Apart(queue[i], job[v])'
    <3>1. CASE v = w
      <4>1. Apart(queue[i], new) BY <1>2, <1>3, <2>3, <3>1 DEF QueueInv
      <4>2. QED BY <1>2, <3>1, <4>1, ApartIsRigid
    <3>2. CASE v # w
      <4>1. Apart(queue[i], job[v]) BY <1>1, <2>3, <3>2 DEF QueueInv
      <4>2. QED BY <1>1, <3>2, <4>1, ApartIsRigid
    <3>3. QED BY <3>1, <3>2
  <2>4. QED BY <2>1, <2>2, <2>3 DEF QueueInv
<1>5. ASSUME NEW v \in PoolThreads, Busy(v)' PROVE Working(v)'
  <2>1. CASE v = w BY <1>2, <1>5, <2>1
  <2>2. CASE v # w
    <3>1. Busy(v) /\ job'[v] = job[v] BY <1>1, <1>5, <2>2
    <3>2. Working(v) /\ Apart(job[v], job[w]) BY <2>2, <3>1 DEF JobInv
    <3>3. job[v] \in Requests /\ Sound(job[v]) BY <3>1, <3>2 DEF Types, Busy, Working
    <3>4. Keeps(job[v]) BY <3>2, <3>3
    <3>5. QED BY <2>2, <3>1, <3>2, <3>4, WorkingKept
  <2>3. QED BY <2>1, <2>2
<1>6. ASSUME NEW u \in PoolThreads, NEW v \in PoolThreads, u # v, Busy(u)', Busy(v)'
      PROVE  Apart(job[u], job[v])'
  <2>1. CASE u = w
    <3>1. Apart(job[v], new) BY <1>1, <1>2, <1>3, <1>6, <2>1 DEF JobInv
    <3>2. QED BY <1>1, <1>2, <1>6, <2>1, <3>1, ApartIsRigid
  <2>2. CASE v = w
    <3>1. Apart(job[u], new) BY <1>1, <1>2, <1>3, <1>6, <2>2 DEF JobInv
    <3>2. QED BY <1>1, <1>2, <1>6, <2>2, <3>1, ApartIsRigid
  <2>3. CASE u # w /\ v # w
    <3>1. Apart(job[u], job[v]) BY <1>1, <1>6, <2>3 DEF JobInv
    <3>2. QED BY <1>1, <2>3, <3>1, ApartIsRigid
  <2>4. QED BY <2>1, <2>2, <2>3
<1>7. QED BY <1>4, <1>5, <1>6 DEF JobInv

-----------------------------------------------------------------------------
(* What does not change with the variables it reads. *)

(* The tables, in a step that makes and closes none of their controllers.  *)
LEMMA TablesKept ==
  ASSUME Types, TableInv, LockInv, UNCHANGED <<ctrls, nextHandle, made>>,
         \A s \in Remotes : remote'[s].kind = remote[s].kind,
         \A k \in Kinds : \A h \in DOMAIN ctrls[k] :
            /\ closings'[ctrls[k][h]] = closings[ctrls[k][h]]
            /\ ctrls[k][h] \in raised' => ctrls[k][h] \in raised,
         \A w \in PoolThreads : At(w, "count") => At(w, "count")' /\ job'[w].kind = job[w].kind
  PROVE  TableInv'
<1>1. ASSUME NEW k \in Kinds, NEW h \in DOMAIN ctrls[k]
      PROVE  /\ h \in Nat /\ ctrls[k][h] \in DOMAIN made
             /\ closings'[ctrls[k][h]] = 0 /\ ctrls[k][h] \notin raised'
             /\ remote'[made[ctrls[k][h]]].kind = k
             /\ h <= nextHandle /\ (h = nextHandle => \E w \in PoolThreads : At(w, "count")' /\ job'[w].kind = k)
  <2>1. ctrls[k][h] \in DOMAIN made /\ made[ctrls[k][h]] \in Remotes BY DEF TableInv, Types
  <2>2. QED BY <2>1 DEF TableInv
<1>2. QED BY <1>1 DEF TableInv

(* A remote controller whose handle a step leaves or takes away.           *)
LEMMA RemotesKept ==
  ASSUME Types, RemoteInv, UNCHANGED <<ctrls, made>>, nextHandle \in Nat, nextHandle' \in Nat,
         nextHandle' >= nextHandle,
         NEW r \in Remotes,
         remote'[r].kind = remote[r].kind, remote'[r].handle \in {remote[r].handle, NoHandle},
         remote[r].at \in {"open", "dead"} => remote'[r].at \in {"open", "dead"},
         remote'[r].at = "new" => remote[r].at = "new"
  PROVE  /\ remote'[r].handle # NoHandle =>
              /\ remote'[r].at \in {"open", "dead"} /\ remote'[r].handle < nextHandle'
              /\ Owned(remote[r].handle, r)' /\ remote'[r].handle = remote[r].handle
         /\ remote'[r].at = "new" => \A c \in DOMAIN made' : made'[c] # r
<1>1. remote[r].handle \in Nat \cup {NoHandle} BY DEF Types, RemoteStates
<1>2. CASE remote'[r].handle = NoHandle BY <1>2 DEF RemoteInv
<1>3. CASE remote'[r].handle # NoHandle
  <2>1. /\ remote[r].handle = remote'[r].handle /\ remote[r].at \in {"open", "dead"}
        /\ remote[r].handle < nextHandle /\ Owned(remote[r].handle, r)
    BY <1>3 DEF RemoteInv
  <2>2. remote'[r].handle < nextHandle' BY <1>1, <1>3, <2>1
  <2>3. (Owned(remote[r].handle, r))' BY <2>1 DEF Owned
  <2>4. QED BY <2>1, <2>2, <2>3 DEF RemoteInv
<1>4. QED BY <1>2, <1>3

-----------------------------------------------------------------------------
(* Requests. *)

(* A request is sent: it is sound, and makes no second controller.         *)
LEMMA AskKeepsInv ==
  ASSUME Inv, NEW t \in Threads, NEW q \in Requests, Ask(t, q),
         q.at \in {"create", "discard", "look_up"}, Sound(q)', \A p \in Requests : Sound(p) => Apart(p, q),
         remote' \in [Remotes -> RemoteStates],
         \A s \in Remotes :
            \/ remote'[s] = remote[s]
            \/ /\ remote[s].at = "new" /\ remote'[s].at = "connecting"
               /\ remote'[s].kind = remote[s].kind /\ remote'[s].handle = remote[s].handle
  PROVE  Inv'
<1> USE ServerConstants DEF ServerConstants
<1>0. /\ thread[t] = "idle" /\ thread' = [thread EXCEPT ![t] = "waiting"] /\ queue' = Append(queue, q)
      /\ UNCHANGED <<ctrls, nextHandle, serverLock, job, made, closings, raised>>
  BY DEF Ask, history
<1>1. Types' BY <1>0 DEF Inv, Types
<1>2. ThreadInv'
  <2> SUFFICES ASSUME NEW u \in Threads
               PROVE  thread'[u] = "dead" <=> remote'[RemoteOf[u]].at = "dead"
    BY DEF ThreadInv
  <2>1. thread[u] = "dead" <=> remote[RemoteOf[u]].at = "dead" BY DEF Inv, ThreadInv
  <2>2. RemoteOf[u] \in Remotes OBVIOUS
  <2>3. thread'[u] = "dead" <=> thread[u] = "dead" BY <1>0 DEF Inv, Types
  <2>4. remote'[RemoteOf[u]].at = "dead" <=> remote[RemoteOf[u]].at = "dead" BY <2>2
  <2>5. QED BY <2>1, <2>3, <2>4
<1>3. ASSUME NEW p \in Requests, Sound(p) PROVE Keeps(p)
  <2>1. For(p) \in Remotes BY DEF For, Requests
  <2>2. remote'[For(p)] = remote[For(p)] BY <1>3, <2>1 DEF Sound
  <2>3. nextHandle' >= nextHandle BY <1>0 DEF Inv, Types
  <2>4. QED BY <1>0, <2>2, <2>3 DEF Keeps, Owned
<1>4. QueueInv'
  <2>0. /\ DOMAIN queue' = 1 .. Len(queue) + 1 /\ queue'[Len(queue) + 1] = q
        /\ \A i \in 1 .. Len(queue) : queue'[i] = queue[i]
    BY <1>0, AppendProperties DEF Inv, Types
  <2>d. DOMAIN queue = 1 .. Len(queue) /\ Len(queue) \in Nat BY LenProperties DEF Inv, Types
  <2>1. ASSUME NEW i \in DOMAIN queue
        PROVE  /\ Sound(queue[i])' /\ queue'[i] = queue[i] /\ queue[i].at \in {"create", "discard", "look_up"}
               /\ Apart(queue[i], q)
    <3>1. queue[i] \in Requests /\ Sound(queue[i]) /\ queue'[i] = queue[i]
      BY <2>0, <2>d DEF Inv, Types, QueueInv
    <3>2. QED BY <1>1, <1>3, <2>0, <2>d, <3>1, SoundKept DEF Inv, QueueInv
  <2>2. ASSUME NEW i \in DOMAIN queue'
        PROVE  Sound(queue[i])' /\ queue'[i].at \in {"create", "discard", "look_up"}
    BY <2>0, <2>d, <2>1
  <2>3. ASSUME NEW i \in DOMAIN queue', NEW j \in DOMAIN queue', i # j
        PROVE  Apart(queue[i], queue[j])'
    <3>1. CASE i \in DOMAIN queue /\ j \in DOMAIN queue
      <4>1. Apart(queue[i], queue[j]) BY <2>3, <3>1 DEF Inv, QueueInv
      <4>2. QED BY <2>1, <3>1, <4>1, ApartIsRigid
    <3>2. CASE i \in DOMAIN queue /\ j = Len(queue) + 1
      BY <2>0, <2>1, <3>2, ApartIsRigid
    <3>3. CASE j \in DOMAIN queue /\ i = Len(queue) + 1
      BY <2>0, <2>1, <3>3, ApartIsRigid
    <3>4. QED BY <2>0, <2>d, <2>3, <3>1, <3>2, <3>3
  <2>4. ASSUME NEW i \in DOMAIN queue', NEW v \in PoolThreads, Busy(v)'
        PROVE  Apart(queue[i], job[v])'
    <3>1. Busy(v) /\ job'[v] = job[v] BY <1>0, <2>4 DEF Busy
    <3>2. job[v] \in Requests /\ Sound(job[v]) BY <3>1 DEF Inv, Types, Busy, JobInv, Working
    <3>3. CASE i \in DOMAIN queue
      <4>1. Apart(queue[i], job[v]) BY <3>1, <3>3 DEF Inv, QueueInv
      <4>2. QED BY <2>1, <3>1, <3>3, <4>1, ApartIsRigid
    <3>4. CASE i = Len(queue) + 1 BY <2>0, <3>1, <3>2, <3>4, ApartIsRigid
    <3>5. QED BY <2>0, <2>d, <3>3, <3>4
  <2>5. QED BY <2>2, <2>3, <2>4 DEF QueueInv
<1>5. JobInv'
  <2>1. ASSUME NEW w \in PoolThreads, Busy(w)' PROVE Working(w)'
    <3>1. Busy(w) /\ job'[w] = job[w] /\ Working(w) BY <1>0, <2>1 DEF Busy, Inv, JobInv
    <3>2. job[w] \in Requests /\ Sound(job[w]) BY <3>1 DEF Inv, Types, Busy, Working
    <3>3. StaysMade BY <1>0 DEF StaysMade
    <3>4. QED BY <1>0, <1>1, <1>3, <3>1, <3>2, <3>3, WorkingKept DEF Inv
  <2>2. ASSUME NEW u \in PoolThreads, NEW v \in PoolThreads, u # v, Busy(u)', Busy(v)'
        PROVE  Apart(job[u], job[v])'
    <3>1. Apart(job[u], job[v]) BY <1>0, <2>2 DEF Inv, JobInv, Busy
    <3>2. QED BY <1>0, <3>1, ApartIsRigid
  <2>3. QED BY <2>1, <2>2 DEF JobInv
<1>6. LockInv' BY <1>0 DEF Inv, LockInv, Busy
<1>7. TableInv' BY <1>0, TablesKept DEF Inv, At
<1>8. RemoteInv'
  <2> SUFFICES ASSUME NEW r \in Remotes
               PROVE  /\ remote'[r].handle # NoHandle =>
                           /\ remote'[r].at \in {"open", "dead"} /\ remote'[r].handle < nextHandle'
                           /\ Owned(remote[r].handle, r)'
                      /\ remote'[r].at = "new" => \A c \in DOMAIN made' : made'[c] # r
    BY DEF RemoteInv
  <2>1. nextHandle \in Nat /\ nextHandle' \in Nat /\ nextHandle' >= nextHandle BY <1>0 DEF Inv, Types
  <2>2. QED BY <1>0, <2>1, RemotesKept DEF Inv
<1>9. MadeInv' BY <1>0 DEF Inv, MadeInv
<1>10. LeftInv'
  <2> SUFFICES ASSUME NEW c \in DOMAIN made PROVE Accounted(c)' BY <1>0 DEF LeftInv
  <2>1. made[c] \in Remotes /\ Accounted(c) BY DEF Inv, Types, LeftInv
  <2>2. /\ remote'[made[c]].kind = remote[made[c]].kind /\ remote'[made[c]].handle = remote[made[c]].handle
        /\ (remote[made[c]].at = "dead" => remote'[made[c]].at = "dead")
    BY <2>1
  <2>3. \A h : Handled(c, h) => Handled(c, h)' BY <1>0, <2>2 DEF Handled, At
  <2>4. QED BY <1>0, <2>1, <2>2, <2>3 DEF Accounted, At
<1>11. QED BY <1>1, <1>2, <1>4, <1>5, <1>6, <1>7, <1>8, <1>9, <1>10 DEF Inv

(* A new request says what its remote controller is.                       *)
LEMMA RequestIsSound ==
  ASSUME Types, NEW t \in Threads, NEW at \in Places, NEW setting \in Settings, NEW asked \in Asked
  PROVE  LET q == Request(t, at, setting, asked) IN
         /\ q \in Requests /\ For(q) = RemoteOf[t] /\ q.at = at /\ q.asked = asked
         /\ q.setting = setting /\ q.from = t
         /\ q.kind = remote[RemoteOf[t]].kind /\ q.handle = remote[RemoteOf[t]].handle
<1>1. RemoteOf[t] \in Remotes /\ remote[RemoteOf[t]] \in RemoteStates
  BY ServerConstants DEF ServerConstants, Types
<1>2. QED BY <1>1 DEF Request, Requests, RemoteStates, For

(* Until it connects, a remote controller has no controller and no request. *)
LEMMA ConnectKeepsInv == ASSUME Inv, NEW t \in Threads, Connect(t) PROVE Inv'
<1> DEFINE r == RemoteOf[t]
<1>0. PICK q : q = Request(t, "create", "create", "create") OBVIOUS
<1>1. r \in Remotes /\ remote[r] \in RemoteStates /\ remote[r].at = "new"
  BY ServerConstants DEF ServerConstants, Inv, Types, Connect
<1>2. Ask(t, q) /\ remote' = [remote EXCEPT ![r].at = "connecting"] BY <1>0 DEF Connect
<1>3. /\ q \in Requests /\ For(q) = r /\ q.at = "create" /\ q.asked = "create"
      /\ q.kind = remote[r].kind
  BY <1>0, RequestIsSound DEF Inv, Places, Settings, Asked
<1>4. /\ remote' \in [Remotes -> RemoteStates] /\ remote'[r].at = "connecting"
      /\ remote'[r].kind = remote[r].kind /\ remote'[r].handle = remote[r].handle
      /\ \A s \in Remotes : s # r => remote'[s] = remote[s]
  BY <1>1, <1>2 DEF Inv, Types, RemoteStates
<1>5. Sound(q)'
  <2>1. (For(q) = r)' /\ Creates(q) /\ Creates(q)' BY <1>3 DEF For, Creates
  <2>2. \A c \in DOMAIN made' : made'[c] # r
    <3>1. made' = made BY <1>2 DEF Ask, history
    <3>2. QED BY <1>1, <3>1 DEF Inv, RemoteInv
  <2>3. q.kind = remote'[r].kind /\ remote'[r].at = "connecting" BY <1>3, <1>4
  <2>4. QED BY <1>3, <2>1, <2>2, <2>3 DEF Sound
<1>6. ASSUME NEW p \in Requests, Sound(p) PROVE Apart(p, q)
  BY <1>1, <1>3, <1>6 DEF Sound, Apart
<1>7. QED BY <1>1, <1>2, <1>3, <1>4, <1>5, <1>6, AskKeepsInv

(* Requests of a remote controller that has a handle. *)
LEMMA UseKeepsInv ==
  ASSUME Inv, NEW t \in Threads, NEW q \in Requests, Ask(t, q), UNCHANGED remote,
         For(q) = RemoteOf[t], q.kind = remote[RemoteOf[t]].kind, q.handle = remote[RemoteOf[t]].handle,
         remote[RemoteOf[t]].at = "open", q.handle # NoHandle,
         (Discards(q) /\ q.at = "discard") \/ (Calls(q) /\ q.at = "look_up")
  PROVE  Inv'
<1> DEFINE r == RemoteOf[t]
<1>1. r \in Remotes BY ServerConstants DEF ServerConstants
<1>2. q.handle \in Nat /\ q.handle < nextHandle /\ Owned(q.handle, r) BY <1>1 DEF Requests, Inv, RemoteInv
<1>3. UNCHANGED <<ctrls, nextHandle, made>> BY DEF Ask, history
<1>4. Sound(q)'
  <2>1. (For(q) = r)' BY DEF For
  <2>2. Owned(q.handle, r)' BY <1>2, <1>3 DEF Owned
  <2>3. ~Creates(q) /\ ~Creates(q)' /\ (Discards(q)' \/ Calls(q)') BY DEF Creates, Discards, Calls
  <2> HIDE DEF r
  <2>4. q.kind = remote'[r].kind /\ remote'[r].at = "open" /\ remote'[r].handle = q.handle BY DEF r
  <2>5. q.handle < nextHandle' BY <1>2, <1>3
  <2>6. QED BY <1>2, <2>1, <2>2, <2>3, <2>4, <2>5 DEF Sound
<1>5. ASSUME NEW p \in Requests PROVE Apart(p, q) BY DEF Apart, Creates, Discards, Calls
<1>6. QED BY <1>4, <1>5, AskKeepsInv DEF Inv, Types, Discards, Calls

(* disconnect is a use of the handle ...                                   *)
LEMMA DisconnectKeepsInv == ASSUME Inv, NEW t \in Threads, Disconnect(t) PROVE Inv'
<1>0. PICK q : q = Request(t, "discard", "discard", "discard") OBVIOUS
<1>1. /\ Ask(t, q) /\ UNCHANGED remote /\ remote[RemoteOf[t]].at = "open"
      /\ remote[RemoteOf[t]].handle # NoHandle
  BY <1>0 DEF Disconnect
<1>2. /\ q \in Requests /\ For(q) = RemoteOf[t] /\ q.at = "discard" /\ q.asked = "discard"
      /\ q.kind = remote[RemoteOf[t]].kind /\ q.handle = remote[RemoteOf[t]].handle
  BY <1>0, RequestIsSound DEF Inv, Places, Settings, Asked
<1>3. Discards(q) /\ q.at = "discard" /\ q.handle # NoHandle BY <1>1, <1>2 DEF Discards
<1>4. QED BY <1>1, <1>2, <1>3, UseKeepsInv

(* ... and so is every other method.                                       *)
LEMMA CallRemoteKeepsInv ==
  ASSUME Inv, NEW t \in Threads, NEW m, CallRemote(t, m) PROVE Inv'
<1>k. PICK k : k = remote[RemoteOf[t]].kind OBVIOUS
<1>0. PICK q : q = Request(t, "look_up", Setting(k, m), m) OBVIOUS
<1>1. /\ Ask(t, q) /\ UNCHANGED remote /\ remote[RemoteOf[t]].at = "open"
      /\ remote[RemoteOf[t]].handle # NoHandle /\ m \in Methods(k)
  BY <1>k, <1>0 DEF CallRemote
<1>2. k \in Kinds BY <1>k, ServerConstants DEF ServerConstants, Inv, Types, RemoteStates
<1>3. m \in Asked /\ Setting(k, m) \in Settings BY <1>1, <1>2 DEF Asked, AllMethods, Settings
<1>4. /\ q \in Requests /\ For(q) = RemoteOf[t] /\ q.at = "look_up" /\ q.asked = m
      /\ q.setting = Setting(k, m)
      /\ q.kind = k /\ q.handle = remote[RemoteOf[t]].handle
  BY <1>k, <1>0, <1>3, RequestIsSound DEF Inv, Places
<1>5. Calls(q) BY <1>1, <1>4 DEF Calls
<1>6. QED BY <1>k, <1>1, <1>4, <1>5, UseKeepsInv

(* A program dies. *)
LEMMA DieKeepsInv == ASSUME Inv, NEW r \in Remotes, Die(r) PROVE Inv'
<1> USE ServerConstants DEF ServerConstants
<1>0. /\ remote' = [remote EXCEPT ![r].at = "dead"]
      /\ thread' = [t \in Threads |-> IF RemoteOf[t] = r THEN "dead" ELSE thread[t]]
      /\ UNCHANGED <<ctrls, nextHandle, serverLock, queue, job, made, closings, raised>>
  BY DEF Die, serverVars, history
<1>1. /\ remote' \in [Remotes -> RemoteStates] /\ remote'[r].at = "dead"
      /\ \A s \in Remotes : /\ remote'[s].kind = remote[s].kind /\ remote'[s].handle = remote[s].handle
                            /\ s # r => remote'[s] = remote[s]
  <2>1. /\ remote \in [Remotes -> RemoteStates] /\ remote[r] \in RemoteStates
        /\ remote' = [s \in Remotes |-> IF s = r THEN [remote[r] EXCEPT !.at = "dead"] ELSE remote[s]]
    BY <1>0 DEF Inv, Types
  <2>2. PICK new : new = [remote[r] EXCEPT !.at = "dead"] OBVIOUS
  <2>3. /\ new \in RemoteStates /\ new.at = "dead"
        /\ new.kind = remote[r].kind /\ new.handle = remote[r].handle
    BY <2>1, <2>2 DEF RemoteStates
  <2>4. QED BY <2>1, <2>2, <2>3
<1>2. Types' BY <1>0, <1>1 DEF Inv, Types
<1>3. ThreadInv'
  <2> SUFFICES ASSUME NEW t \in Threads
               PROVE  thread'[t] = "dead" <=> remote'[RemoteOf[t]].at = "dead"
    BY DEF ThreadInv
  <2>1. RemoteOf[t] \in Remotes OBVIOUS
  <2>2. QED BY <1>0, <1>1, <2>1 DEF Inv, ThreadInv
<1>4. ASSUME NEW q \in Requests PROVE Keeps(q)
  <2> DEFINE s == For(q)
  <2>0. s \in Remotes BY DEF For, Requests
  <2> HIDE DEF s
  <2>1. remote'[s].at \in {remote[s].at, "dead"} BY <1>1, <2>0
  <2>2. nextHandle' >= nextHandle BY <1>0 DEF Inv, Types
  <2>3. \A h : Owned(h, s) => Owned(h, s)' BY <1>0, <1>1, <2>0 DEF Owned
  <2>4. QED BY <1>0, <1>1, <2>0, <2>1, <2>2, <2>3 DEF Keeps, s
<1>6. QueueInv'
  <2>1. ASSUME NEW i \in DOMAIN queue
        PROVE  Sound(queue[i])' /\ queue'[i].at \in {"create", "discard", "look_up"}
    <3>1. queue[i] \in Requests /\ Sound(queue[i]) BY DEF Inv, Types, QueueInv
    <3>2. QED BY <1>0, <1>2, <1>4, <3>1, SoundKept DEF Inv, QueueInv
  <2>2. ASSUME NEW i \in DOMAIN queue, NEW j \in DOMAIN queue, i # j
        PROVE  Apart(queue[i], queue[j])'
    BY <1>0, <2>2, ApartIsRigid DEF Inv, QueueInv
  <2>3. ASSUME NEW i \in DOMAIN queue, NEW w \in PoolThreads, Busy(w)
        PROVE  Apart(queue[i], job[w])'
    BY <1>0, <2>3, ApartIsRigid DEF Inv, QueueInv
  <2>4. QED BY <1>0, <2>1, <2>2, <2>3 DEF QueueInv, Busy
<1>7. JobInv'
  <2>1. ASSUME NEW w \in PoolThreads, Busy(w) PROVE Working(w)'
    <3>1. Working(w) /\ job[w] \in Requests BY <2>1 DEF Inv, Types, JobInv, Busy
    <3>2. StaysMade BY <1>0 DEF StaysMade
    <3>3. QED BY <1>0, <1>2, <1>4, <2>1, <3>1, <3>2, WorkingKept DEF Inv
  <2>2. ASSUME NEW u \in PoolThreads, NEW v \in PoolThreads, u # v, Busy(u), Busy(v)
        PROVE  Apart(job[u], job[v])'
    BY <1>0, <2>2, ApartIsRigid DEF Inv, JobInv
  <2>3. QED BY <1>0, <2>1, <2>2 DEF JobInv, Busy
<1>8. LockInv' BY <1>0 DEF Inv, LockInv, Busy
<1>9. TableInv' BY <1>0, <1>1, TablesKept DEF Inv, At
<1>10. RemoteInv'
  <2> SUFFICES ASSUME NEW s \in Remotes
               PROVE  /\ remote'[s].handle # NoHandle =>
                           /\ remote'[s].at \in {"open", "dead"} /\ remote'[s].handle < nextHandle'
                           /\ Owned(remote[s].handle, s)'
                      /\ remote'[s].at = "new" => \A c \in DOMAIN made' : made'[c] # s
    BY DEF RemoteInv
  <2>1. nextHandle \in Nat /\ nextHandle' \in Nat /\ nextHandle' >= nextHandle BY <1>0 DEF Inv, Types
  <2>2. /\ remote[s].at \in {"open", "dead"} => remote'[s].at \in {"open", "dead"}
        /\ remote'[s].at = "new" => remote[s].at = "new"
    BY <1>1
  <2>3. QED BY <1>0, <1>1, <2>1, <2>2, RemotesKept DEF Inv
<1>11. MadeInv' BY <1>0 DEF Inv, MadeInv
<1>12. LeftInv'
  <2> SUFFICES ASSUME NEW c \in DOMAIN made PROVE Accounted(c)' BY <1>0 DEF LeftInv
  <2>1. made[c] \in Remotes /\ Accounted(c) BY DEF Inv, Types, LeftInv
  <2>2. /\ remote'[made[c]].kind = remote[made[c]].kind /\ remote'[made[c]].handle = remote[made[c]].handle
        /\ (remote[made[c]].at = "dead" => remote'[made[c]].at = "dead")
    BY <1>1, <2>1
  <2>3. \A h : Handled(c, h) => Handled(c, h)' BY <1>0, <2>2 DEF Handled, At
  <2>4. QED BY <1>0, <2>1, <2>2, <2>3 DEF Accounted, At
<1>13. QED BY <1>2, <1>3, <1>6, <1>7, <1>8, <1>9, <1>10, <1>11, <1>12 DEF Inv

-----------------------------------------------------------------------------
(* The pool. *)

(* A request goes from the queue to a thread, as it is.                    *)
LEMMA TakeJobKeepsInv == ASSUME Inv, NEW w \in PoolThreads, TakeJob(w) PROVE Inv'
<1> DEFINE q == Head(queue)
<1>0. /\ job[w] = NoJob /\ queue # <<>>
      /\ job' = [job EXCEPT ![w] = q] /\ queue' = Tail(queue)
      /\ UNCHANGED <<ctrls, nextHandle, serverLock, remote, thread, made, closings, raised>>
  BY DEF TakeJob, history
<1>1. /\ q \in Requests /\ q = queue[1] /\ Tail(queue) \in Seq(Requests)
      /\ Len(queue) \in Nat \ {0} /\ DOMAIN queue = 1 .. Len(queue)
      /\ DOMAIN Tail(queue) = 1 .. (Len(queue) - 1)
      /\ \A i \in 1 .. (Len(queue) - 1) : Tail(queue)[i] = queue[i + 1]
  BY <1>0, EmptySeq, HeadTailProperties, ElementOfSeq, LenProperties DEF Inv, Types
<1>2. /\ \A i \in DOMAIN queue' : i + 1 \in DOMAIN queue /\ queue'[i] = queue[i + 1] /\ i + 1 # 1
      /\ \A i, j \in DOMAIN queue' : i # j => i + 1 # j + 1
      /\ 1 \in DOMAIN queue
  BY <1>0, <1>1
<1>3. /\ Busy(w)' /\ ~Busy(w) /\ job'[w] = q
      /\ \A v \in PoolThreads \ {w} : job'[v] = job[v] /\ (Busy(v)' <=> Busy(v))
  <2>1. q # NoJob BY <1>1 DEF Requests, NoJob, Places
  <2>2. QED BY <1>0, <2>1 DEF Busy, Inv, Types
<1>4. Types' BY <1>0, <1>1 DEF Inv, Types
<1>5. ThreadInv' BY <1>0 DEF Inv, ThreadInv
<1>6. ASSUME NEW p \in Requests PROVE Keeps(p)
  <2>1. nextHandle' >= nextHandle BY <1>0 DEF Inv, Types
  <2>2. QED BY <1>0, <2>1 DEF Keeps, Owned
<1>7. ASSUME NEW i \in DOMAIN queue PROVE (Sound(queue[i]) /\ queue[i] \in Requests) /\ Keeps(queue[i])
  <2>1. queue[i] \in Requests /\ Sound(queue[i]) BY DEF Inv, Types, QueueInv
  <2>2. QED BY <1>6, <2>1
<1>8. QueueInv'
  <2>1. ASSUME NEW i \in DOMAIN queue'
        PROVE  Sound(queue[i])' /\ queue'[i].at \in {"create", "discard", "look_up"}
    <3>1. PICK p \in Requests : p = queue[i + 1] BY <1>2, <1>7
    <3>2. Sound(p)' BY <1>2, <1>4, <1>7, <3>1, SoundKept DEF Inv
    <3>3. QED BY <1>2, <3>1, <3>2 DEF Inv, QueueInv
  <2>2. ASSUME NEW i \in DOMAIN queue', NEW j \in DOMAIN queue', i # j
        PROVE  Apart(queue[i], queue[j])'
    <3>1. Apart(queue[i + 1], queue[j + 1]) BY <1>2, <2>2 DEF Inv, QueueInv
    <3>2. QED BY <1>2, <3>1, ApartIsRigid
  <2>3. ASSUME NEW i \in DOMAIN queue', NEW v \in PoolThreads, Busy(v)'
        PROVE  Apart(queue[i], job[v])'
    <3>1. CASE v = w
      <4>1. Apart(queue[i + 1], queue[1]) BY <1>2 DEF Inv, QueueInv
      <4>2. QED BY <1>1, <1>2, <1>3, <3>1, <4>1, ApartIsRigid
    <3>2. CASE v # w
      <4>1. Apart(queue[i + 1], job[v]) BY <1>2, <1>3, <2>3, <3>2 DEF Inv, QueueInv
      <4>2. QED BY <1>2, <1>3, <3>2, <4>1, ApartIsRigid
    <3>3. QED BY <3>1, <3>2
  <2>4. QED BY <2>1, <2>2, <2>3 DEF QueueInv
<1>9. JobInv'
  <2>1. ASSUME NEW v \in PoolThreads, Busy(v)' PROVE Working(v)'
    <3>1. CASE v = w
      <4>1. PICK p \in Requests : p = queue[1] BY <1>2, <1>7
      <4>2. Sound(p)' BY <1>2, <1>4, <1>7, <4>1, SoundKept DEF Inv
      <4>3. p.at \in {"create", "discard", "look_up"} BY <1>2, <4>1 DEF Inv, QueueInv
      <4>4. QED BY <1>1, <1>3, <3>1, <4>1, <4>2, <4>3 DEF Working
    <3>2. CASE v # w
      <4>1. Busy(v) /\ job'[v] = job[v] BY <1>3, <2>1, <3>2
      <4>2. Working(v) /\ job[v] \in Requests BY <4>1 DEF Inv, Types, JobInv, Busy
      <4>3. StaysMade BY <1>0 DEF StaysMade
      <4>4. QED BY <1>0, <1>4, <1>6, <4>1, <4>2, <4>3, WorkingKept DEF Inv
    <3>3. QED BY <3>1, <3>2
  <2>2. ASSUME NEW u \in PoolThreads, NEW v \in PoolThreads, u # v, Busy(u)', Busy(v)'
        PROVE  Apart(job[u], job[v])'
    <3>1. CASE u = w
      <4>1. Apart(queue[1], job[v]) BY <1>2, <1>3, <2>2, <3>1 DEF Inv, QueueInv
      <4>2. QED BY <1>1, <1>3, <2>2, <3>1, <4>1, ApartIsRigid
    <3>2. CASE v = w
      <4>1. Apart(queue[1], job[u]) BY <1>2, <1>3, <2>2, <3>2 DEF Inv, QueueInv
      <4>2. QED BY <1>1, <1>3, <2>2, <3>2, <4>1, ApartIsRigid
    <3>3. CASE u # w /\ v # w
      <4>1. Apart(job[u], job[v]) BY <1>3, <2>2, <3>3 DEF Inv, JobInv
      <4>2. QED BY <1>3, <3>3, <4>1, ApartIsRigid
    <3>4. QED BY <3>1, <3>2, <3>3
  <2>3. QED BY <2>1, <2>2 DEF JobInv
<1>10. LockInv'
  <2>1. q.at \notin LockPlaces BY <1>1, <1>2 DEF Inv, QueueInv, LockPlaces
  <2>2. QED BY <1>0, <1>3, <2>1 DEF Inv, LockInv
<1>11. \A v \in PoolThreads : \A place \in {"count", "close"} :
         /\ At(v, place) => job'[v] = job[v] /\ At(v, place)'
         /\ At(v, place)' => At(v, place)
  <2>1. ~At(w, "count") /\ ~At(w, "close") BY <1>0 DEF At, NoJob
  <2>2. ~At(w, "count")' /\ ~At(w, "close")' BY <1>1, <1>2, <1>3 DEF At, Inv, QueueInv
  <2>3. QED BY <1>3, <2>1, <2>2 DEF At
<1>12. TableInv' BY <1>0, <1>11, TablesKept DEF Inv
<1>13. RemoteInv' BY <1>0 DEF Inv, RemoteInv, Owned
<1>14. MadeInv' BY <1>0 DEF Inv, MadeInv
<1>15. LeftInv'
  <2> SUFFICES ASSUME NEW c \in DOMAIN made PROVE Accounted(c)' BY <1>0 DEF LeftInv
  <2>1. Accounted(c) BY DEF Inv, LeftInv
  <2>2. \A h : Handled(c, h) => Handled(c, h)' BY <1>0, <1>11 DEF Handled
  <2>3. QED BY <1>0, <1>11, <2>1, <2>2 DEF Accounted
<1>16. QED BY <1>4, <1>5, <1>8, <1>9, <1>10, <1>12, <1>13, <1>14, <1>15 DEF Inv

(* A thread that is at a place of a method has a request.                  *)
LEMMA AtPlace ==
  ASSUME Types, NEW w \in PoolThreads, NEW place \in Places, At(w, place)
  PROVE  Busy(w) /\ job[w] \in Requests
BY DEF Types, At, Busy, NoJob, Places

(* What the remote controller learns. *)
LEMMA AnswerReaches ==
  ASSUME Types, ThreadInv, NEW w \in PoolThreads, Busy(w), Sound(job[w]),
         NEW h \in Nat \cup {NoHandle}, Answer(w, h)
  PROVE  LET r == For(job[w]) IN
         /\ r \in Remotes /\ remote' \in [Remotes -> RemoteStates] /\ ThreadInv'
         /\ thread' \in [Threads -> {"idle", "waiting", "dead"}]
         /\ \A s \in Remotes : s # r => remote'[s] = remote[s]
         /\ remote[r].at = "dead" => remote'[r] = remote[r]
         /\ remote[r].at # "dead" =>
              /\ remote'[r].kind = remote[r].kind
              /\ Creates(job[w]) => remote'[r].at = "open" /\ remote'[r].handle = h
              /\ Discards(job[w]) => remote'[r].at = remote[r].at /\ remote'[r].handle = NoHandle
              /\ Calls(job[w]) => remote'[r] = remote[r]
<1> USE ServerConstants DEF ServerConstants
<1> DEFINE j == job[w]
           t == j.from
           r == For(j)
<1>1. j \in Requests /\ t \in Threads /\ r \in Remotes /\ r = RemoteOf[t] /\ j.kind \in Kinds
  BY DEF Types, Busy, Requests, For
<1>2. remote[r] \in RemoteStates BY <1>1, SMTT(30) DEF Types
<1>3. /\ thread' = [thread EXCEPT ![t] = IF @ = "waiting" THEN "idle" ELSE @]
      /\ remote' = IF thread[t] = "dead" THEN remote
                   ELSE CASE j.asked = "create"  -> [remote EXCEPT ![r].at = "open", ![r].handle = h]
                          [] j.asked = "discard" -> [remote EXCEPT ![r].handle = NoHandle]
                          [] OTHER               -> remote
  BY DEF Answer, For
<1>4. /\ Creates(j) => j.asked = "create"
      /\ Discards(j) => j.asked = "discard"
      /\ Calls(j) => j.asked \notin {"create", "discard"}
      /\ Creates(j) \/ Discards(j) \/ Calls(j)
  <2>1. "create" \notin Methods(j.kind) /\ "discard" \notin Methods(j.kind) BY <1>1, MethodNames
  <2>2. QED BY <2>1 DEF Creates, Discards, Calls, Sound
<1>5. thread[t] = "dead" <=> remote[r].at = "dead" BY <1>1 DEF ThreadInv
<1> HIDE DEF r, t
<1>6. CASE remote[r].at = "dead"
  <2>1. remote' = remote BY <1>3, <1>5, <1>6
  <2>2. \A u \in Threads : thread'[u] = "dead" <=> thread[u] = "dead" BY <1>1, <1>3 DEF Types
  <2>3. thread' \in [Threads -> {"idle", "waiting", "dead"}] BY <1>1, <1>3 DEF Types
  <2>4. ThreadInv' BY <2>1, <2>2 DEF ThreadInv
  <2>5. QED BY <1>1, <1>6, <2>1, <2>3, <2>4 DEF Types, r
<1>7. CASE remote[r].at # "dead"
  <2>1. /\ remote' \in [Remotes -> RemoteStates] /\ remote'[r].kind = remote[r].kind
        /\ \A s \in Remotes : s # r => remote'[s] = remote[s]
        /\ Creates(j) => remote'[r].at = "open" /\ remote'[r].handle = h
        /\ Discards(j) => remote'[r].at = remote[r].at /\ remote'[r].handle = NoHandle
        /\ Calls(j) => remote'[r] = remote[r]
        /\ remote'[r].at # "dead"
    <3>1. CASE Creates(j)
      <4>1. remote' = [remote EXCEPT ![r].at = "open", ![r].handle = h]
        BY <1>3, <1>4, <1>5, <1>7, <3>1
      <4>2. /\ remote' \in [Remotes -> RemoteStates] /\ remote'[r].kind = remote[r].kind
            /\ remote'[r].at = "open" /\ remote'[r].handle = h
            /\ \A s \in Remotes : s # r => remote'[s] = remote[s]
        BY <1>1, <1>2, <4>1 DEF Types, RemoteStates
      <4>3. QED BY <1>4, <3>1, <4>2
    <3>2. CASE Discards(j)
      <4>1. remote' = [remote EXCEPT ![r].handle = NoHandle]
        BY <1>3, <1>4, <1>5, <1>7, <3>2
      <4>2. /\ remote' \in [Remotes -> RemoteStates] /\ remote'[r].kind = remote[r].kind
            /\ remote'[r].at = remote[r].at /\ remote'[r].handle = NoHandle
            /\ \A s \in Remotes : s # r => remote'[s] = remote[s]
        BY <1>1, <1>2, <4>1 DEF Types, RemoteStates
      <4>3. QED BY <1>4, <1>7, <3>2, <4>2
    <3>3. CASE Calls(j)
      <4>1. remote' = remote BY <1>3, <1>4, <3>3
      <4>2. QED BY <1>4, <1>7, <3>3, <4>1 DEF Types
    <3>4. QED BY <1>4, <3>1, <3>2, <3>3
  <2>2. thread' \in [Threads -> {"idle", "waiting", "dead"}] BY <1>1, <1>3 DEF Types
  <2>3. ThreadInv'
    <3> SUFFICES ASSUME NEW u \in Threads
                 PROVE  thread'[u] = "dead" <=> remote'[RemoteOf[u]].at = "dead"
      BY DEF ThreadInv
    <3>1. thread'[u] = "dead" <=> thread[u] = "dead" BY <1>1, <1>3 DEF Types
    <3>2. remote'[RemoteOf[u]].at = "dead" <=> remote[RemoteOf[u]].at = "dead" BY <1>7, <2>1
    <3>3. QED BY <3>1, <3>2 DEF ThreadInv
  <2>4. QED BY <1>1, <1>7, <2>1, <2>2, <2>3 DEF r
<1>8. QED BY <1>6, <1>7 DEF r

(* A request is answered. *)
LEMMA AnswerKeepsInv ==
  ASSUME Inv, NEW w \in PoolThreads, Busy(w), NEW h \in Nat \cup {NoHandle}, Answer(w, h),
         UNCHANGED <<ctrls, made>>,
         nextHandle' = IF At(w, "count") THEN nextHandle + 1 ELSE nextHandle,
         \/ ~At(w, "close") /\ UNCHANGED <<closings, raised>>
         \/ At(w, "close") /\ closings' = [closings EXCEPT ![job[w].ctrl] = @ + 1] /\ UNCHANGED raised
         \/ At(w, "close") /\ raised' = raised \cup {job[w].ctrl} /\ UNCHANGED closings,
         serverLock' = IF job[w].at \in LockPlaces THEN Nobody ELSE serverLock,
         Creates(job[w]) => h = IF At(w, "count") THEN job[w].handle ELSE NoHandle,
         At(w, "discard") => job[w].handle \notin DOMAIN ctrls[job[w].kind]
  PROVE  Inv'
<1> USE ServerConstants DEF ServerConstants
<1> DEFINE j == job[w]
           r == For(j)
<1>0. /\ j \in Requests /\ Working(w) /\ Sound(j)
      /\ Creates(j) \/ Discards(j) \/ Calls(j)
      /\ NoJob \notin Requests
  BY DEF Inv, Types, JobInv, Busy, Working, Sound, NoJob, Requests, Places
<1>1. /\ r \in Remotes /\ remote' \in [Remotes -> RemoteStates] /\ ThreadInv'
      /\ thread' \in [Threads -> {"idle", "waiting", "dead"}]
      /\ \A s \in Remotes : s # r => remote'[s] = remote[s]
      /\ remote[r].at = "dead" => remote'[r] = remote[r]
      /\ remote[r].at # "dead" =>
           /\ remote'[r].kind = remote[r].kind
           /\ Creates(j) => remote'[r].at = "open" /\ remote'[r].handle = h
           /\ Discards(j) => remote'[r].at = remote[r].at /\ remote'[r].handle = NoHandle
           /\ Calls(j) => remote'[r] = remote[r]
  BY <1>0, AnswerReaches DEF Inv
<1>2. \A s \in Remotes : remote'[s].kind = remote[s].kind BY <1>1
<1>3. queue' = queue /\ job' = [job EXCEPT ![w] = NoJob] BY DEF Answer
<1>4. /\ \A v \in PoolThreads \ {w} : job'[v] = job[v] /\ (Busy(v)' <=> Busy(v))
      /\ job'[w] = NoJob /\ ~Busy(w)'
  BY <1>3 DEF Busy, Inv, Types
<1>5. /\ nextHandle \in Nat /\ nextHandle' \in Nat /\ nextHandle' >= nextHandle
      /\ At(w, "count") => nextHandle < nextHandle'
      /\ ~At(w, "count") => nextHandle' = nextHandle
  BY DEF Inv, Types
<1>6. /\ At(w, "close") => /\ j.ctrl \in DOMAIN made /\ made[j.ctrl] = r /\ closings[j.ctrl] = 0
                           /\ \A k \in Kinds : \A g \in DOMAIN ctrls[k] : ctrls[k][g] # j.ctrl
      /\ DOMAIN closings = DOMAIN made
  BY <1>0 DEF Working, At, Inv, Types
<1>7. /\ closings' \in Seq(Nat) /\ Len(closings') = Len(made') /\ DOMAIN closings' = DOMAIN made
      /\ At(w, "close") => closings'[j.ctrl] = 1 \/ j.ctrl \in raised'
      /\ \A c \in DOMAIN made : closings'[c] = closings[c] \/ (At(w, "close") /\ c = j.ctrl /\ closings'[c] = 1)
      /\ raised \subseteq raised' /\ raised' \subseteq DOMAIN made
      /\ \A c \in raised' \ raised : At(w, "close") /\ c = j.ctrl
      /\ ~At(w, "close") => UNCHANGED <<closings, raised>>
  <2>0. raised \subseteq DOMAIN made /\ closings \in Seq(Nat) /\ Len(closings) = Len(made') BY DEF Inv, Types
  <2>1. CASE At(w, "close") /\ closings' = [closings EXCEPT ![j.ctrl] = @ + 1] /\ UNCHANGED raised
    <3>2. closings \in Seq(Nat) /\ j.ctrl \in 1 .. Len(closings) /\ closings[j.ctrl] + 1 \in Nat
      BY <1>6, <2>1, LenProperties DEF Inv, Types
    <3>3. /\ closings' \in Seq(Nat) /\ Len(closings') = Len(closings)
          /\ \A c \in 1 .. Len(closings) : closings'[c] = IF c = j.ctrl THEN closings[c] + 1 ELSE closings[c]
      BY <2>1, <3>2, ExceptSeq
    <3>4. DOMAIN closings' = DOMAIN made /\ DOMAIN made = 1 .. Len(closings) /\ Len(closings') = Len(made')
      BY <1>6, <3>2, <3>3, LenProperties DEF Inv, Types
    <3>5. QED BY <1>6, <2>0, <2>1, <3>2, <3>3, <3>4
  <2>2. CASE At(w, "close") /\ raised' = raised \cup {j.ctrl} /\ UNCHANGED closings
    BY <1>6, <2>0, <2>2
  <2>3. CASE ~At(w, "close") /\ UNCHANGED <<closings, raised>> BY <1>6, <2>0, <2>3
  <2>4. QED BY <2>1, <2>2, <2>3
<1>8. Types'
  <2>1. job' \in [PoolThreads -> Requests \cup {NoJob}] BY <1>3 DEF Inv, Types
  <2>2. QED BY <1>1, <1>3, <1>5, <1>7, <2>1 DEF Inv, Types
<1>9. StaysMade BY DEF StaysMade
<1>10. ASSUME NEW q \in Requests, Sound(q), Apart(q, j) PROVE Keeps(q)
  <2>1. For(q) \in Remotes BY DEF For, Requests
  <2>2. remote'[For(q)].at \in {remote[For(q)].at, "dead"} /\ remote'[For(q)].handle \in {remote[For(q)].handle, NoHandle}
    <3>1. CASE For(q) # r BY <1>1, <2>1, <3>1
    <3>2. CASE For(q) = r
      <4>1. Creates(j) => remote[r].at = "dead"
        <5>1. Creates(j) => remote[r].at \in {"connecting", "dead"} /\ ~Creates(q)
          BY <1>0, <1>10, <3>2 DEF Sound, Apart
        <5>2. ~Creates(q) => remote[r].at \in {"open", "dead"} BY <1>10, <3>2 DEF Sound
        <5>3. QED BY <5>1, <5>2
      <4>2. QED BY <1>0, <1>1, <3>2, <4>1
    <3>3. QED BY <3>1, <3>2
  <2>3. \A g : Owned(g, For(q)) => Owned(g, For(q))' BY <1>2, <2>1 DEF Owned
  <2>4. QED BY <1>2, <1>5, <2>1, <2>2, <2>3 DEF Keeps
<1>11. ASSUME NEW v \in PoolThreads \ {w}, Busy(v), job[v].at \in LockPlaces
       PROVE  UNCHANGED <<ctrls, nextHandle, made, closings, raised>> /\ j.at \notin LockPlaces
  <2>1. serverLock = v BY <1>11 DEF Inv, LockInv
  <2>2. j.at \notin LockPlaces BY <2>1 DEF Inv, LockInv
  <2>3. ~At(w, "count") /\ ~At(w, "close") BY <2>2 DEF At, LockPlaces
  <2>4. QED BY <1>5, <1>7, <2>2, <2>3
<1>12. QueueInv' /\ JobInv'
  BY <1>3, <1>8, <1>9, <1>10, <1>11, WorkerStep DEF Inv
<1>13. LockInv'
  <2>1. CASE j.at \in LockPlaces
    <3>1. serverLock = w /\ serverLock' = Nobody BY <2>1 DEF Inv, LockInv
    <3>2. \A v \in PoolThreads \ {w} : ~(Busy(v) /\ job[v].at \in LockPlaces) BY <3>1 DEF Inv, LockInv
    <3>3. QED BY <1>4, <3>1, <3>2 DEF LockInv
  <2>2. CASE j.at \notin LockPlaces
    <3>1. serverLock # w /\ serverLock' = serverLock BY <2>2 DEF Inv, LockInv
    <3>2. QED BY <1>4, <3>1 DEF Inv, LockInv
  <2>3. QED BY <2>1, <2>2
<1>14. \A k \in Kinds : \A g \in DOMAIN ctrls[k] :
         /\ ctrls[k][g] \in DOMAIN made /\ closings'[ctrls[k][g]] = closings[ctrls[k][g]]
         /\ ctrls[k][g] \in raised' => ctrls[k][g] \in raised
  BY <1>6, <1>7 DEF Inv, TableInv
<1>15. TableInv'
  <2>1. CASE At(w, "count")
    <3>1. ASSUME NEW k \in Kinds, NEW g \in DOMAIN ctrls[k]
          PROVE  /\ g \in Nat /\ ctrls[k][g] \in DOMAIN made
                 /\ closings'[ctrls[k][g]] = 0 /\ ctrls[k][g] \notin raised'
                 /\ remote'[made[ctrls[k][g]]].kind = k /\ g < nextHandle'
      <4>1. ctrls[k][g] \in DOMAIN made /\ made[ctrls[k][g]] \in Remotes BY DEF Inv, TableInv, Types
      <4>2. g \in Nat /\ g <= nextHandle BY DEF Inv, TableInv
      <4>3. g < nextHandle' BY <1>5, <2>1, <4>2
      <4>4. QED BY <1>2, <1>14, <4>1, <4>2, <4>3 DEF Inv, TableInv
    <3>2. ASSUME NEW g \in Nat, g < nextHandle' PROVE g <= nextHandle' /\ g # nextHandle'
      BY <1>5, <3>2
    <3>3. QED BY <3>1, <3>2 DEF Inv, TableInv
  <2>2. CASE ~At(w, "count")
    <3>1. \A v \in PoolThreads : At(v, "count") => At(v, "count")' /\ job'[v] = job[v] BY <1>4, <2>2 DEF At
    <3>2. QED BY <1>2, <1>5, <1>14, <2>2, <3>1, TablesKept DEF Inv
  <2>3. QED BY <2>1, <2>2
<1>16. RemoteInv'
  <2> SUFFICES ASSUME NEW s \in Remotes
               PROVE  /\ remote'[s].handle # NoHandle =>
                           /\ remote'[s].at \in {"open", "dead"} /\ remote'[s].handle < nextHandle'
                           /\ Owned(remote[s].handle, s)'
                      /\ remote'[s].at = "new" => \A c \in DOMAIN made' : made'[c] # s
    BY DEF RemoteInv
  <2>1. CASE s = r /\ Creates(j) /\ remote[r].at # "dead"
    <3>1. remote'[s].at = "open" /\ remote'[s].handle = h BY <1>1, <2>1
    <3>2. CASE ~At(w, "count") BY <2>1, <3>1, <3>2
    <3>3. CASE At(w, "count")
      <4>1. /\ h = nextHandle /\ h \in DOMAIN ctrls[j.kind] /\ made[ctrls[j.kind][h]] = r
        BY <1>0, <2>1, <3>3 DEF Working, At
      <4>2. j.kind = remote'[s].kind BY <1>0, <1>2, <2>1 DEF Sound
      <4>3. Owned(remote[s].handle, s)' BY <2>1, <3>1, <4>1, <4>2 DEF Owned
      <4>4. h < nextHandle' BY <1>5, <3>3, <4>1
      <4>5. QED BY <3>1, <4>3, <4>4
    <3>4. QED BY <3>2, <3>3
  <2>2. CASE ~(s = r /\ Creates(j) /\ remote[r].at # "dead")
    <3>1. /\ remote'[s].handle \in {remote[s].handle, NoHandle} /\ remote'[s].at = remote[s].at
      BY <1>0, <1>1, <2>2
    <3>2. QED BY <1>2, <1>5, <3>1, RemotesKept DEF Inv
  <2>3. QED BY <2>1, <2>2
<1>17. MadeInv'
  <2>1. \A c \in DOMAIN made : closings'[c] \in {0, 1} BY <1>7 DEF Inv, MadeInv
  <2>2. QED BY <2>1 DEF Inv, MadeInv
<1>18. LeftInv'
  <2> SUFFICES ASSUME NEW c \in DOMAIN made PROVE Accounted(c)' BY DEF LeftInv
  <2>1. made[c] \in Remotes /\ Accounted(c) BY DEF Inv, Types, LeftInv
  <2>2. CASE closings[c] = 1 \/ c \in raised
    <3>1. closings'[c] = 1 \/ c \in raised' BY <1>7, <2>2
    <3>2. QED BY <3>1 DEF Accounted
  <2>3. ASSUME NEW v \in PoolThreads, At(v, "close"), job[v].ctrl = c PROVE Accounted(c)'
    <3>1. CASE v = w
      <4>1. closings'[c] = 1 \/ c \in raised' BY <1>7, <2>3, <3>1
      <4>2. QED BY <4>1 DEF Accounted
    <3>2. CASE v # w
      <4>1. At(v, "close")' /\ job'[v].ctrl = c BY <1>4, <2>3, <3>2 DEF At
      <4>2. QED BY <4>1 DEF Accounted
    <3>3. QED BY <3>1, <3>2
  <2>4. ASSUME NEW g \in DOMAIN ctrls[remote[made[c]].kind], Handled(c, g) PROVE Accounted(c)'
    <3> DEFINE s == made[c]
    <3>0. /\ g \in Nat /\ g # NoHandle /\ ctrls[remote[s].kind][g] = c /\ remote[s].kind \in Kinds
          /\ remote'[s].kind = remote[s].kind
      BY <1>2, <2>1, <2>4 DEF Inv, Types, TableInv, Handled, RemoteStates
    <3> SUFFICES (\/ remote'[s].handle = g \/ remote'[s].at = "dead"
                  \/ \E v \in PoolThreads : At(v, "count")' /\ job'[v].handle = g)
                 \/ closings'[c] = 1 \/ c \in raised'
      BY <3>0 DEF Accounted, Handled
    <3>1. CASE remote[s].at = "dead" BY <1>1, <2>1, <3>1
    <3>2. ASSUME NEW v \in PoolThreads, At(v, "count"), job[v].handle = g, remote[s].at # "dead"
          PROVE  remote'[s].handle = g \/ (At(v, "count")' /\ job'[v].handle = g)
      <4>1. CASE v # w BY <1>4, <3>2, <4>1 DEF At
      <4>2. CASE v = w
        <5>1. g = nextHandle /\ made[ctrls[j.kind][g]] = r /\ Creates(j)
          BY <1>0, <3>2, <4>2 DEF Working, At, Sound, Creates, Discards, Calls
        <5>2. j.kind = remote[r].kind /\ g \in DOMAIN ctrls[j.kind] BY <1>0, <3>2, <4>2, SMTT(30) DEF Sound, Working, At
        <5>3. ctrls[j.kind][g] \in DOMAIN made /\ remote[made[ctrls[j.kind][g]]].kind = j.kind
          BY <5>2, <1>0 DEF Inv, TableInv, Requests
        <5>4. s = r
          <6>1. PICK u \in PoolThreads : At(u, "count") /\ job[u].kind = remote[s].kind
            BY <2>4, <3>0, <5>1 DEF Inv, TableInv
          <6>2. u = w
            <7>1. Busy(u) /\ job[u].at \in LockPlaces /\ j.at \in LockPlaces
              BY <3>2, <4>2, <6>1, AtPlace DEF Inv, Places, LockPlaces, At
            <7>2. QED BY <7>1 DEF Inv, LockInv
          <6>3. QED BY <3>0, <5>1, <6>1, <6>2
        <5>5. QED BY <1>1, <3>2, <4>2, <5>1, <5>4
      <4>3. QED BY <4>1, <4>2
    <3>3. CASE remote[s].handle = g /\ remote[s].at # "dead"
      <4>1. CASE s # r BY <1>1, <2>1, <3>3, <4>1
      <4>2. CASE s = r /\ Creates(j)
        <5>1. remote[s].at = "connecting" BY <1>0, <3>3, <4>2 DEF Sound
        <5>2. remote[s].handle = NoHandle BY <2>1, <5>1, <3>0, <3>3 DEF Inv, RemoteInv
        <5>3. QED BY <3>0, <3>3, <5>2
      <4>3. CASE s = r /\ Discards(j)
        <5>1. CASE At(w, "close")
          <6>1. c = j.ctrl BY <1>6, <4>3, <5>1 DEF Inv, MadeInv
          <6>2. QED BY <1>7, <5>1, <6>1
        <5>2. CASE At(w, "discard")
          <6>1. remote[r].handle = j.handle BY <1>0, <3>0, <3>3, <4>3, <5>2 DEF Sound, At
          <6>2. j.kind = remote[r].kind BY <1>0 DEF Sound
          <6>3. QED BY <2>4, <3>3, <4>3, <5>2, <6>1, <6>2
        <5>3. QED BY <4>3, <5>1, <5>2 DEF Discards, At
      <4>4. CASE s = r /\ Calls(j) BY <1>1, <3>3, <4>4
      <4>5. QED BY <1>0, <4>1, <4>2, <4>3, <4>4
    <3>4. QED BY <2>4, <3>1, <3>2, <3>3 DEF Handled
  <2>5. QED BY <2>1, <2>2, <2>3, <2>4 DEF Accounted
<1>19. QED BY <1>1, <1>8, <1>12, <1>13, <1>15, <1>16, <1>17, <1>18 DEF Inv

(* The steps that answer. *)

(* A constructor raises: the handle stays free.                            *)
LEMMA ConstructRaisesKeepsInv == ASSUME Inv, NEW w \in PoolThreads, ConstructRaises(w) PROVE Inv'
<1>1. At(w, "construct") /\ Busy(w) BY AtPlace DEF ConstructRaises, Inv, Places
<1>2. ~At(w, "count") /\ ~At(w, "close") /\ ~At(w, "discard") /\ job[w].at \in LockPlaces
  BY <1>1 DEF At, LockPlaces
<1>3. /\ Answer(w, NoHandle) /\ serverLock' = Nobody
      /\ UNCHANGED <<ctrls, nextHandle, made, closings, raised>>
  BY DEF ConstructRaises, history
<1>4. QED BY <1>1, <1>2, <1>3, AnswerKeepsInv

(* The handle is given out when the next one is made.                      *)
LEMMA CountHandleKeepsInv == ASSUME Inv, NEW w \in PoolThreads, CountHandle(w) PROVE Inv'
<1>1. At(w, "count") /\ Busy(w) /\ job[w] \in Requests BY AtPlace DEF CountHandle, Inv, Places
<1>2. ~At(w, "close") /\ ~At(w, "discard") /\ job[w].at \in LockPlaces BY <1>1 DEF At, LockPlaces
<1>3. /\ Answer(w, job[w].handle) /\ serverLock' = Nobody /\ nextHandle' = nextHandle + 1
      /\ UNCHANGED <<ctrls, made, closings, raised>>
  BY DEF CountHandle, history
<1>4. job[w].handle \in Nat \cup {NoHandle} BY <1>1 DEF Requests
<1>5. QED BY <1>1, <1>2, <1>3, <1>4, AnswerKeepsInv

(* The controller that was taken out of its table is closed.               *)
LEMMA CloseCtrlKeepsInv == ASSUME Inv, NEW w \in PoolThreads, CloseCtrl(w) PROVE Inv'
<1>1. At(w, "close") /\ Busy(w) /\ job[w] \in Requests BY AtPlace DEF CloseCtrl, Inv, Places
<1>2. ~At(w, "count") /\ ~At(w, "discard") /\ job[w].at \in LockPlaces BY <1>1 DEF At, LockPlaces
<1>3. /\ Answer(w, NoHandle) /\ serverLock' = Nobody
      /\ closings' = [closings EXCEPT ![job[w].ctrl] = @ + 1] /\ UNCHANGED <<ctrls, nextHandle, made, raised>>
  BY DEF CloseCtrl
<1>4. QED BY <1>1, <1>2, <1>3, AnswerKeepsInv

(* ... or stays with those whose close has raised.                         *)
LEMMA CloseRaisesKeepsInv == ASSUME Inv, NEW w \in PoolThreads, CloseRaises(w) PROVE Inv'
<1>1. At(w, "close") /\ Busy(w) /\ job[w] \in Requests BY AtPlace DEF CloseRaises, Inv, Places
<1>2. ~At(w, "count") /\ ~At(w, "discard") /\ job[w].at \in LockPlaces BY <1>1 DEF At, LockPlaces
<1>3. /\ Answer(w, NoHandle) /\ serverLock' = Nobody
      /\ raised' = raised \cup {job[w].ctrl} /\ UNCHANGED <<ctrls, nextHandle, made, closings>>
  BY DEF CloseRaises
<1>4. QED BY <1>1, <1>2, <1>3, AnswerKeepsInv

(* A handle that is not in the table.                                      *)
LEMMA UnknownHandleKeepsInv == ASSUME Inv, NEW w \in PoolThreads, UnknownHandle(w) PROVE Inv'
<1>1. (At(w, "discard") \/ At(w, "look_up")) /\ Busy(w) BY AtPlace DEF UnknownHandle, Inv, Places
<1>2. ~At(w, "count") /\ ~At(w, "close") /\ job[w].at \notin LockPlaces BY <1>1 DEF At, LockPlaces
<1>3. /\ Answer(w, NoHandle) /\ job[w].handle \notin DOMAIN ctrls[job[w].kind]
      /\ UNCHANGED <<ctrls, nextHandle, serverLock, made, closings, raised>>
  BY DEF UnknownHandle, Table, history
<1>4. QED BY <1>1, <1>2, <1>3, AnswerKeepsInv

(* A method that returns or raises.                                        *)
LEMMA ServeKeepsInv == ASSUME Inv, NEW w \in PoolThreads, Serve(w) PROVE Inv'
<1>1. At(w, "call") /\ Busy(w) BY AtPlace DEF Serve, Inv, Places
<1>2. ~At(w, "count") /\ ~At(w, "close") /\ ~At(w, "discard") /\ job[w].at \notin LockPlaces
  BY <1>1 DEF At, LockPlaces
<1>3. /\ Answer(w, NoHandle) /\ UNCHANGED <<ctrls, nextHandle, serverLock, made, closings, raised>>
  BY DEF Serve, history
<1>4. QED BY <1>1, <1>2, <1>3, AnswerKeepsInv

-----------------------------------------------------------------------------
(* The steps that go on. *)

(* A step that changes the place of a thread and nothing else.             *)
LEMMA MoveKeepsInv ==
  ASSUME Inv, NEW w \in PoolThreads, Busy(w), NEW new \in Requests, job' = [job EXCEPT ![w] = new],
         For(new) = For(job[w]), Creates(new) => Creates(job[w]), Working(w)', LockInv',
         job[w].at \notin {"count", "close"}, new.at \notin {"count", "close"},
         UNCHANGED <<ctrls, nextHandle, queue, remote, thread, made, closings, raised>>
  PROVE  Inv'
<1>1. /\ \A v \in PoolThreads \ {w} : job'[v] = job[v] /\ (Busy(v)' <=> Busy(v))
      /\ job'[w] = new
  BY DEF Busy, Inv, Types
<1>2. Types' BY DEF Inv, Types
<1>3. ThreadInv' BY DEF Inv, ThreadInv
<1>4. ASSUME NEW p \in Requests PROVE Keeps(p)
  <2>1. nextHandle' >= nextHandle BY DEF Inv, Types
  <2>2. QED BY <2>1 DEF Keeps, Owned
<1>5. StaysMade BY DEF StaysMade
<1>6. QueueInv' /\ JobInv' BY <1>2, <1>4, <1>5, WorkerStep DEF Inv
<1>7. \A v \in PoolThreads : \A place \in {"count", "close"} :
        At(v, place) => job'[v] = job[v] /\ At(v, place)'
  BY <1>1 DEF At
<1>8. TableInv' BY <1>7, TablesKept DEF Inv
<1>9. RemoteInv' BY DEF Inv, RemoteInv, Owned
<1>10. MadeInv' BY DEF Inv, MadeInv
<1>11. LeftInv'
  <2> SUFFICES ASSUME NEW c \in DOMAIN made PROVE Accounted(c)' BY DEF LeftInv
  <2>1. Accounted(c) BY DEF Inv, LeftInv
  <2>2. \A h : Handled(c, h) => Handled(c, h)' BY <1>7 DEF Handled
  <2>3. QED BY <1>7, <2>1, <2>2 DEF Accounted
<1>12. QED BY <1>2, <1>3, <1>6, <1>8, <1>9, <1>10, <1>11 DEF Inv

(* The next handle is read under the lock.                                 *)
LEMMA ReadHandleKeepsInv == ASSUME Inv, NEW w \in PoolThreads, ReadHandle(w) PROVE Inv'
<1> DEFINE j == job[w]
<1>1. At(w, "create") /\ Busy(w) /\ j \in Requests BY AtPlace DEF ReadHandle, Inv, Places
<1>2. /\ serverLock = Nobody /\ serverLock' = w
      /\ UNCHANGED <<ctrls, nextHandle, queue, remote, thread, made, closings, raised>>
  BY DEF ReadHandle, Acquire, history
<1>3. PICK new : new = [[j EXCEPT !.handle = nextHandle] EXCEPT !.at = "construct"] OBVIOUS
<1>4. /\ new \in Requests /\ job' = [job EXCEPT ![w] = new] /\ new.at = "construct"
      /\ new.asked = j.asked /\ new.from = j.from /\ new.kind = j.kind /\ new.handle = nextHandle
  BY <1>1, <1>3 DEF ReadHandle, Continues, Requests, Places, Inv, Types
<1>5. Sound(j) /\ Creates(j)
  BY <1>1 DEF Inv, JobInv, Working, Sound, Creates, Discards, Calls, At
<1>6. For(new) = For(j) /\ Creates(new) BY <1>1, <1>4, <1>5 DEF For, Creates
<1>7. job'[w] = new /\ \A v \in PoolThreads \ {w} : job'[v] = job[v] BY <1>4 DEF Inv, Types
<1>8. new # NoJob BY <1>4 DEF Requests, NoJob, Places
<1>9. Working(w)'
  <2>1. Sound(new)'
    <3>1. For(new)' = For(j) /\ Creates(new)' BY <1>6 DEF For, Creates
    <3>2. /\ \A c \in DOMAIN made : made[c] # For(j)
          /\ j.kind = remote[For(j)].kind /\ remote[For(j)].at \in {"connecting", "dead"}
      BY <1>1, <1>5 DEF Sound, At
    <3>3. QED BY <1>2, <1>4, <3>1, <3>2 DEF Sound
  <2>2. QED BY <1>2, <1>4, <1>7, <2>1 DEF Working
<1>10. LockInv'
  <2>1. \A v \in PoolThreads : ~(Busy(v) /\ job[v].at \in LockPlaces)
    BY <1>2, ServerConstants DEF Inv, LockInv, ServerConstants
  <2>2. Busy(w)' /\ job'[w].at \in LockPlaces BY <1>4, <1>7, <1>8 DEF Busy, LockPlaces
  <2>3. QED BY <1>2, <1>7, <2>1, <2>2 DEF LockInv, Busy
<1>11. QED BY <1>1, <1>2, <1>4, <1>5, <1>6, <1>9, <1>10, MoveKeepsInv DEF At

(* What is found under the handle was made for who asks.                   *)
LEMMA LookUpKeepsInv == ASSUME Inv, NEW w \in PoolThreads, LookUp(w) PROVE Inv'
<1> DEFINE j == job[w]
<1>1. At(w, "look_up") /\ Busy(w) /\ j \in Requests BY AtPlace DEF LookUp, Inv, Places
<1>2. /\ j.handle \in DOMAIN ctrls[j.kind]
      /\ UNCHANGED <<ctrls, nextHandle, serverLock, queue, remote, thread, made, closings, raised>>
  BY DEF LookUp, Table, history
<1>3. /\ Sound(j) /\ Calls(j) /\ j.asked \in Methods(j.kind) /\ j.kind \in Kinds
      /\ j.kind = remote[For(j)].kind /\ Owned(j.handle, For(j))
  BY <1>1 DEF Inv, JobInv, Working, Sound, Creates, Discards, Calls, At, Requests
<1>4. MethodFor(j.kind, j.setting) = j.asked BY <1>3, MethodOfSetting DEF Calls
<1>5. PICK c : c = ctrls[j.kind][j.handle] OBVIOUS
<1>6. c \in DOMAIN made /\ c \in Nat /\ made[c] = For(j)
  <2>1. c \in DOMAIN made BY <1>2, <1>3, <1>5 DEF Inv, TableInv
  <2>2. DOMAIN made = 1 .. Len(made) /\ Len(made) \in Nat BY LenProperties DEF Inv, Types
  <2>3. made[c] = For(j) BY <1>2, <1>3, <1>5 DEF Owned
  <2>4. QED BY <2>1, <2>2, <2>3
<1>7. PICK new : new = [[[j EXCEPT !.ctrl = c] EXCEPT !.method = j.asked] EXCEPT !.at = "call"] OBVIOUS
<1>8. /\ new \in Requests /\ job' = [job EXCEPT ![w] = new] /\ new.at = "call" /\ new.ctrl = c
      /\ new.asked = j.asked /\ new.from = j.from /\ new.kind = j.kind /\ new.method = j.asked
      /\ new.setting = j.setting
  <2>1. job' = [job EXCEPT ![w] = new]
    BY <1>4, <1>5, <1>7 DEF LookUp, Found, Table, Continues
  <2>2. QED BY <1>1, <1>6, <1>7, <2>1 DEF Requests, Places
<1>9. For(new) = For(j) /\ ~Creates(new) /\ ~Creates(j) /\ Calls(new)
  BY <1>1, <1>3, <1>8 DEF For, Creates, Calls, At
<1>10. job'[w] = new /\ \A v \in PoolThreads \ {w} : job'[v] = job[v] BY <1>8 DEF Inv, Types
<1>11. new # NoJob BY <1>8 DEF Requests, NoJob, Places
<1>12. Working(w)'
  <2>1. Sound(new)'
    <3>1. For(new)' = For(j) /\ ~Creates(new)' /\ Calls(new)' BY <1>9 DEF For, Creates, Calls
    <3>2. remote[For(j)].at \in {"open", "dead"} BY <1>3, <1>9 DEF Sound
    <3>3. QED BY <1>2, <1>3, <1>8, <3>1, <3>2 DEF Sound
  <2>2. For(new)' = For(j) BY <1>9 DEF For
  <2>3. QED BY <1>2, <1>6, <1>8, <1>10, <2>1, <2>2 DEF Working
<1>13. LockInv'
  <2>1. ~(job[w].at \in LockPlaces) /\ ~(job'[w].at \in LockPlaces)
    BY <1>1, <1>8, <1>10 DEF At, LockPlaces
  <2>2. QED BY <1>2, <1>10, <2>1 DEF Inv, LockInv, Busy
<1>14. QED BY <1>1, <1>2, <1>8, <1>9, <1>12, <1>13, MoveKeepsInv DEF At

(* A new controller under a new handle.                                    *)
LEMMA ConstructKeepsInv == ASSUME Inv, NEW w \in PoolThreads, Construct(w) PROVE Inv'
<1> USE ServerConstants DEF ServerConstants
<1>j. PICK j : j = job[w] OBVIOUS
<1>n. PICK n : n = Len(made) + 1 OBVIOUS
<1> DEFINE r == For(j)
<1>1. At(w, "construct") /\ Busy(w) /\ job[w] = j /\ j \in Requests /\ j.at = "construct"
  BY <1>j, AtPlace DEF Construct, Inv, Places, At
<1>2. /\ Sound(j) /\ Creates(j) /\ j.handle = nextHandle /\ r \in Remotes /\ j.kind \in Kinds
      /\ j.kind = remote[r].kind /\ remote[r].at \in {"connecting", "dead"}
      /\ \A c \in DOMAIN made : made[c] # r
  <2>1. Working(w) /\ Sound(j) /\ j.handle = nextHandle BY <1>1 DEF Inv, JobInv, Working
  <2>2. Creates(j) BY <1>1, <2>1 DEF Sound, Creates, Discards, Calls
  <2>3. r \in Remotes /\ j.kind \in Kinds BY <1>1 DEF For, Requests
  <2>4. QED BY <1>1, <2>1, <2>2, <2>3 DEF Sound
<1>3. UNCHANGED <<nextHandle, serverLock, queue, remote, thread, raised>> BY DEF Construct
<1>4. /\ made' = Append(made, r) /\ closings' = Append(closings, 0)
      /\ ctrls' = [ctrls EXCEPT ![j.kind] = With(@, j.handle, Len(made'))]
      /\ job' = [job EXCEPT ![w] = [j EXCEPT !.at = "count"]]
  BY <1>1 DEF Construct, Continues, For
<1>5. /\ made' \in Seq(Remotes) /\ Len(made') = n /\ n \in Nat
      /\ DOMAIN made' = DOMAIN made \cup {n} /\ n \notin DOMAIN made
      /\ made'[n] = r /\ \A c \in DOMAIN made : made'[c] = made[c]
  <2>1. /\ made \in Seq(Remotes) /\ Len(made) \in Nat /\ DOMAIN made = 1 .. Len(made)
    BY LenProperties DEF Inv, Types
  <2>2. /\ made' \in Seq(Remotes) /\ Len(made') = Len(made) + 1 /\ DOMAIN made' = 1 .. Len(made) + 1
        /\ made'[Len(made) + 1] = r /\ \A c \in 1 .. Len(made) : made'[c] = made[c]
    BY <1>2, <1>4, <2>1, AppendProperties, LenProperties
  <2>3. QED BY <1>n, <2>1, <2>2
<1>6. /\ closings' \in Seq(Nat) /\ Len(closings') = n
      /\ closings'[n] = 0 /\ \A c \in DOMAIN made : closings'[c] = closings[c]
  <2>1. /\ closings \in Seq(Nat) /\ Len(closings) = Len(made) /\ Len(made) \in Nat /\ 0 \in Nat
        /\ DOMAIN made = 1 .. Len(closings)
    BY LenProperties DEF Inv, Types
  <2>2. /\ closings' \in Seq(Nat) /\ Len(closings') = Len(closings) + 1
        /\ closings'[Len(closings) + 1] = 0 /\ \A c \in 1 .. Len(closings) : closings'[c] = closings[c]
    BY <1>4, <2>1, AppendProperties
  <2>3. QED BY <1>n, <2>1, <2>2
<1>7. /\ DOMAIN ctrls' = Kinds /\ \A k \in Kinds : k # j.kind => ctrls'[k] = ctrls[k]
      /\ DOMAIN ctrls'[j.kind] = DOMAIN ctrls[j.kind] \cup {nextHandle}
      /\ ctrls'[j.kind][nextHandle] = n
      /\ \A g \in DOMAIN ctrls[j.kind] : g # nextHandle => ctrls'[j.kind][g] = ctrls[j.kind][g]
  <2>1. DOMAIN ctrls = Kinds BY DEF Inv, Types
  <2>2. ctrls'[j.kind] = With(ctrls[j.kind], nextHandle, n) BY <1>2, <1>4, <1>5, <2>1
  <2>3. QED BY <1>2, <1>4, <2>1, <2>2 DEF With
<1>8. PICK new : new = [j EXCEPT !.at = "count"] OBVIOUS
<1>9. /\ new \in Requests /\ job' = [job EXCEPT ![w] = new] /\ new.at = "count" /\ new.handle = nextHandle
      /\ new.asked = j.asked /\ new.from = j.from /\ new.kind = j.kind
  BY <1>1, <1>2, <1>4, <1>8 DEF Requests, Places
<1>10. For(new) = r /\ Creates(new) BY <1>2, <1>9 DEF For, Creates
<1>11. job'[w] = new /\ \A v \in PoolThreads \ {w} : job'[v] = job[v] /\ (Busy(v)' <=> Busy(v))
  BY <1>9 DEF Inv, Types, Busy
<1>12. new # NoJob BY <1>9 DEF Requests, NoJob, Places
<1>13. Types'
  <2>1. job' \in [PoolThreads -> Requests \cup {NoJob}] BY <1>9 DEF Inv, Types
  <2>2. QED BY <1>3, <1>5, <1>6, <1>7, <2>1 DEF Inv, Types
<1>14. ThreadInv' BY <1>3 DEF Inv, ThreadInv
<1>15. ASSUME NEW v \in PoolThreads \ {w}, Busy(v) PROVE job[v].at \notin LockPlaces
  <2>1. serverLock = w BY <1>1 DEF Inv, LockInv, LockPlaces
  <2>2. QED BY <1>15, <2>1 DEF Inv, LockInv
<1>16. \A k \in Kinds : nextHandle \notin DOMAIN ctrls[k]
  <2>1. \A v \in PoolThreads : ~At(v, "count")
    BY <1>1, <1>15, AtPlace DEF At, LockPlaces, Inv, Places
  <2>2. QED BY <2>1 DEF Inv, TableInv
<1>17. \A k \in Kinds : \A g \in DOMAIN ctrls[k] :
         g \in DOMAIN ctrls'[k] /\ ctrls'[k][g] = ctrls[k][g] /\ g # nextHandle /\ ctrls[k][g] \in DOMAIN made
  BY <1>7, <1>16 DEF Inv, TableInv
<1>18. \A k \in Kinds : \A g \in DOMAIN ctrls'[k] :
         g \in DOMAIN ctrls[k] \/ (k = j.kind /\ g = nextHandle)
  BY <1>7
<1>19. ASSUME NEW s \in Remotes, NEW g \in Nat, g < nextHandle, Owned(g, s) PROVE Owned(g, s)'
  <2>1. remote[s].kind \in Kinds /\ remote' = remote /\ g # nextHandle
    BY <1>3, <1>19 DEF Inv, Types, RemoteStates
  <2>2. g \in DOMAIN ctrls'[remote[s].kind] => g \in DOMAIN ctrls[remote[s].kind] BY <1>18, <2>1
  <2>3. QED BY <1>5, <1>17, <1>19, <2>1, <2>2 DEF Owned
<1>20. ASSUME NEW q \in Requests, Sound(q), Apart(q, job[w]) PROVE Keeps(q)
  <2>1. For(q) \in Remotes /\ nextHandle' >= nextHandle BY <1>3 DEF For, Requests, Inv, Types
  <2>2. Creates(q) => For(q) # r BY <1>1, <1>2, <1>20 DEF Apart
  <2>3. Creates(q) => \A c \in DOMAIN made' : made'[c] = For(q) => \E d \in DOMAIN made : made[d] = For(q)
    BY <1>5, <2>2
  <2>4. QED BY <1>3, <1>19, <2>1, <2>3 DEF Keeps
<1>21. StaysMade BY <1>5 DEF StaysMade
<1>22. Working(w)'
  <2>1. Sound(new)'
    <3>1. For(new)' = r /\ Creates(new)' BY <1>10 DEF For, Creates
    <3>2. QED BY <1>2, <1>3, <1>9, <3>1 DEF Sound
  <2>2. For(new)' = r BY <1>10 DEF For
  <2>3. QED BY <1>3, <1>5, <1>7, <1>9, <1>11, <2>1, <2>2 DEF Working
<1>23. QueueInv' /\ JobInv'
  <2>1. For(new) = For(job[w]) /\ (Creates(new) => Creates(job[w])) BY <1>1, <1>2, <1>10
  <2>2. QED BY <1>1, <1>3, <1>9, <1>13, <1>15, <1>20, <1>21, <1>22, <2>1, WorkerStep DEF Inv
<1>24. LockInv'
  <2>1. serverLock = w BY <1>1 DEF Inv, LockInv, LockPlaces
  <2>2. Busy(w)' /\ job'[w].at \in LockPlaces BY <1>9, <1>11, <1>12 DEF Busy, LockPlaces
  <2>3. QED BY <1>3, <1>11, <1>15, <2>1, <2>2 DEF LockInv
<1>25. At(w, "count")' /\ job'[w].kind = j.kind /\ job'[w].handle = nextHandle BY <1>9, <1>11 DEF At
<1>26. TableInv'
  <2>1. ASSUME NEW k \in Kinds, NEW g \in DOMAIN ctrls'[k]
        PROVE  /\ g \in Nat /\ ctrls'[k][g] \in DOMAIN made'
               /\ closings'[ctrls'[k][g]] = 0 /\ ctrls'[k][g] \notin raised'
               /\ remote'[made'[ctrls'[k][g]]].kind = k
               /\ g <= nextHandle' /\ (g = nextHandle' => \E v \in PoolThreads : At(v, "count")' /\ job'[v].kind = k)
    <3>1. CASE g \in DOMAIN ctrls[k]
      <4>1. ctrls'[k][g] = ctrls[k][g] /\ ctrls[k][g] \in DOMAIN made /\ g # nextHandle BY <1>17, <3>1
      <4>2. /\ g \in Nat /\ closings[ctrls[k][g]] = 0 /\ ctrls[k][g] \notin raised
            /\ remote[made[ctrls[k][g]]].kind = k /\ g <= nextHandle
        BY <3>1 DEF Inv, TableInv
      <4>3. QED BY <1>3, <1>5, <1>6, <4>1, <4>2
    <3>2. CASE k = j.kind /\ g = nextHandle
      <4>1. g \in Nat /\ g = nextHandle' /\ g <= nextHandle' BY <1>3, <3>2 DEF Inv, Types
      <4>2. ctrls'[k][g] = n BY <1>7, <3>2
      <4>3. /\ made'[n] = r /\ n \in DOMAIN made' /\ closings'[n] = 0 /\ remote'[r].kind = k
            /\ n \notin raised'
        BY <1>2, <1>3, <1>5, <1>6, <3>2 DEF Inv, Types
      <4>4. \E v \in PoolThreads : At(v, "count")' /\ job'[v].kind = k BY <1>25, <3>2
      <4>5. QED BY <4>1, <4>2, <4>3, <4>4
    <3>3. QED BY <1>18, <3>1, <3>2
  <2>2. ASSUME NEW k \in Kinds, NEW g \in DOMAIN ctrls'[k], NEW h \in DOMAIN ctrls'[k],
               ctrls'[k][g] = ctrls'[k][h]
        PROVE  g = h
    <3>1. CASE g \in DOMAIN ctrls[k] /\ h \in DOMAIN ctrls[k] BY <1>17, <2>2, <3>1 DEF Inv, TableInv
    <3>2. CASE g \in DOMAIN ctrls[k] /\ h = nextHandle /\ k = j.kind BY <1>5, <1>7, <1>17, <2>2, <3>2
    <3>3. CASE h \in DOMAIN ctrls[k] /\ g = nextHandle /\ k = j.kind BY <1>5, <1>7, <1>17, <2>2, <3>3
    <3>4. QED BY <1>18, <3>1, <3>2, <3>3
  <2>3. QED BY <2>1, <2>2 DEF TableInv
<1>27. RemoteInv'
  <2> SUFFICES ASSUME NEW s \in Remotes
               PROVE  /\ remote[s].handle # NoHandle =>
                           /\ remote[s].at \in {"open", "dead"} /\ remote[s].handle < nextHandle
                           /\ Owned(remote[s].handle, s)'
                      /\ remote[s].at = "new" => \A c \in DOMAIN made' : made'[c] # s
    BY <1>3 DEF RemoteInv
  <2>1. remote[s].handle \in Nat \cup {NoHandle} BY DEF Inv, Types, RemoteStates
  <2>2. CASE remote[s].handle # NoHandle
    <3>1. /\ remote[s].at \in {"open", "dead"} /\ remote[s].handle < nextHandle
          /\ Owned(remote[s].handle, s)
      BY <2>2 DEF Inv, RemoteInv
    <3>2. PICK g \in Nat : g = remote[s].handle BY <2>1, <2>2
    <3>3. Owned(g, s)' BY <1>19, <3>1, <3>2
    <3>4. QED BY <1>3, <3>1, <3>2, <3>3
  <2>3. CASE remote[s].at = "new" BY <1>2, <1>5, <2>2, <2>3 DEF Inv, RemoteInv
  <2>4. QED BY <2>2, <2>3
<1>28. MadeInv'
  <2>1. \A c, d \in DOMAIN made' : made'[c] = made'[d] => c = d BY <1>2, <1>5 DEF Inv, MadeInv
  <2>2. \A c \in DOMAIN made' : closings'[c] \in {0, 1} BY <1>5, <1>6 DEF Inv, MadeInv
  <2>3. QED BY <2>1, <2>2 DEF MadeInv
<1>29. LeftInv'
  <2> SUFFICES ASSUME NEW c \in DOMAIN made' PROVE Accounted(c)' BY DEF LeftInv
  <2>1. CASE c = n
    <3>1. Handled(c, nextHandle)' BY <1>2, <1>3, <1>5, <1>7, <1>25, <2>1 DEF Handled
    <3>2. nextHandle \in DOMAIN ctrls'[remote'[made'[c]].kind] BY <1>2, <1>3, <1>5, <1>7, <2>1
    <3>3. QED BY <1>3, <3>1, <3>2 DEF Accounted
  <2>2. CASE c \in DOMAIN made
    <3>1. Accounted(c) /\ made'[c] = made[c] /\ closings'[c] = closings[c] /\ made[c] \in Remotes
      BY <1>5, <1>6, <2>2 DEF Inv, LeftInv, Types
    <3>2. remote[made[c]].kind \in Kinds BY <3>1 DEF Inv, Types, RemoteStates
    <3>3. \A v \in PoolThreads : ~At(v, "count") /\ ~At(v, "close")
      BY <1>1, <1>15, AtPlace DEF At, LockPlaces, Inv, Places
    <3>4. ASSUME NEW g \in DOMAIN ctrls[remote[made[c]].kind], Handled(c, g)
          PROVE  g \in DOMAIN ctrls'[remote'[made'[c]].kind] /\ Handled(c, g)'
      BY <1>3, <1>17, <3>1, <3>2, <3>3, <3>4 DEF Handled
    <3>5. QED BY <1>3, <3>1, <3>3, <3>4 DEF Accounted
  <2>3. QED BY <1>5, <2>1, <2>2
<1>30. QED BY <1>13, <1>14, <1>23, <1>24, <1>26, <1>27, <1>28, <1>29 DEF Inv

(* A controller is taken out of its table; it was there once.               *)
LEMMA PopCtrlKeepsInv == ASSUME Inv, NEW w \in PoolThreads, PopCtrl(w) PROVE Inv'
<1> USE ServerConstants DEF ServerConstants
<1>j. PICK j : j = job[w] OBVIOUS
<1>c. PICK c0 : c0 = ctrls[j.kind][j.handle] OBVIOUS
<1> DEFINE r == For(j)
<1>1. At(w, "discard") /\ Busy(w) /\ job[w] = j /\ j \in Requests /\ j.at = "discard"
  BY <1>j, AtPlace DEF PopCtrl, Inv, Places, At
<1>2. /\ Sound(j) /\ Discards(j) /\ r \in Remotes /\ j.kind \in Kinds /\ j.kind = remote[r].kind
      /\ remote[r].at \in {"open", "dead"} /\ Owned(j.handle, r) /\ j.handle \in Nat
  BY <1>1 DEF Inv, JobInv, Working, Sound, Creates, Discards, Calls, For, Requests
<1>3. /\ UNCHANGED <<nextHandle, queue, remote, thread, made, closings, raised>>
      /\ serverLock = Nobody /\ serverLock' = w /\ j.handle \in DOMAIN ctrls[j.kind]
  BY <1>1 DEF PopCtrl, Acquire, Table, history
<1>4. /\ ctrls' = [ctrls EXCEPT ![j.kind] = Restrict(@, DOMAIN @ \ {j.handle})]
      /\ job' = [job EXCEPT ![w] = [[j EXCEPT !.ctrl = c0] EXCEPT !.at = "close"]]
  BY <1>c, <1>1 DEF PopCtrl, Continues, Found, Table
<1>5. c0 \in DOMAIN made /\ c0 \in Nat /\ made[c0] = r /\ closings[c0] = 0
  BY <1>c, <1>2, <1>3, LenProperties DEF Owned, Inv, TableInv, Types
<1>6. /\ DOMAIN ctrls' = Kinds
      /\ \A k \in Kinds : \A g : g \in DOMAIN ctrls'[k] <=> g \in DOMAIN ctrls[k] /\ (k # j.kind \/ g # j.handle)
      /\ \A k \in Kinds : \A g \in DOMAIN ctrls'[k] : ctrls'[k][g] = ctrls[k][g]
  <2>1. DOMAIN ctrls = Kinds BY DEF Inv, Types
  <2>2. ctrls'[j.kind] = Restrict(ctrls[j.kind], DOMAIN ctrls[j.kind] \ {j.handle}) BY <1>2, <1>4, <2>1
  <2>3. \A k \in Kinds : k # j.kind => ctrls'[k] = ctrls[k] BY <1>4, <2>1
  <2>4. QED BY <1>2, <1>4, <2>1, <2>2, <2>3 DEF Restrict
<1>7. \A k \in Kinds : \A g \in DOMAIN ctrls'[k] : ctrls'[k][g] # c0
  <2> SUFFICES ASSUME NEW k \in Kinds, NEW g \in DOMAIN ctrls'[k], ctrls'[k][g] = c0 PROVE FALSE OBVIOUS
  <2>1. g \in DOMAIN ctrls[k] /\ ctrls[k][g] = c0 /\ (k # j.kind \/ g # j.handle) BY <1>6
  <2>2. k = j.kind BY <1>2, <1>5, <2>1 DEF Inv, TableInv
  <2>3. g = j.handle BY <1>c, <1>2, <1>3, <2>1, <2>2 DEF Inv, TableInv
  <2>4. QED BY <2>1, <2>2, <2>3
<1>8. PICK new : new = [[j EXCEPT !.ctrl = c0] EXCEPT !.at = "close"] OBVIOUS
<1>9. /\ new \in Requests /\ job' = [job EXCEPT ![w] = new] /\ new.at = "close" /\ new.ctrl = c0
      /\ new.asked = j.asked /\ new.from = j.from /\ new.kind = j.kind
  BY <1>1, <1>4, <1>5, <1>8 DEF Requests, Places
<1>10. For(new) = r /\ Discards(new) /\ ~Creates(new) BY <1>2, <1>9 DEF For, Creates, Discards
<1>11. job'[w] = new /\ \A v \in PoolThreads \ {w} : job'[v] = job[v] /\ (Busy(v)' <=> Busy(v))
  BY <1>9 DEF Inv, Types, Busy
<1>12. new # NoJob BY <1>9 DEF Requests, NoJob, Places
<1>13. Types'
  <2>1. job' \in [PoolThreads -> Requests \cup {NoJob}] BY <1>9 DEF Inv, Types
  <2>2. QED BY <1>3, <1>6, <2>1 DEF Inv, Types
<1>14. ThreadInv' BY <1>3 DEF Inv, ThreadInv
<1>15. ASSUME NEW v \in PoolThreads, Busy(v) PROVE job[v].at \notin LockPlaces
  BY <1>3, <1>15 DEF Inv, LockInv
<1>16. \A v \in PoolThreads : ~At(v, "count") /\ ~At(v, "close")
  BY <1>15, AtPlace DEF At, LockPlaces, Inv, Places
<1>17. ASSUME NEW s \in Remotes, NEW g, Owned(g, s) PROVE Owned(g, s)'
  <2>1. remote[s].kind \in Kinds /\ remote' = remote BY <1>3 DEF Inv, Types, RemoteStates
  <2>2. QED BY <1>3, <1>6, <1>17, <2>1 DEF Owned
<1>18. ASSUME NEW q \in Requests PROVE Keeps(q)
  <2>1. For(q) \in Remotes /\ nextHandle' >= nextHandle BY <1>3 DEF For, Requests, Inv, Types
  <2>2. QED BY <1>3, <1>17, <2>1 DEF Keeps
<1>19. StaysMade BY <1>3 DEF StaysMade
<1>20. Working(w)'
  <2>1. Sound(new)'
    <3>1. For(new)' = r /\ ~Creates(new)' /\ Discards(new)' BY <1>10 DEF For, Creates, Discards
    <3>2. QED BY <1>2, <1>3, <1>9, <3>1 DEF Sound
  <2>2. For(new)' = r BY <1>10 DEF For
  <2>3. QED BY <1>3, <1>5, <1>7, <1>9, <1>11, <2>1, <2>2 DEF Working
<1>21. QueueInv' /\ JobInv'
  <2>1. For(new) = For(job[w]) /\ (Creates(new) => Creates(job[w])) BY <1>1, <1>10
  <2>2. QED BY <1>1, <1>3, <1>9, <1>13, <1>15, <1>18, <1>19, <1>20, <2>1, WorkerStep DEF Inv
<1>22. LockInv'
  <2>1. Busy(w)' /\ job'[w].at \in LockPlaces BY <1>9, <1>11, <1>12 DEF Busy, LockPlaces
  <2>2. QED BY <1>3, <1>11, <1>15, <2>1 DEF LockInv
<1>23. TableInv'
  <2>1. ASSUME NEW k \in Kinds, NEW g \in DOMAIN ctrls'[k]
        PROVE  /\ g \in Nat /\ ctrls'[k][g] \in DOMAIN made'
               /\ closings'[ctrls'[k][g]] = 0 /\ ctrls'[k][g] \notin raised'
               /\ remote'[made'[ctrls'[k][g]]].kind = k
               /\ g <= nextHandle' /\ g # nextHandle'
    BY <1>3, <1>6, <1>16 DEF Inv, TableInv
  <2>2. ASSUME NEW k \in Kinds, NEW g \in DOMAIN ctrls'[k], NEW h \in DOMAIN ctrls'[k],
               ctrls'[k][g] = ctrls'[k][h]
        PROVE  g = h
    BY <1>6, <2>2 DEF Inv, TableInv
  <2>3. QED BY <2>1, <2>2 DEF TableInv
<1>24. RemoteInv' BY <1>3, <1>17 DEF Inv, RemoteInv
<1>25. MadeInv' BY <1>3 DEF Inv, MadeInv
<1>26. LeftInv'
  <2> SUFFICES ASSUME NEW c \in DOMAIN made PROVE Accounted(c)' BY <1>3 DEF LeftInv
  <2>1. Accounted(c) /\ made[c] \in Remotes BY DEF Inv, LeftInv, Types
  <2>2. remote[made[c]].kind \in Kinds BY <2>1 DEF Inv, Types, RemoteStates
  <2>3. CASE c = c0
    <3>1. At(w, "close")' /\ job'[w].ctrl = c BY <1>9, <1>11, <2>3 DEF At
    <3>2. QED BY <3>1 DEF Accounted
  <2>4. CASE c # c0
    <3>1. ASSUME NEW g \in DOMAIN ctrls[remote[made[c]].kind], Handled(c, g)
          PROVE  g \in DOMAIN ctrls'[remote[made[c]].kind] /\ Handled(c, g)'
      <4>1. ctrls[remote[made[c]].kind][g] = c BY <3>1 DEF Handled
      <4>2. g \in DOMAIN ctrls'[remote[made[c]].kind] BY <1>c, <1>6, <2>2, <2>4, <4>1
      <4>3. QED BY <1>3, <1>6, <1>16, <2>2, <3>1, <4>2 DEF Handled
    <3>2. QED BY <1>3, <1>16, <2>1, <3>1 DEF Accounted
  <2>5. QED BY <2>3, <2>4
<1>27. QED BY <1>13, <1>14, <1>21, <1>22, <1>23, <1>24, <1>25, <1>26 DEF Inv

-----------------------------------------------------------------------------
(* At first there is nothing.                                              *)
LEMMA ServerStarts == ServerInit => Inv
<1> SUFFICES ASSUME ServerInit PROVE Inv OBVIOUS
<1> USE ServerConstants DEF ServerConstants
<1>1. /\ ctrls = [k \in Kinds |-> <<>>] /\ nextHandle = 1 /\ serverLock = Nobody
      /\ queue = <<>> /\ job = [w \in PoolThreads |-> NoJob]
      /\ remote \in [Remotes -> [kind : Kinds, at : {"new"}, handle : {NoHandle}]]
      /\ thread = [t \in Threads |-> "idle"] /\ made = <<>> /\ closings = <<>>
      /\ raised = {}
  BY DEF ServerInit
<1>2. \A r \in Remotes : remote[r].at = "new" /\ remote[r].handle = NoHandle BY <1>1
<1>3. DOMAIN queue = {} /\ DOMAIN made = {} /\ \A k \in Kinds : DOMAIN ctrls[k] = {} BY <1>1
<1>4. \A w \in PoolThreads : ~Busy(w) /\ serverLock # w BY <1>1 DEF Busy
<1>5. Types
  <2>1. remote \in [Remotes -> RemoteStates]
    <3>1. [kind : Kinds, at : {"new"}, handle : {NoHandle}] \subseteq RemoteStates BY DEF RemoteStates
    <3>2. QED BY <1>1, <3>1
  <2>2. queue \in Seq(Requests) /\ made \in Seq(Remotes) /\ closings \in Seq(Nat) /\ Len(closings) = Len(made)
    BY <1>1, EmptySeq
  <2>3. QED BY <1>1, <2>1, <2>2 DEF Types
<1>6. ThreadInv
  <2>1. \A t \in Threads : RemoteOf[t] \in Remotes OBVIOUS
  <2>2. QED BY <1>1, <1>2, <2>1 DEF ThreadInv
<1>7. QueueInv /\ JobInv /\ LockInv BY <1>3, <1>4 DEF QueueInv, JobInv, LockInv
<1>8. TableInv /\ MadeInv /\ LeftInv BY <1>3 DEF TableInv, MadeInv, LeftInv
<1>9. RemoteInv BY <1>2, <1>3 DEF RemoteInv
<1>10. QED BY <1>5, <1>6, <1>7, <1>8, <1>9 DEF Inv

(* Every step of clients and of the pool.                                  *)
LEMMA StepsKeepInv == Inv /\ [ServerNext]_labradVars => Inv'
<1> SUFFICES ASSUME Inv, [ServerNext]_labradVars PROVE Inv' OBVIOUS
<1>1. CASE UNCHANGED labradVars
  <2>1. UNCHANGED <<ctrls, nextHandle, serverLock, queue, job, remote, thread, made, closings, raised>>
    BY <1>1 DEF labradVars, serverVars, history
  <2>2. Types' BY <2>1 DEF Inv, Types
  <2>t. ThreadInv' BY <2>1 DEF Inv, ThreadInv
  <2>3. ASSUME NEW q, Sound(q) PROVE Sound(q)'
    <3>1. /\ (Creates(q) <=> Creates(q)') /\ (Discards(q) <=> Discards(q)') /\ (Calls(q) <=> Calls(q)')
          /\ For(q)' = For(q) /\ (Owned(q.handle, For(q)) <=> Owned(q.handle, For(q))')
      BY <2>1 DEF Creates, Discards, Calls, Owned, For
    <3>2. QED BY <2>1, <2>3, <3>1 DEF Sound
  <2>4. \A w : (Busy(w) <=> Busy(w)') /\ (Working(w) => Working(w)')
    BY <2>1, <2>3 DEF Busy, Working, For
  <2>5. QueueInv' BY <2>1, <2>3, <2>4, ApartIsRigid DEF Inv, QueueInv
  <2>6. JobInv' /\ LockInv' BY <2>1, <2>4, ApartIsRigid DEF Inv, JobInv, LockInv
  <2>7. TableInv' /\ RemoteInv' /\ MadeInv' BY <2>1 DEF Inv, TableInv, RemoteInv, MadeInv, Owned, At
  <2>8. LeftInv' BY <2>1 DEF Inv, LeftInv, Accounted, Handled, At
  <2>9. QED BY <2>2, <2>t, <2>5, <2>6, <2>7, <2>8 DEF Inv
<1>2. ASSUME NEW t \in Threads, Connect(t) PROVE Inv' BY <1>2, ConnectKeepsInv
<1>3. ASSUME NEW t \in Threads, Disconnect(t) PROVE Inv' BY <1>3, DisconnectKeepsInv
<1>4. ASSUME NEW t \in Threads, NEW m \in Asks[t], CallRemote(t, m) PROVE Inv'
  BY <1>4, CallRemoteKeepsInv
<1>5. ASSUME NEW r \in Remotes, Die(r) PROVE Inv' BY <1>5, DieKeepsInv
<1>6. ASSUME NEW w \in PoolThreads, PoolStep(w) PROVE Inv'
  BY <1>6, TakeJobKeepsInv, ReadHandleKeepsInv, ConstructKeepsInv, ConstructRaisesKeepsInv,
     CountHandleKeepsInv, PopCtrlKeepsInv, CloseCtrlKeepsInv, CloseRaisesKeepsInv, UnknownHandleKeepsInv,
     LookUpKeepsInv, ServeKeepsInv DEF PoolStep
<1>7. QED BY <1>1, <1>2, <1>3, <1>4, <1>5, <1>6 DEF ServerNext

(* The invariant holds in every behaviour.                                 *)
LEMMA ServerInvariant == ServerSpec => []Inv
BY ServerStarts, StepsKeepInv, PTL DEF ServerSpec

(* For any remote controllers, threads and programs that die: a method of  *)
(* a remote controller is that method of the controller that was made for  *)
(* it, no controller is closed twice, and none that is closed, or whose    *)
(* close has raised, is found in a table                                   *)
(* (awgcapture_server.py: create_*ctrl, discard_*ctrl, __get_*ctrl).       *)
THEOREM RequestsReach == ServerSpec => []RequestsReachTheirController
<1>1. Inv => RequestsReachTheirController
  <2> SUFFICES ASSUME Inv PROVE RequestsReachTheirController OBVIOUS
  <2>1. ASSUME NEW w \in PoolThreads, At(w, "call")
        PROVE  job[w].method = job[w].asked /\ made[job[w].ctrl] = RemoteOf[job[w].from]
    <3>1. Busy(w) BY <2>1, AtPlace DEF Inv, Places
    <3>2. QED BY <2>1, <3>1 DEF Inv, JobInv, Working, At, For
  <2>2. ASSUME NEW c \in DOMAIN made
        PROVE  closings[c] <= 1 /\ (c \in OpenCtrls => closings[c] = 0 /\ c \notin raised)
    <3>1. closings[c] <= 1 BY DEF Inv, MadeInv
    <3>2. ASSUME c \in OpenCtrls PROVE closings[c] = 0 /\ c \notin raised
      <4>1. PICK k \in Kinds : c \in Range(ctrls[k]) BY <3>2 DEF OpenCtrls
      <4>2. PICK h \in DOMAIN ctrls[k] : c = ctrls[k][h] BY <4>1 DEF Range
      <4>3. QED BY <4>2 DEF Inv, TableInv
    <3>3. QED BY <3>1, <3>2
  <2>3. QED BY <2>1, <2>2 DEF RequestsReachTheirController
<1>2. QED BY <1>1, ServerInvariant, PTL

(* A controller that was made is closed, being closed, or in its table     *)
(* under the handle that its remote controller has, or that a program did  *)
(* not live to get or to give back; or its close has raised                *)
(* (remoteawgctrl.py: __init__, disconnect; awgcapture_server.py:453).     *)
THEOREM NoControllerLost == ServerSpec => []NothingLeftBehind
<1>1. Inv => NothingLeftBehind
  BY DEF Inv, LeftInv, Accounted, Handled, NothingLeftBehind
<1>2. QED BY <1>1, ServerInvariant, PTL

=============================================================================
