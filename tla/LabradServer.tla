--------------------------- MODULE LabradServer ---------------------------
(***************************************************************************)
(* Controllers used from another host (labrad/).  A remote controller asks *)
(* the server for a controller and gets a handle; each of its methods is a *)
(* request (a "setting") that the server turns into the method of the      *)
(* controller with that handle; disconnect discards it.  A pool of threads *)
(* serves requests; one lock guards the tables of controllers.             *)
(*                                                                         *)
(* Transport and pickling are LabRAD's and Python's: a request comes once, *)
(* and arguments and results, exceptions too, arrive as they were.         *)
(***************************************************************************)
EXTENDS Naturals, Sequences, Functions

CONSTANTS
  Remotes,      \* remote controllers
  KindsOf,      \* the kinds each may be of: "awg", "capture", "sequencer"
  Threads,      \* threads of the programs that use them
  RemoteOf,     \* the one that each thread uses
  Asks,         \* the methods each thread may call
  PoolThreads,
  MAX_REQUESTS, \* bound: requests in a behaviour
  NoHandle,
  Nobody          \* nobody has the lock

Kinds == {"awg", "capture", "sequencer"}

ASSUME ServerConstants ==
  /\ KindsOf \in [Remotes -> SUBSET Kinds] /\ RemoteOf \in [Threads -> Remotes]
  /\ DOMAIN Asks = Threads /\ MAX_REQUESTS \in Nat
  /\ NoHandle \notin Nat /\ Nobody \notin PoolThreads

-----------------------------------------------------------------------------
(* The methods of the remote controllers, the setting that each asks for,   *)
(* and the method that the server calls for a setting.                      *)
RemoteAwgMethods ==
  {"set_wave_sequence", "register_wave_sequences", "initialize", "start_awgs", "terminate_awgs",
   "reset_awgs", "clear_awg_stop_flags", "wait_for_awgs_to_stop",
   "set_wave_startable_block_timing", "get_wave_startable_block_timing", "check_err", "version"}

RemoteAwgSetting(m) ==
  CASE m = "initialize" -> "initialize_awgs"
    [] m = "check_err"  -> "check_awg_err"
    [] m = "version"    -> "awg_version"
    [] OTHER            -> m

AwgMethod(s) ==
  CASE s = "initialize_awgs" -> "initialize"
    [] s = "check_awg_err"   -> "check_err"
    [] s = "awg_version"     -> "version"
    [] OTHER                 -> s

RemoteCaptureDataMethods ==
  {"set_capture_params", "register_capture_params", "initialize", "get_capture_data",
   "get_classification_results", "num_captured_samples", "start_capture_units",
   "reset_capture_units", "clear_capture_stop_flags", "_get_capture_stop_flags"}

RemoteCaptureModuleMethods ==
  {"select_trigger_awg", "wait_for_capture_units_to_stop", "wait_for_capture_units_idle",
   "check_err", "enable_start_trigger", "disable_start_trigger", "construct_capture_module",
   "get_unit_to_module", "get_module_to_units", "get_module_to_trigger",
   "get_trigger_to_modules", "version"}

RemoteCaptureSetting(m) ==
  CASE m = "initialize"              -> "initialize_capture_units"
    [] m = "check_err"               -> "check_capture_unit_err"
    [] m = "version"                 -> "capture_unit_version"
    [] m = "_get_capture_stop_flags" -> "get_capture_stop_flags"
    [] OTHER                         -> m

CaptureDataMethod(s) ==
  CASE s = "initialize_capture_units" -> "initialize"
    [] OTHER                          -> s

CaptureModuleMethod(s) ==
  CASE s = "check_capture_unit_err" -> "check_err"
    [] s = "capture_unit_version"   -> "version"
    [] s = "get_capture_stop_flags" -> "_get_capture_stop_flags"
    [] OTHER                        -> CaptureDataMethod(s)

RemoteSequencerMethods ==
  {"initialize", "push_commands", "start_sequencer", "terminate_sequencer", "clear_commands",
   "clear_unsent_cmd_err_reports", "clear_sequencer_stop_flag", "enable_cmd_err_report",
   "disable_cmd_err_report", "wait_for_sequencer_to_stop"}

RemoteSequencerQueries ==
  {"num_unprocessed_commands", "_num_stored_commands", "num_successful_commands",
   "num_err_commands", "num_unsent_cmd_err_reports", "cmd_fifo_free_space", "check_err",
   "pop_cmd_err_reports", "_cmd_counter", "_reset_cmd_counter", "get_branch_flag",
   "set_branch_flag", "_get_external_branch_flag", "version"}

RemoteSequencerSetting(m) ==
  CASE m = "initialize"                -> "initialize_sequencer"
    [] m = "check_err"                 -> "check_sequencer_err"
    [] m = "version"                   -> "sequencer_version"
    [] m = "_num_stored_commands"      -> "num_stored_commands"
    [] m = "_cmd_counter"              -> "cmd_counter"
    [] m = "_reset_cmd_counter"        -> "reset_cmd_counter"
    [] m = "_get_external_branch_flag" -> "get_external_branch_flag"
    [] OTHER                           -> m

SequencerMethod(s) == IF s = "initialize_sequencer" THEN "initialize" ELSE s

SequencerQuery(s) ==
  CASE s = "check_sequencer_err"      -> "check_err"
    [] s = "sequencer_version"        -> "version"
    [] s = "num_stored_commands"      -> "_num_stored_commands"
    [] s = "cmd_counter"              -> "_cmd_counter"
    [] s = "reset_cmd_counter"        -> "_reset_cmd_counter"
    [] s = "get_external_branch_flag" -> "_get_external_branch_flag"
    [] OTHER                          -> SequencerMethod(s)

Methods(kind) ==
  CASE kind = "awg"       -> RemoteAwgMethods
    [] kind = "capture"   -> RemoteCaptureDataMethods \cup RemoteCaptureModuleMethods
    [] kind = "sequencer" -> RemoteSequencerMethods \cup RemoteSequencerQueries

Setting(kind, m) ==
  CASE kind = "awg"       -> RemoteAwgSetting(m)
    [] kind = "capture"   -> RemoteCaptureSetting(m)
    [] kind = "sequencer" -> RemoteSequencerSetting(m)

\* Settings of different kinds have different names.
MethodFor(kind, s) ==
  CASE kind = "awg"       -> AwgMethod(s)
    [] kind = "capture"   -> CaptureModuleMethod(s)
    [] kind = "sequencer" -> SequencerQuery(s)

-----------------------------------------------------------------------------
VARIABLES
  \* the server
  ctrls,       \* the table of each kind: handle -> controller
  nextHandle,
  serverLock,
  queue,       \* requests no thread of the pool has taken yet
  job,         \* the request each thread of the pool serves, or NoJob
  \* its clients
  remote,      \* each remote controller: its kind, where it is, its handle
  thread,      \* "idle", "waiting" for an answer, or "dead"
  numRequests,
  \* history, for the properties only
  made,        \* the remote controller each controller was made for, in order
  closings,    \* how often each was closed
  raised       \* those whose close has raised, with a thread or a socket left

serverVars == <<ctrls, nextHandle, serverLock, queue, job>>
history == <<made, closings, raised>>
labradVars == <<serverVars, remote, thread, numRequests, history>>

NoJob == [at |-> "none"]

ServerInit ==
  /\ ctrls = [k \in Kinds |-> <<>>] /\ nextHandle = 1 /\ serverLock = Nobody
  /\ queue = <<>> /\ job = [w \in PoolThreads |-> NoJob]
  /\ remote \in {f \in [Remotes -> [kind : Kinds, at : {"new"}, handle : {NoHandle}]] :
                   \A r \in Remotes : f[r].kind \in KindsOf[r]}
  /\ thread = [t \in Threads |-> "idle"] /\ numRequests = 0
  /\ made = <<>> /\ closings = <<>> /\ raised = {}

-----------------------------------------------------------------------------
(* A thread of a program calls a method of its remote controller. *)
Ask(t, request) ==
  /\ thread[t] = "idle" /\ numRequests < MAX_REQUESTS
  /\ numRequests' = numRequests + 1
  /\ thread' = [thread EXCEPT ![t] = "waiting"]
  /\ queue' = Append(queue, request)
  /\ UNCHANGED <<ctrls, nextHandle, serverLock, job, history>>

\* ctrl and method are for the server to find.
Request(t, at, setting, asked) ==
  LET r == remote[RemoteOf[t]]
  IN  [at |-> at, from |-> t, kind |-> r.kind, handle |-> r.handle, setting |-> setting,
       asked |-> asked, ctrl |-> 0, method |-> "none"]

\* __init__
Connect(t) ==
  /\ remote[RemoteOf[t]].at = "new"
  /\ Ask(t, Request(t, "create", "create", "create"))
  /\ remote' = [remote EXCEPT ![RemoteOf[t]].at = "connecting"]

\* Without a handle LabRAD refuses the request.
CallRemote(t, m) ==
  LET r == remote[RemoteOf[t]]
  IN  /\ r.at = "open" /\ r.handle # NoHandle /\ m \in Methods(r.kind)
      /\ Ask(t, Request(t, "look_up", Setting(r.kind, m), m))
      /\ UNCHANGED remote

Disconnect(t) ==
  /\ remote[RemoteOf[t]].at = "open" /\ remote[RemoteOf[t]].handle # NoHandle
  /\ Ask(t, Request(t, "discard", "discard", "discard"))
  /\ UNCHANGED remote

\* A program dies; what it has asked for is served all the same.
Die(r) ==
  /\ remote[r].at # "dead"
  /\ remote' = [remote EXCEPT ![r].at = "dead"]
  /\ thread' = [t \in Threads |-> IF RemoteOf[t] = r THEN "dead" ELSE thread[t]]
  /\ UNCHANGED <<serverVars, numRequests, history>>

-----------------------------------------------------------------------------
(* A thread of the pool serves a request. *)
TakeJob(w) ==
  /\ job[w] = NoJob /\ queue # <<>>
  /\ job' = [job EXCEPT ![w] = Head(queue)]
  /\ queue' = Tail(queue)
  /\ UNCHANGED <<ctrls, nextHandle, serverLock, remote, thread, numRequests, history>>

At(w, place) == job[w].at = place

Acquire(w) == serverLock = Nobody /\ serverLock' = w

\* The answer; __decode_and_check raises what is an exception.
Answer(w, handle) ==
  LET t == job[w].from
      r == RemoteOf[t]
  IN  /\ job' = [job EXCEPT ![w] = NoJob]
      /\ thread' = [thread EXCEPT ![t] = IF @ = "waiting" THEN "idle" ELSE @]
      /\ remote' = IF thread[t] = "dead" THEN remote
                   ELSE CASE job[w].asked = "create"  -> [remote EXCEPT ![r].at = "open", ![r].handle = handle]
                          [] job[w].asked = "discard" -> [remote EXCEPT ![r].handle = NoHandle]
                          [] OTHER                    -> remote
      /\ UNCHANGED <<queue, numRequests>>

Continues(w, place, more) == job' = [job EXCEPT ![w] = [more EXCEPT !.at = place]]

With(table, handle, ctrl) ==
  [h \in DOMAIN table \cup {handle} |-> IF h = handle THEN ctrl ELSE table[h]]

\* create_*ctrl: the next handle ...
\* Mutant: read before the lock is taken.
ReadHandleUnlocked(w) ==
  /\ At(w, "create")
  /\ Continues(w, "construct", [job[w] EXCEPT !.handle = nextHandle])
  /\ UNCHANGED <<ctrls, nextHandle, serverLock, queue, remote, thread, numRequests, history>>

ReadHandle(w) ==
  /\ At(w, "create") /\ Acquire(w)
  /\ Continues(w, "construct", [job[w] EXCEPT !.handle = nextHandle])
  /\ UNCHANGED <<ctrls, nextHandle, queue, remote, thread, numRequests, history>>

\* ... the controller, whose constructor may raise ...
Construct(w) ==
  LET j == job[w]
  IN  /\ At(w, "construct")
      /\ made' = Append(made, RemoteOf[j.from])
      /\ closings' = Append(closings, 0)
      /\ ctrls' = [ctrls EXCEPT ![j.kind] = With(@, j.handle, Len(made'))]
      /\ Continues(w, "count", j)
      /\ UNCHANGED <<nextHandle, serverLock, queue, remote, thread, numRequests, raised>>

ConstructRaises(w) ==
  /\ At(w, "construct")
  /\ serverLock' = Nobody
  /\ Answer(w, NoHandle)
  /\ UNCHANGED <<ctrls, nextHandle, history>>

\* ... and the count.
CountHandle(w) ==
  /\ At(w, "count")
  /\ nextHandle' = nextHandle + 1
  /\ serverLock' = Nobody
  /\ Answer(w, job[w].handle)
  /\ UNCHANGED <<ctrls, history>>

Table(w) == ctrls[job[w].kind]

Found(w) == [job[w] EXCEPT !.ctrl = Table(w)[job[w].handle]]

\* discard_*ctrl: taken out of the table, and closed under the same lock.
PopCtrl(w) ==
  LET j == job[w]
  IN  /\ At(w, "discard") /\ j.handle \in DOMAIN Table(w) /\ Acquire(w)
      /\ ctrls' = [ctrls EXCEPT ![j.kind] = Restrict(@, DOMAIN @ \ {j.handle})]
      /\ Continues(w, "close", Found(w))
      /\ UNCHANGED <<nextHandle, queue, remote, thread, numRequests, history>>

\* Mutant: the controller is dropped, and its sockets and threads stay.
CloseCtrlDropped(w) ==
  /\ At(w, "close")
  /\ serverLock' = Nobody
  /\ Answer(w, NoHandle)
  /\ UNCHANGED <<ctrls, nextHandle, history>>

CloseCtrl(w) ==
  /\ At(w, "close")
  /\ closings' = [closings EXCEPT ![job[w].ctrl] = @ + 1]
  /\ serverLock' = Nobody
  /\ Answer(w, NoHandle)
  /\ UNCHANGED <<ctrls, nextHandle, made, raised>>

\* ... or raises on its way; the controller is in no table any more.
CloseRaises(w) ==
  /\ At(w, "close")
  /\ raised' = raised \cup {job[w].ctrl}
  /\ serverLock' = Nobody
  /\ Answer(w, NoHandle)
  /\ UNCHANGED <<ctrls, nextHandle, made, closings>>

\* A handle that is not in the table: KeyError, under the lock.
\* Mutant: the lock is not given back.
UnknownHandleLocked(w) ==
  /\ At(w, "discard") \/ At(w, "look_up")
  /\ job[w].handle \notin DOMAIN Table(w) /\ Acquire(w)
  /\ Answer(w, NoHandle)
  /\ UNCHANGED <<ctrls, nextHandle, history>>

UnknownHandle(w) ==
  /\ At(w, "discard") \/ At(w, "look_up")
  /\ job[w].handle \notin DOMAIN Table(w) /\ serverLock = Nobody
  /\ Answer(w, NoHandle)
  /\ UNCHANGED <<ctrls, nextHandle, serverLock, history>>

\* __get_*ctrl holds the lock while it reads the table ...
LookUp(w) ==
  LET j == job[w]
  IN  /\ At(w, "look_up") /\ j.handle \in DOMAIN Table(w) /\ serverLock = Nobody
      /\ Continues(w, "call", [Found(w) EXCEPT !.method = MethodFor(j.kind, j.setting)])
      /\ UNCHANGED <<ctrls, nextHandle, serverLock, queue, remote, thread, numRequests, history>>

\* ... and not while the controller does what it was asked, or raises.
Serve(w) ==
  /\ At(w, "call")
  /\ Answer(w, NoHandle)
  /\ UNCHANGED <<ctrls, nextHandle, serverLock, history>>

-----------------------------------------------------------------------------
PoolStep(w) ==
  \/ TakeJob(w)
  \/ ReadHandle(w) \/ Construct(w) \/ ConstructRaises(w) \/ CountHandle(w)
  \/ PopCtrl(w) \/ CloseCtrl(w) \/ CloseRaises(w) \/ UnknownHandle(w)
  \/ LookUp(w) \/ Serve(w)

ServerNext ==
  \/ \E t \in Threads : Connect(t) \/ Disconnect(t) \/ \E m \in Asks[t] : CallRemote(t, m)
  \/ \E r \in Remotes : Die(r)
  \/ \E w \in PoolThreads : PoolStep(w)

\* The methods that wait, without a timeout, for the lock file of the AWGs or
\* of the capture units (ReentrantFileLock.tla).
LockFileMethods(kind) ==
  CASE kind = "awg"       -> {"initialize", "start_awgs", "reset_awgs", "clear_awg_stop_flags"}
    [] kind = "capture"   -> {"initialize", "start_capture_units", "reset_capture_units",
                              "clear_capture_stop_flags", "_get_capture_stop_flags"}
                             \cup (RemoteCaptureModuleMethods \
                                     {"wait_for_capture_units_to_stop",
                                      "wait_for_capture_units_idle", "check_err", "version"})
    [] kind = "sequencer" -> {}

\* close of a sequencer controller joins two threads, without a timeout: each
\* ends when a packet that can be lost has reached it (ErrReports.tla).
Joins(w) == At(w, "close") /\ job[w].kind = "sequencer"

MayNotEnd(w) ==
  \/ Joins(w)
  \/ At(w, "call") /\ job[w].method \in LockFileMethods(job[w].kind)

\* The threads of the pool go on, except where a step may never end: the waits
\* of all other methods have a timeout, and close of an AWG or a capture
\* controller waits for nothing.
ServerFairness ==
  \A w \in PoolThreads : WF_labradVars(~MayNotEnd(w) /\ PoolStep(w))

ServerSpec == ServerInit /\ [][ServerNext]_labradVars /\ ServerFairness

-----------------------------------------------------------------------------
OpenCtrls == UNION {Range(ctrls[k]) : k \in Kinds}

\* A call of a remote method is a call of the same method on the controller
\* that was made for this remote controller, however many clients ask for
\* controllers at once; no controller is closed twice, and no request finds one
\* in the tables that is closed or whose close has raised.
RequestsReachTheirController ==
  /\ \A w \in PoolThreads : At(w, "call") =>
       /\ job[w].method = job[w].asked
       /\ made[job[w].ctrl] = RemoteOf[job[w].from]
  /\ \A c \in DOMAIN made :
       closings[c] <= 1 /\ (c \in OpenCtrls => closings[c] = 0 /\ c \notin raised)

\* Of the controllers that were made only those are neither closed nor being
\* closed that can still be reached by a handle, one that a remote controller
\* has, or that its program did not live to get or to give back; and those
\* whose close has raised (awgcapture_server.py:453).
NothingLeftBehind ==
  \A c \in DOMAIN made :
    LET r == made[c]
    IN  \/ closings[c] = 1 \/ c \in raised
        \/ \E w \in PoolThreads : At(w, "close") /\ job[w].ctrl = c
        \/ \E h \in DOMAIN ctrls[remote[r].kind] :
             /\ ctrls[remote[r].kind][h] = c
             /\ \/ remote[r].handle = h \/ remote[r].at = "dead"
                \/ \E w \in PoolThreads : At(w, "count") /\ job[w].handle = h

\* A thread of the pool that may never go on: it is in a step that may not end,
\* or needs the lock that another one holds in such a step.
Held(w) ==
  \/ MayNotEnd(w)
  \/ /\ job[w].at \in {"create", "discard", "look_up"}
     /\ \E v \in PoolThreads : Joins(v)

\* The request of t is with such a thread; or it is in the queue, and all
\* threads are such.
KeptWaiting(t) ==
  LET with == {w \in PoolThreads : job[w] # NoJob /\ job[w].from = t}
  IN  \A w \in IF with = {} THEN PoolThreads ELSE with : Held(w)

\* A thread that waits for an answer gets one, or dies, unless what it asked
\* for is kept waiting for ever: by a lock file that its holder does not give
\* back, or by the close of a sequencer controller that does not end and has
\* the lock of the server (awgcapture_server.py:452).
Answered ==
  \A t \in Threads :
    (thread[t] = "waiting" ~> thread[t] # "waiting") \/ <>[]KeptWaiting(t)

=============================================================================
