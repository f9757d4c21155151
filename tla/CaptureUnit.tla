---------------------------- MODULE CaptureUnit ----------------------------
(***************************************************************************)
(* emulator/capture.py: one capture unit.  Register writes change its      *)
(* state in the thread of the dispatcher; the captures themselves are done *)
(* by the workers of a thread pool, which read the parameters, save the    *)
(* samples to memory, set NUM_CAPTURED_SAMPLES and then the state, each at *)
(* its own time.  Samples are abstracted to the number of their capture    *)
(* and the parameters it was done with.                                    *)
(***************************************************************************)
EXTENDS Naturals, Sequences

CONSTANTS
  Workers,     (* threads of the unit's pool                               *)
  Params,      (* parameter sets a client writes                           *)
  Valid,       (* those that pass __check_capture_size and dsp             *)
  Default,     (* the set the unit starts with                             *)
  MaxCaptures  (* bound: captures in a behaviour                           *)

ASSUME CaptureUnitAssumption ==
  /\ Workers # {}
  /\ Valid \subseteq Params /\ Default \in Params
  /\ MaxCaptures \in Nat

VARIABLES
  state,       (* CaptureUnitState                                         *)
  params,      (* the parameter registers                                  *)
  queue,       (* captures submitted to the pool, not taken yet            *)
  task,        (* what each worker is doing                                *)
  ram,         (* the capture whose samples are in memory                  *)
  samples,     (* the one whose NUM_CAPTURED_SAMPLES is in the register    *)
  (* history, for the properties only *)
  latest,      (* number of the latest capture                             *)
  wanted,      (* the parameters when it was started                       *)
  intact,      (* has it been neither reset nor terminated?                *)
  alone,       (* was no other capture in the pool when it was started,    *)
               (* and have the parameters been left alone while it ran?    *)
  failed       (* has it raised?                                           *)

history == <<latest, wanted, intact, alone, failed>>
vars == <<state, params, queue, task, ram, samples, history>>

States == {"RESET", "IDLE", "CAPTURE_WAVE", "COMPLETE"}

Free == [stage |-> "free"]

Tasks == [stage : {"read", "saved", "counted"}, id : Nat, params : Params]

Init ==
  /\ state = "IDLE"
  /\ params = Default
  /\ queue = <<>>
  /\ task = [w \in Workers |-> Free]
  /\ ram = [id |-> 0, params |-> Default]
  /\ samples = 0
  /\ latest = 0 /\ wanted = Default
  /\ intact = FALSE /\ alone = FALSE /\ failed = FALSE

-----------------------------------------------------------------------------
(* Register writes. *)

Interrupt == intact' = (intact /\ state # "CAPTURE_WAVE")

AssertReset ==
  /\ state' = "RESET"
  /\ Interrupt
  /\ UNCHANGED <<params, queue, task, ram, samples, latest, wanted, alone, failed>>

DeassertReset ==
  /\ state = "RESET"
  /\ state' = "IDLE"
  /\ UNCHANGED <<params, queue, task, ram, samples, history>>

Terminate ==
  /\ state = "CAPTURE_WAVE"
  /\ state' = "COMPLETE"
  /\ Interrupt
  /\ UNCHANGED <<params, queue, task, ram, samples, latest, wanted, alone, failed>>

SetToIdle ==
  /\ state = "COMPLETE"
  /\ state' = "IDLE"
  /\ UNCHANGED <<params, queue, task, ram, samples, history>>

SetParam ==
  /\ params' \in Params
  /\ alone' = (alone /\ state # "CAPTURE_WAVE")
  /\ UNCHANGED <<state, queue, task, ram, samples, latest, wanted, intact, failed>>

(* A unit that is reset or capturing ignores the start. *)
CanStart == state \in {"IDLE", "COMPLETE"}

(* No worker has anything to do. *)
Quiet == queue = <<>> /\ \A w \in Workers : task[w] = Free

CaptureWave ==
  /\ CanStart
  /\ latest < MaxCaptures
  /\ state' = "CAPTURE_WAVE"
  /\ latest' = latest + 1
  /\ queue' = Append(queue, latest')
  /\ wanted' = params /\ intact' = TRUE /\ alone' = Quiet /\ failed' = FALSE
  /\ UNCHANGED <<params, task, ram, samples>>

-----------------------------------------------------------------------------
(* A worker of the pool: __capture_wave. *)

GenCaptureParam(w) ==
  /\ task[w] = Free
  /\ queue # <<>>
  /\ queue' = Tail(queue)
  /\ task' = [task EXCEPT ![w] = [stage |-> "read", id |-> Head(queue), params |-> params]]
  /\ UNCHANGED <<state, params, ram, samples, history>>

At(w, stage) == task[w].stage = stage

Move(w, stage) == task' = [task EXCEPT ![w].stage = stage]

WriteSamples(w) ==
  /\ At(w, "read") /\ task[w].params \in Valid
  /\ ram' = [id |-> task[w].id, params |-> task[w].params]
  /\ Move(w, "saved")
  /\ UNCHANGED <<state, params, queue, samples, history>>

WriteNumSamples(w) ==
  /\ At(w, "saved")
  /\ samples' = task[w].id
  /\ Move(w, "counted")
  /\ UNCHANGED <<state, params, queue, ram, history>>

(* Mutant: the unit is complete before the samples are counted. *)
FinishUncounted(w) ==
  /\ At(w, "saved")
  /\ state' = IF state = "CAPTURE_WAVE" THEN "COMPLETE" ELSE state
  /\ task' = [task EXCEPT ![w] = Free]
  /\ UNCHANGED <<params, queue, ram, samples, history>>

Finish(w) ==
  /\ At(w, "counted")
  /\ state' = IF state = "CAPTURE_WAVE" THEN "COMPLETE" ELSE state
  /\ task' = [task EXCEPT ![w] = Free]
  /\ UNCHANGED <<params, queue, ram, samples, history>>

(* Mutant: the worker dies of the exception. *)
FailForGood(w) ==
  /\ At(w, "read") /\ task[w].params \notin Valid
  /\ task' = [task EXCEPT ![w].stage = "dead"]
  /\ failed' = (failed \/ task[w].id = latest)
  /\ UNCHANGED <<state, params, queue, ram, samples, latest, wanted, intact, alone>>

(* The exception is kept in a future nobody reads: the worker takes the    *)
(* next capture, and the state stays what it is.                           *)
Fail(w) ==
  /\ At(w, "read") /\ task[w].params \notin Valid
  /\ task' = [task EXCEPT ![w] = Free]
  /\ failed' = (failed \/ task[w].id = latest)
  /\ UNCHANGED <<state, params, queue, ram, samples, latest, wanted, intact, alone>>

-----------------------------------------------------------------------------
Work(w) ==
  GenCaptureParam(w) \/ WriteSamples(w) \/ WriteNumSamples(w) \/ Finish(w) \/ Fail(w)

Next ==
  \/ AssertReset \/ DeassertReset \/ Terminate \/ SetToIdle \/ SetParam
  \/ CaptureWave
  \/ \E w \in Workers : Work(w)

Spec == Init /\ [][Next]_vars

(* The threads of the pool run. *)
FairSpec == Spec /\ \A w \in Workers : WF_vars(Work(w))

-----------------------------------------------------------------------------
Captures == [id : Nat, params : Params]

(* Every variable has its type, and no capture is queued or done before it *)
(* is started.                                                             *)
TypeOK ==
  /\ state \in States
  /\ params \in Params /\ wanted \in Params
  /\ queue \in Seq(1..latest)
  /\ task \in [Workers -> Tasks \cup {Free}]
  /\ \A w \in Workers : task[w] # Free => task[w].id \in 1..latest
  /\ ram \in Captures /\ ram.id \in 0..latest
  /\ samples \in 0..latest
  /\ latest \in 0..MaxCaptures
  /\ intact \in BOOLEAN /\ alone \in BOOLEAN /\ failed \in BOOLEAN

(* wait_for_capture_units_to_stop (capturectrl.py:372) waits for DONE to   *)
(* know that the waves are saved: when the latest capture, which nobody    *)
(* has reset or terminated, is done, the samples in memory are its own and *)
(* NUM_CAPTURED_SAMPLES is their number.                                   *)
DoneMeansSaved ==
  state = "COMPLETE" /\ intact => ram.id = latest /\ samples = latest

(* It is so, and the samples were taken with the parameters that were set  *)
(* when it was started, for a capture that was started when the pool had   *)
(* nothing to do and whose parameters were left alone while it ran,        *)
(* whatever resets and terminations went before it.                        *)
SavedWhenAlone ==
  alone /\ intact /\ state = "COMPLETE" =>
    ram = [id |-> latest, params |-> wanted] /\ samples = latest

(* A capture that is started ends, or raises, however many captures that   *)
(* were cut short or failed are before it in the pool.                     *)
CapturesEnd ==
  state = "CAPTURE_WAVE" ~> (state # "CAPTURE_WAVE" \/ failed)
=============================================================================
