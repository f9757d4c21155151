------------------------------ MODULE MCLabrad ------------------------------
(* The threads that serve remote controllers, and those of a controller     *)
(* that wait for the sequencer, one subject at a time.                      *)
EXTENDS LabradServer, ErrReports

CONSTANTS
  Subjects,   \* which modules are checked
  r1, r2, t1, t2, t3

VARIABLE subject

threadVars == <<subject, labradVars, reportVars>>

\* Two threads of one program share a remote controller of any kind; they call
\* every method or only end it; another program makes and ends one of its own.
MCKindsOf == r1 :> Kinds @@ r2 :> {"awg"}
MCRemoteOf == t1 :> r1 @@ t2 :> r1 @@ t3 :> r2
MCAsks == t1 :> UNION {Methods(k) : k \in Kinds} @@ t2 :> {} @@ t3 :> {}

ThreadInit == subject \in Subjects /\ ServerInit /\ ReportInit

ThreadNext ==
  \/ subject = "server" /\ ServerNext /\ UNCHANGED <<subject, reportVars>>
  \/ subject = "reports" /\ ReportNext /\ UNCHANGED <<subject, labradVars>>

ThreadSpec == ThreadInit /\ [][ThreadNext]_threadVars /\ ServerFairness /\ ReportFairness

=============================================================================
