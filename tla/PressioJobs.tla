----------------------------- MODULE PressioJobs -----------------------------
(***************************************************************************)
(* What pressio promises of the jobs that a user runs one after the other: *)
(* while a job runs its files come and go, it ends complete only when all  *)
(* that were asked for are whole and its own, and nothing touches them     *)
(* until the next job.                                                     *)
(***************************************************************************)
EXTENDS Naturals

CONSTANTS
  NumJobs,
  Outputs,    \* what each job is to write
  Repeatable  \* the outputs that may be the same in two jobs

VARIABLES
  number,  \* the job
  state,   \* "running", "complete" or "failed"
  whole    \* the outputs that hold what this job makes, from first to last

jvars == <<number, state, whole>>

Init == number = 1 /\ state = "running" /\ whole = {}

Work ==
  /\ state = "running"
  /\ whole' \in SUBSET Outputs[number]
  /\ UNCHANGED <<number, state>>

Finish ==
  /\ state = "running"
  /\ whole = Outputs[number]
  /\ state' = "complete"
  /\ UNCHANGED <<number, whole>>

GiveUp ==
  /\ state = "running"
  /\ state' = "failed"
  /\ UNCHANGED <<number, whole>>

\* The next job finds none of its outputs, but for those that a job before made too.
NextJob ==
  /\ state # "running"
  /\ number < NumJobs
  /\ number' = number + 1
  /\ state' = "running"
  /\ whole' \in SUBSET (Outputs[number'] \cap Repeatable)

Next == Work \/ Finish \/ GiveUp \/ NextJob

Spec == Init /\ [][Next]_jvars

=============================================================================
