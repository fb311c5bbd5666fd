------------------------------ MODULE TaskRun ------------------------------
(***************************************************************************)
(* What `tgnews TASK SRCDIR' promises, with no threads: every file is      *)
(* answered once, the articles the task accepts are collected, the report  *)
(* is printed, the process exits.  It may be printed early only if the     *)
(* task fails on some file or SRCDIR cannot be read to the end.            *)
(***************************************************************************)
CONSTANTS
  Files,     \* the files to answer
  Good,      \* those the task does not fail on
  Accepted   \* those whose language is reported

VARIABLES answered, report, unreadable, status

taskVars == <<answered, report, unreadable, status>>

TaskInit == answered = {} /\ report = {} /\ unreadable = FALSE /\ status = "running"

Answer(f) ==
  /\ status = "running"
  /\ f \in Good \ answered
  /\ answered' = answered \union {f}
  /\ report' = report \union ({f} \intersect Accepted)
  /\ UNCHANGED <<unreadable, status>>

\* An error met in SRCDIR; it may come late, for a report already given up.
SourceFails ==
  /\ status \in {"running", "partial"}
  /\ unreadable' = TRUE
  /\ UNCHANGED <<answered, report, status>>

PrintAll ==
  /\ status = "running"
  /\ answered = Files /\ ~unreadable
  /\ status' = "complete"
  /\ UNCHANGED <<answered, report, unreadable>>

PrintPartial ==
  /\ status = "running"
  /\ Good # Files \/ unreadable
  /\ status' = "partial"
  /\ UNCHANGED <<answered, report, unreadable>>

Exit ==
  /\ status \in {"complete", "partial"}
  /\ status' = "exited"
  /\ UNCHANGED <<answered, report, unreadable>>

TaskNext ==
  \/ \E f \in Files : Answer(f)
  \/ SourceFails
  \/ PrintAll
  \/ PrintPartial
  \/ Exit

\* The run moves on until it has exited.
TaskSpec == TaskInit /\ [][TaskNext]_taskVars /\ WF_taskVars(TaskNext)
=============================================================================
