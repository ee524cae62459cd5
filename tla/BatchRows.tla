------------------------------ MODULE BatchRows ------------------------------
(***************************************************************************)
(* What a batch program promises.  It takes each task of the experiment    *)
(* once, in an order it may fix: it prints the row of the task, which      *)
(* stays, or skips it because it failed.  After a row that was cut short   *)
(* nothing follows, and otherwise it ends when no task is left.            *)
(***************************************************************************)
EXTENDS Naturals, Sequences

CONSTANT
  Before(_, _)  \* the tasks after which the program may take a task

VARIABLES
  tasks,    \* the experiment, which the command line and the files fix
  rows,     \* what was printed, in its order: [task, whole]
  skipped,  \* the tasks that failed
  ended     \* the program returned from main

rvars == <<tasks, rows, skipped, ended>>

Taken == {rows[k].task : k \in DOMAIN rows} \cup skipped

Goes == ~ ended /\ \A k \in DOMAIN rows : rows[k].whole

Init == rows = <<>> /\ skipped = {} /\ ended = FALSE

Report(t, whole) ==
  /\ Goes
  /\ t \notin Taken
  /\ \A s \in Taken : Before(s, t)
  /\ rows' = Append(rows, [task |-> t, whole |-> whole])
  /\ UNCHANGED <<tasks, skipped, ended>>

Skip(t) ==
  /\ Goes
  /\ t \notin Taken
  /\ \A s \in Taken : Before(s, t)
  /\ skipped' = skipped \cup {t}
  /\ UNCHANGED <<tasks, rows, ended>>

End ==
  /\ Goes
  /\ Taken = tasks
  /\ ended' = TRUE
  /\ UNCHANGED <<tasks, rows, skipped>>

Next ==
  \/ \E t \in tasks : Skip(t) \/ \E whole \in BOOLEAN : Report(t, whole)
  \/ End

Spec == Init /\ [][Next]_rvars

=============================================================================
