---------------------------- MODULE BatchMPIProofs ----------------------------
(***************************************************************************)
(* Theorems about BatchMPI for any number of workers, tasks, fields and    *)
(* results.  TypeOK holds as it stands; the others need that every task    *)
(* reports at least one metric, without which rank 0 does not know which   *)
(* task an answer is for.                                                  *)
(***************************************************************************)
EXTENDS BatchMPI, DataFacts, TLAPS

(***************************************************************************)
(* Facts about the data.                                                   *)
(***************************************************************************)

\* The product of the three loop bounds is a natural number.
LEMMA NumTasksNat == NumTasks \in Nat /\ NoTask = NumTasks
BY SizesAssumption DEF NumTasks, NoTask

-----------------------------------------------------------------------------
(***************************************************************************)
(* Type correctness, for any ResultSets.                                   *)
(***************************************************************************)

\* What a worker has sent is the answer of the task it holds.
Answers ==
  \A w \in Workers :
    pc[w] = "sent" => \E keys \in ResultSets : reply[w] = TaskResponses(task[w], keys)

TypeInv == TypeOK /\ IsSequence(csv) /\ Answers

\* The task ids rank 0 may read from an answer are in the range of responses.
LEMMA MyTaskIdType ==
  ASSUME TypeInv, NEW w \in Workers, pc[w] = "sent"
  PROVE  MyTaskIds(reply[w]) \subseteq 0..NoTask
<1>1. PICK keys \in ResultSets : reply[w] = TaskResponses(task[w], keys)
  BY DEF TypeInv, Answers
<1>2. DOMAIN reply[w] = keys /\ \A m \in keys : reply[w][m].task_id = task[w]
  BY <1>1 DEF TaskResponses
<1>3. task[w] \in 0..NoTask
  BY DEF TypeInv, TypeOK
<1>. QED  BY <1>2, <1>3 DEF MyTaskIds

\* A row has cells in the header's columns only.
LEMMA RowFacts ==
  ASSUME NEW name, NEW options
  PROVE  /\ CsvRow(name, options, Fields).name = name
         /\ DOMAIN CsvRow(name, options, Fields).cells \subseteq DOMAIN Fields
         /\ ~ Throws(options, Fields) => Complete(CsvRow(name, options, Fields), Fields)
BY DEF CsvRow, Reached, Throws, Complete

LEMMA InitType == Init => TypeInv
<1> SUFFICES ASSUME Init PROVE TypeInv
  OBVIOUS
<1>1. TypeOK
  BY NumTasksNat DEF Init, TypeOK, Phases, Ended, WorkerPC, NoReply
<1>2. IsSequence(csv)
  BY DEF Init, IsSequence
<1>3. Answers
  BY DEF Init, Answers
<1>. QED  BY <1>1, <1>2, <1>3 DEF TypeInv

LEMMA NextType == TypeInv /\ [Next]_vars => TypeInv'
<1> SUFFICES ASSUME TypeInv, [Next]_vars PROVE TypeInv'
  OBVIOUS
<1> USE NumTasksNat DEF TypeInv
<1>1. CASE PrintHeader
  BY <1>1 DEF PrintHeader, TypeOK, Phases, Answers, IsSequence
<1>2. ASSUME NEW w \in Workers, Assign(w) PROVE TypeInv'
  <2>1. TypeOK'
    BY <1>2 DEF Assign, TypeOK, WorkerPC, TaskIds
  <2>2. Answers'
    BY <1>2 DEF Assign, TypeOK, Answers
  <2>. QED  BY <1>2, <2>1, <2>2 DEF Assign, IsSequence
<1>3. ASSUME NEW w \in Workers, Receive(w) PROVE TypeInv'
  <2>1. PICK my_task_id \in MyTaskIds(reply[w]) :
          LET options == Gather(responses[my_task_id], reply[w])
          IN  /\ responses' = [responses EXCEPT ![my_task_id] = options]
              /\ csv' = Append(csv, [task |-> my_task_id,
                                     row  |-> CsvRow(TaskName(my_task_id), options, Fields)])
              /\ phase' = IF Throws(options, Fields) THEN "threw" ELSE phase
    BY <1>3 DEF Receive
  <2> DEFINE options == Gather(responses[my_task_id], reply[w])
             row == CsvRow(TaskName(my_task_id), options, Fields)
             new == [task |-> my_task_id, row |-> row]
  <2>2. my_task_id \in 0..NoTask
    BY <1>3, MyTaskIdType DEF Receive
  <2>3. row.name = TaskName(my_task_id) /\ DOMAIN row.cells \subseteq DOMAIN Fields
    BY RowFacts
  <2>4. csv' = Append(csv, new) /\ new.task = my_task_id /\ new.row = row
    BY <2>1
  <2> HIDE DEF row, new
  <2>5. /\ IsSequence(csv)'
        /\ DOMAIN csv' = DOMAIN csv \cup {Len(csv) + 1}
        /\ \A i \in DOMAIN csv : csv'[i] = csv[i]
        /\ csv'[Len(csv) + 1] = new
    BY <2>4, AppendFacts DEF IsSequence
  <2>6. DOMAIN csv' = 1..Len(csv')
    BY <2>5 DEF IsSequence
  <2>7. \A i \in DOMAIN csv' :
          /\ csv'[i].task \in 0..NoTask
          /\ csv'[i].row.name = TaskName(csv'[i].task)
          /\ DOMAIN csv'[i].row.cells \subseteq DOMAIN Fields
    BY <2>2, <2>3, <2>4, <2>5 DEF TypeOK
  <2>8. phase' \in Phases /\ next' \in 0..NumTasks
    BY <1>3, <2>1 DEF Receive, TypeOK, Phases
  <2>9. /\ pc' \in [Workers -> WorkerPC]
        /\ task' \in [Workers -> 0..NoTask]
        /\ DOMAIN reply' = Workers
        /\ \A v \in Workers : DOMAIN reply'[v] \subseteq MetricKeys
    BY <1>3 DEF Receive, TypeOK, WorkerPC, NoReply
  <2>10. DOMAIN responses' = 0..NoTask /\ files' \in [FileNames -> 0..NoTask]
    BY <1>3, <2>1 DEF Receive, TypeOK
  <2>11. TypeOK'
    BY <2>6, <2>7, <2>8, <2>9, <2>10 DEF TypeOK
  <2>12. Answers'
    BY <1>3 DEF Receive, TypeOK, Answers
  <2>. QED  BY <2>5, <2>11, <2>12
<1>4. CASE Close
  BY <1>4 DEF Close, TypeOK, Phases, Answers, IsSequence
<1>5. ASSUME NEW w \in Workers, LoadThrows(w) PROVE TypeInv'
  BY <1>5 DEF LoadThrows, Goto, At, TypeOK, WorkerPC, Answers, IsSequence
<1>6. ASSUME NEW w \in Workers, LoadCrashes(w) PROVE TypeInv'
  BY <1>6 DEF LoadCrashes, At, TypeOK, Phases, Ended, Answers, IsSequence
<1>7. ASSUME NEW w \in Workers, RunTask(w) PROVE TypeInv'
  BY <1>7 DEF RunTask, Goto, At, TypeOK, WorkerPC, Answers, IsSequence
<1>8. ASSUME NEW w \in Workers, WriteCompressed(w) PROVE TypeInv'
  BY <1>8 DEF WriteCompressed, WriteFile, Goto, At, TypeOK, WorkerPC, Answers, IsSequence
<1>9. ASSUME NEW w \in Workers, WriteDecompressed(w) PROVE TypeInv'
  BY <1>9 DEF WriteDecompressed, WriteFile, Goto, At, TypeOK, WorkerPC, Answers, IsSequence
<1>10. ASSUME NEW w \in Workers, Collect(w) PROVE TypeInv'
  <2>1. PICK keys \in ResultSets : reply' = [reply EXCEPT ![w] = TaskResponses(task[w], keys)]
    BY <1>10 DEF Collect
  <2>2. DOMAIN TaskResponses(task[w], keys) \subseteq MetricKeys
    BY DEF TaskResponses, MetricKeys
  <2>3. TypeOK'
    BY <1>10, <2>1, <2>2 DEF Collect, Goto, TypeOK, WorkerPC
  <2>4. Answers'
    BY <1>10, <2>1 DEF Collect, Goto, TypeOK, Answers
  <2>. QED  BY <1>10, <2>3, <2>4 DEF Collect, IsSequence
<1>11. ASSUME NEW w \in Workers, Leave(w) PROVE TypeInv'
  BY <1>11 DEF Leave, Goto, TypeOK, WorkerPC, Answers, IsSequence
<1>12. CASE Finalize
  BY <1>12 DEF Finalize, TypeOK, Phases, Ended, Answers, IsSequence
<1>13. CASE UNCHANGED vars
  BY <1>13 DEF vars, TypeOK, Answers, IsSequence
<1>14. CASE StartThrows
  BY <1>14 DEF StartThrows, TypeOK, Phases, Answers, IsSequence
<1>15. CASE StartCrashes
  BY <1>15 DEF StartCrashes, TypeOK, Phases, Ended, Answers, IsSequence
<1>16. ASSUME NEW w \in Workers, Enter(w) \/ FailsToEnter(w) PROVE TypeInv'
  <2>1. TypeOK'
    BY <1>16 DEF Enter, FailsToEnter, Goto, At, TypeOK, WorkerPC
  <2>2. Answers'
    BY <1>16 DEF Enter, FailsToEnter, Goto, At, TypeOK, Answers
  <2>. QED  BY <1>16, <2>1, <2>2 DEF Enter, FailsToEnter, IsSequence
<1>. QED
  BY <1>1, <1>2, <1>3, <1>4, <1>5, <1>6, <1>7, <1>8, <1>9, <1>10, <1>11, <1>12, <1>13,
     <1>14, <1>15, <1>16
     DEF Next, MasterNext, WorkerNext

\* Every variable keeps its type, whatever the tasks report and whoever fails.
THEOREM TypeCorrect == Spec => []TypeOK
<1>1. Init => TypeInv
  BY InitType
<1>2. TypeInv /\ [Next]_vars => TypeInv'
  BY NextType
<1>3. TypeInv => TypeOK
  BY DEF TypeInv
<1>. QED  BY <1>1, <1>2, <1>3, PTL DEF Spec

-----------------------------------------------------------------------------
(***************************************************************************)
(* Every task is in one place: waiting, with one worker, or in one row.    *)
(* The rows are complete until an exception ends the queue, and the ranks  *)
(* that wait for each other after an exception are in no state to exit.    *)
(***************************************************************************)

\* The worker holds t.
Holds(w, t) == Busy(w) /\ task[w] = t

HeldInv ==
  /\ \A w \in Workers : Busy(w) => task[w] \in 0..(next - 1)
  /\ \A v, w \in Workers : v # w /\ Busy(v) /\ Busy(w) => task[v] # task[w]

RowInv ==
  /\ \A i \in DOMAIN csv :
       /\ csv[i].task \in 0..(next - 1)
       /\ \A w \in Workers : ~ Holds(w, csv[i].task)
  /\ OneRowPerTask

NothingLost ==
  \A t \in 0..(next - 1) :
    (\E w \in Workers : Holds(w, t)) \/ (\E i \in DOMAIN csv : csv[i].task = t)

PhaseInv ==
  /\ phase \in {"start", "queue", "closed", "exited"} =>
       \A i \in DOMAIN csv : Complete(csv[i].row, Fields)
  /\ phase = "start" => next = 0
  /\ phase = "threw" => next = 0 \/ \E w \in Workers : pc[w] = "idle"
  /\ phase = "failed" => next = 0 /\ \A w \in Workers : pc[w] = "failed"
  /\ phase \in {"closed", "exited"} =>
       next = NumTasks /\ \A w \in Workers : pc[w] \in {"idle", "left"}
  /\ \A w \in Workers : pc[w] = "left" => phase \in {"closed", "exited", "aborted"}

IInv == TypeInv /\ HeldInv /\ RowInv /\ NothingLost /\ PhaseInv

\* Every task reports at least one metric.
AllReport == {} \notin ResultSets

\* The answer of a task names the task, so rank 0 reads the right id from it.
LEMMA MyTaskIdIsTask ==
  ASSUME AllReport, TypeInv, NEW w \in Workers, pc[w] = "sent"
  PROVE  MyTaskIds(reply[w]) = {task[w]}
<1>1. PICK keys \in ResultSets : reply[w] = TaskResponses(task[w], keys)
  BY DEF TypeInv, Answers
<1>2. DOMAIN reply[w] = keys /\ \A m \in keys : reply[w][m].task_id = task[w]
  BY <1>1 DEF TaskResponses
<1>3. keys # {}
  BY DEF AllReport
<1>. QED  BY <1>2, <1>3 DEF MyTaskIds

\* What Receive does to the rows, with the task the worker held.
LEMMA ReceiveFacts ==
  ASSUME AllReport, IInv, NEW w \in Workers, Receive(w)
  PROVE  /\ DOMAIN csv' = DOMAIN csv \cup {Len(csv) + 1}
         /\ Len(csv) + 1 \notin DOMAIN csv
         /\ \A i \in DOMAIN csv : csv'[i] = csv[i]
         /\ csv'[Len(csv) + 1].task = task[w]
         /\ \/ phase' = phase /\ Complete(csv'[Len(csv) + 1].row, Fields)
            \/ phase' = "threw"
<1>1. PICK my_task_id \in MyTaskIds(reply[w]) :
        LET options == Gather(responses[my_task_id], reply[w])
        IN  /\ csv' = Append(csv, [task |-> my_task_id,
                                   row  |-> CsvRow(TaskName(my_task_id), options, Fields)])
            /\ phase' = IF Throws(options, Fields) THEN "threw" ELSE phase
  BY DEF Receive
<1> DEFINE options == Gather(responses[my_task_id], reply[w])
           row == CsvRow(TaskName(my_task_id), options, Fields)
           new == [task |-> my_task_id, row |-> row]
<1>2. my_task_id = task[w]
  BY MyTaskIdIsTask DEF Receive, IInv
<1>3. csv' = Append(csv, new) /\ new.task = my_task_id /\ new.row = row
  BY <1>1
<1>4. ~ Throws(options, Fields) => Complete(row, Fields)
  BY RowFacts
<1>5. phase' = IF Throws(options, Fields) THEN "threw" ELSE phase
  BY <1>1
<1> HIDE DEF row, new, options
<1>6. /\ DOMAIN csv' = DOMAIN csv \cup {Len(csv) + 1}
      /\ Len(csv) + 1 \notin DOMAIN csv
      /\ \A i \in DOMAIN csv : csv'[i] = csv[i]
      /\ csv'[Len(csv) + 1] = new
  BY <1>3, AppendFacts DEF IInv, TypeInv
<1>. QED  BY <1>2, <1>3, <1>4, <1>5, <1>6

LEMMA InitIInv == Init => IInv
<1> SUFFICES ASSUME Init PROVE IInv
  OBVIOUS
<1>1. DOMAIN csv = {}
  BY DEF Init
<1>2. HeldInv /\ RowInv /\ NothingLost /\ PhaseInv
  BY <1>1 DEF Init, HeldInv, RowInv, NothingLost, PhaseInv, OneRowPerTask, Busy, Holds
<1>. QED  BY <1>2, InitType DEF IInv

\* A step of a worker that keeps its task, or of a rank with no task, leaves every
\* task where it is.
LEMMA NothingMoves ==
  ASSUME IInv, TypeInv', UNCHANGED <<next, csv>>,
         \A w \in Workers : /\ Busy(w)' = Busy(w)
                            /\ Busy(w) => task'[w] = task[w]
  PROVE  HeldInv' /\ RowInv' /\ NothingLost'
<1>1. HeldInv'
  BY DEF IInv, HeldInv
<1>2. RowInv'
  BY DEF IInv, RowInv, OneRowPerTask, Holds
<1>3. NothingLost'
  BY DEF IInv, NothingLost, Holds
<1>. QED  BY <1>1, <1>2, <1>3

\* Before the first task is handed out there is no row, and nobody threw in a task.
LEMMA NothingHeld ==
  ASSUME IInv, next = 0
  PROVE  csv = <<>> /\ \A w \in Workers : ~ Busy(w)
<1>1. \A w \in Workers : ~ Busy(w)
  BY DEF IInv, HeldInv
<1>2. DOMAIN csv = {}
  BY DEF IInv, RowInv
<1>3. {csv[i] : i \in DOMAIN csv} = {}
  BY <1>2
<1>4. csv \in Seq({})
  BY <1>3 DEF IInv, TypeInv, IsSequence
<1>. QED  BY <1>1, <1>2, <1>4

LEMMA NextIInv == AllReport /\ IInv /\ [Next]_vars => IInv'
<1> SUFFICES ASSUME AllReport, IInv, [Next]_vars PROVE IInv'
  OBVIOUS
<1> USE NumTasksNat
<1>0. TypeInv /\ TypeInv'
  BY NextType DEF IInv
<1>1. CASE PrintHeader
  <2>1. HeldInv' /\ RowInv' /\ NothingLost'
    BY <1>0, <1>1, NothingMoves DEF PrintHeader, Busy
  <2>2. PhaseInv'
    BY <1>1 DEF PrintHeader, IInv, PhaseInv
  <2>. QED  BY <1>0, <2>1, <2>2 DEF IInv
<1>2. ASSUME NEW w \in Workers, Assign(w) PROVE IInv'
  <2>1. /\ next \in 0..(NumTasks - 1) /\ next' = next + 1
        /\ task'[w] = next /\ ~ Busy(w) /\ Busy(w)'
        /\ \A v \in Workers \ {w} : Busy(v)' = Busy(v) /\ task'[v] = task[v]
        /\ UNCHANGED <<phase, csv>>
    BY <1>0, <1>2 DEF Assign, TypeInv, TypeOK, Busy, WorkerPC
  <2>2. HeldInv'
    BY <2>1 DEF IInv, HeldInv
  <2>3. RowInv'
    BY <2>1 DEF IInv, RowInv, OneRowPerTask, Holds
  <2>4. NothingLost'
    <3> SUFFICES ASSUME NEW t \in 0..next
                 PROVE  \/ \E v \in Workers : Holds(v, t)'
                        \/ \E i \in DOMAIN csv : csv[i].task = t
      BY <2>1 DEF NothingLost
    <3>1. CASE t = next
      BY <2>1, <3>1 DEF Holds
    <3>2. CASE t # next
      <4>1. t \in 0..(next - 1)
        BY <2>1, <3>2
      <4>2. CASE \E v \in Workers : Holds(v, t)
        BY <2>1, <4>2 DEF Holds
      <4>. QED  BY <4>1, <4>2 DEF IInv, NothingLost
    <3>. QED  BY <3>1, <3>2
  <2>5. PhaseInv'
    BY <1>2, <2>1 DEF Assign, IInv, PhaseInv
  <2>. QED  BY <1>0, <2>2, <2>3, <2>4, <2>5 DEF IInv
<1>3. ASSUME NEW w \in Workers, Receive(w) PROVE IInv'
  <2> DEFINE last == Len(csv) + 1
  <2>1. /\ phase = "queue" /\ next' = next
        /\ Busy(w) /\ ~ Busy(w)' /\ pc'[w] = "idle"
        /\ \A v \in Workers \ {w} : pc'[v] = pc[v] /\ Busy(v)' = Busy(v) /\ task'[v] = task[v]
    BY <1>0, <1>3 DEF Receive, TypeInv, TypeOK, Busy, WorkerPC
  <2>2. /\ DOMAIN csv' = DOMAIN csv \cup {last}
        /\ last \notin DOMAIN csv
        /\ \A i \in DOMAIN csv : csv'[i] = csv[i]
        /\ csv'[last].task = task[w]
        /\ \/ phase' = phase /\ Complete(csv'[last].row, Fields)
           \/ phase' = "threw"
    BY <1>3, ReceiveFacts
  <2>3. next \in Int
    BY <1>0 DEF TypeInv, TypeOK
  <2> HIDE DEF last
  <2>4. HeldInv'
    BY <2>1, <2>3 DEF IInv, HeldInv
  <2>5. RowInv'
    <3>1. \A i \in DOMAIN csv : csv[i].task # task[w]
      BY <2>1 DEF IInv, RowInv, Holds
    <3>2. task[w] \in 0..(next - 1)
      BY <2>1 DEF IInv, HeldInv
    <3>3. \A i \in DOMAIN csv' : csv'[i].task \in 0..(next' - 1)
      BY <2>1, <2>2, <3>2 DEF IInv, RowInv
    <3>4. \A i \in DOMAIN csv', v \in Workers : ~ (Busy(v)' /\ task'[v] = csv'[i].task)
      <4> SUFFICES ASSUME NEW i \in DOMAIN csv', NEW v \in Workers, Busy(v)'
                   PROVE  csv'[i].task # task'[v]
        OBVIOUS
      <4>1. v # w /\ Busy(v) /\ task'[v] = task[v]
        BY <2>1
      <4>2. CASE i = last
        BY <2>1, <2>2, <4>1, <4>2 DEF IInv, HeldInv
      <4>3. CASE i \in DOMAIN csv
        BY <2>2, <4>1, <4>3 DEF IInv, RowInv, Holds
      <4>. QED  BY <2>2, <4>2, <4>3
    <3>5. OneRowPerTask'
      BY <2>2, <3>1 DEF IInv, RowInv, OneRowPerTask
    <3>. QED  BY <3>3, <3>4, <3>5 DEF RowInv, Holds
  <2>6. NothingLost'
    <3> SUFFICES ASSUME NEW t \in 0..(next - 1)
                 PROVE  \/ \E v \in Workers : Holds(v, t)'
                        \/ \E i \in DOMAIN csv' : csv'[i].task = t
      BY <2>1 DEF NothingLost
    <3>1. CASE Holds(w, t)
      BY <2>2, <3>1 DEF Holds
    <3>2. ASSUME NEW v \in Workers \ {w}, Holds(v, t) PROVE Holds(v, t)'
      BY <2>1, <3>2 DEF Holds
    <3>3. ASSUME NEW i \in DOMAIN csv, csv[i].task = t PROVE i \in DOMAIN csv' /\ csv'[i].task = t
      BY <2>2, <3>3
    <3>. QED  BY <3>1, <3>2, <3>3 DEF IInv, NothingLost
  <2>7. PhaseInv'
    BY <2>1, <2>2 DEF IInv, PhaseInv
  <2>. QED  BY <1>0, <2>4, <2>5, <2>6, <2>7 DEF IInv
<1>4. CASE Close
  <2>1. HeldInv' /\ RowInv' /\ NothingLost'
    BY <1>0, <1>4, NothingMoves DEF Close, Busy
  <2>2. PhaseInv'
    BY <1>4 DEF Close, IInv, PhaseInv
  <2>. QED  BY <1>0, <2>1, <2>2 DEF IInv
<1>5. ASSUME NEW w \in Workers, LoadCrashes(w) PROVE IInv'
  <2>1. HeldInv' /\ RowInv' /\ NothingLost'
    BY <1>0, <1>5, NothingMoves DEF LoadCrashes, Busy
  <2>2. PhaseInv'
    BY <1>5 DEF LoadCrashes, IInv, PhaseInv
  <2>. QED  BY <1>0, <2>1, <2>2 DEF IInv
<1>6. ASSUME NEW w \in Workers, LoadThrows(w) \/ RunTask(w) \/ WriteCompressed(w)
                                \/ WriteDecompressed(w) \/ Collect(w)
      PROVE  IInv'
  <2>1. /\ pc[w] \in WorkerPC \ {"start", "failed", "idle", "left"}
        /\ pc'[w] \in WorkerPC \ {"start", "failed", "idle", "left"}
        /\ \A v \in Workers \ {w} : pc'[v] = pc[v]
        /\ UNCHANGED <<phase, next, task, csv>>
    BY <1>0, <1>6 DEF LoadThrows, RunTask, WriteCompressed, WriteDecompressed, Collect,
                      Goto, At, TypeInv, TypeOK, WorkerPC
  <2>2. \A v \in Workers : Busy(v)' = Busy(v)
    BY <2>1 DEF Busy
  <2>3. HeldInv' /\ RowInv' /\ NothingLost'
    BY <1>0, <2>1, <2>2, NothingMoves
  <2>4. PhaseInv'
    BY <2>1 DEF IInv, PhaseInv, WorkerPC
  <2>. QED  BY <1>0, <2>3, <2>4 DEF IInv
<1>7. ASSUME NEW w \in Workers, Leave(w) PROVE IInv'
  <2>1. /\ phase = "closed" /\ pc[w] = "idle" /\ pc'[w] = "left"
        /\ \A v \in Workers \ {w} : pc'[v] = pc[v]
        /\ UNCHANGED <<phase, next, task, csv>>
    BY <1>0, <1>7 DEF Leave, Goto, TypeInv, TypeOK
  <2>2. \A v \in Workers : Busy(v)' = Busy(v)
    BY <2>1 DEF Busy
  <2>3. HeldInv' /\ RowInv' /\ NothingLost'
    BY <1>0, <2>1, <2>2, NothingMoves
  <2>4. PhaseInv'
    BY <2>1 DEF IInv, PhaseInv
  <2>. QED  BY <1>0, <2>3, <2>4 DEF IInv
<1>8. CASE Finalize
  <2>1. HeldInv' /\ RowInv' /\ NothingLost'
    BY <1>0, <1>8, NothingMoves DEF Finalize, Busy
  <2>2. CASE phase = "closed"
    BY <1>0, <1>8, <2>1, <2>2 DEF Finalize, IInv, PhaseInv
  <2>3. CASE phase = "threw"
    <3>1. next = 0 /\ \A w \in Workers : pc[w] = "failed"
      BY <1>8, <2>3, NothingHeld DEF Finalize, IInv, PhaseInv, Busy, WorkerPC
    <3>. QED  BY <1>0, <1>8, <2>1, <2>3, <3>1 DEF Finalize, IInv, PhaseInv
  <2>. QED  BY <1>0, <1>8, <2>1, <2>2, <2>3 DEF Finalize, IInv
<1>9. CASE UNCHANGED vars
  <2>1. HeldInv' /\ RowInv' /\ NothingLost'
    BY <1>0, <1>9, NothingMoves DEF vars, Busy
  <2>2. PhaseInv'
    BY <1>9 DEF vars, IInv, PhaseInv
  <2>. QED  BY <1>0, <2>1, <2>2 DEF IInv
<1>10. CASE StartThrows \/ StartCrashes
  <2>1. HeldInv' /\ RowInv' /\ NothingLost'
    BY <1>0, <1>10, NothingMoves DEF StartThrows, StartCrashes, Busy
  <2>2. PhaseInv'
    BY <1>10 DEF StartThrows, StartCrashes, IInv, PhaseInv
  <2>. QED  BY <1>0, <2>1, <2>2 DEF IInv
<1>11. ASSUME NEW w \in Workers, Enter(w) \/ FailsToEnter(w) PROVE IInv'
  <2>1. /\ Running /\ pc[w] = "start" /\ pc'[w] \in {"idle", "failed"}
        /\ \A v \in Workers \ {w} : pc'[v] = pc[v]
        /\ UNCHANGED <<phase, next, task, csv>>
    BY <1>0, <1>11 DEF Enter, FailsToEnter, Goto, At, TypeInv, TypeOK
  <2>2. \A v \in Workers : Busy(v)' = Busy(v)
    BY <2>1 DEF Busy
  <2>3. HeldInv' /\ RowInv' /\ NothingLost'
    BY <1>0, <2>1, <2>2, NothingMoves
  <2>4. PhaseInv'
    BY <2>1 DEF IInv, PhaseInv, Running, Ended
  <2>. QED  BY <1>0, <2>3, <2>4 DEF IInv
<1>. QED
  BY <1>1, <1>2, <1>3, <1>4, <1>5, <1>6, <1>7, <1>8, <1>9, <1>10, <1>11
     DEF Next, MasterNext, WorkerNext

-----------------------------------------------------------------------------
LEMMA Invariance == AllReport => (Spec => []IInv)
<1> SUFFICES ASSUME AllReport PROVE Spec => []IInv
  OBVIOUS
<1>1. Init => IInv
  BY InitIInv
<1>2. IInv /\ [Next]_vars => IInv'
  BY NextIInv
<1>. QED  BY <1>1, <1>2, PTL DEF Spec

\* No task is printed twice, however many workers answer in whatever order.
THEOREM RowsAreUnique == AllReport => (Spec => []OneRowPerTask)
<1> SUFFICES ASSUME AllReport PROVE Spec => []OneRowPerTask
  OBVIOUS
<1>1. IInv => OneRowPerTask
  BY DEF IInv, RowInv
<1>. QED  BY <1>1, Invariance, PTL

\* An exited job has no task in a worker's hands, so every task has its row; a job
\* that failed had not handed out any.
LEMMA ExitedRows == IInv => ExitIsAllOrNothing
<1> SUFFICES ASSUME IInv PROVE ExitIsAllOrNothing
  OBVIOUS
<1>1. ASSUME phase = "exited", NEW t \in TaskIds
      PROVE  \E i \in DOMAIN csv : csv[i].task = t /\ Complete(csv[i].row, Fields)
  <2>1. next = NumTasks /\ \A w \in Workers : ~ Busy(w)
    BY <1>1 DEF IInv, PhaseInv, Busy
  <2>2. t \in 0..(next - 1)
    BY <2>1 DEF TaskIds
  <2>3. PICK i \in DOMAIN csv : csv[i].task = t
    BY <2>1, <2>2 DEF IInv, NothingLost, Holds
  <2>4. Complete(csv[i].row, Fields)
    BY <1>1 DEF IInv, PhaseInv
  <2>. QED  BY <2>3, <2>4
<1>2. ASSUME phase = "failed" PROVE csv = <<>> /\ \A w \in Workers : pc[w] = "failed"
  BY <1>2, NothingHeld DEF IInv, PhaseInv
<1>. QED  BY <1>1, <1>2 DEF ExitIsAllOrNothing

\* main returns with the complete row of every task, or without any row.
THEOREM ExitIsComplete == AllReport => (Spec => []ExitIsAllOrNothing)
<1> SUFFICES ASSUME AllReport PROVE Spec => []ExitIsAllOrNothing
  OBVIOUS
<1>. QED  BY ExitedRows, Invariance, PTL

\* After an exception on any rank the job never reaches the end of MPI_Finalize.
THEOREM ThrowNeverExits == AllReport => (Spec => ThrowIsFinal)
<1> SUFFICES ASSUME AllReport PROVE Spec => ThrowIsFinal
  OBVIOUS
<1>1. IInv /\ IInv' /\ [Next]_vars =>
        [SomeoneThrew => phase' # "exited" /\ (next > 0 => phase' # "failed")]_vars
  <2> SUFFICES ASSUME IInv, IInv', [Next]_vars, ~ UNCHANGED vars, SomeoneThrew
               PROVE  phase' # "exited" /\ (next > 0 => phase' # "failed")
    OBVIOUS
  <2>1. phase \notin {"closed", "exited"}
    BY DEF IInv, PhaseInv, SomeoneThrew
  <2>2. CASE Finalize
    BY <2>1, <2>2 DEF Finalize, IInv, PhaseInv
  <2>3. CASE Next /\ ~ Finalize
    <3>1. phase' = phase \/ phase' \in {"queue", "threw", "closed", "aborted"}
      BY <2>3 DEF Next, MasterNext, WorkerNext, StartThrows, StartCrashes, PrintHeader, Assign,
                  Receive, Close, Enter, FailsToEnter, LoadThrows, LoadCrashes, RunTask,
                  WriteCompressed, WriteDecompressed, Collect, Leave
    <3>2. phase = "failed" => ~ (next > 0)
      BY DEF IInv, PhaseInv
    <3>. QED  BY <2>1, <3>1, <3>2
  <2>. QED  BY <2>2, <2>3
<1>2. Spec => [][Next]_vars
  BY DEF Spec
<1>. QED  BY <1>1, <1>2, Invariance, PTL DEF ThrowIsFinal

-----------------------------------------------------------------------------
(***************************************************************************)
(* The refinement of BatchRows: Receive is a Report, of a row that is      *)
(* whole unless output_csv threw, Finalize is the End, and every other     *)
(* step leaves the rows alone.                                             *)
(***************************************************************************)
LEMMA RowsInit == Init => Rows!Init
BY DEF Init, Rows!Init, Printed

LEMMA RowsNext == AllReport /\ IInv /\ IInv' /\ [Next]_vars => [Rows!Next]_(Rows!rvars)
<1> SUFFICES ASSUME AllReport, IInv, IInv', [Next]_vars
             PROVE  Rows!Next \/ UNCHANGED Rows!rvars
  OBVIOUS
<1>1. ASSUME NEW w \in Workers, Receive(w) PROVE Rows!Next \/ UNCHANGED Rows!rvars
  <2> DEFINE last == Len(csv) + 1
  <2>1. /\ DOMAIN csv' = DOMAIN csv \cup {last}
        /\ last \notin DOMAIN csv
        /\ \A i \in DOMAIN csv : csv'[i] = csv[i]
        /\ csv'[last].task = task[w]
        /\ \/ phase' = phase /\ Complete(csv'[last].row, Fields)
           \/ phase' = "threw"
    BY <1>1, ReceiveFacts
  <2> HIDE DEF last
  <2>2. phase = "queue" /\ phase' # "exited"
    BY <1>1, <2>1 DEF Receive
  <2> DEFINE whole == Complete(csv'[last].row, Fields)
  <2>3. task[w] \in TaskIds
    <3>1. task[w] \in 0..(next - 1)
      BY <1>1 DEF Receive, IInv, HeldInv, Busy, WorkerPC
    <3>2. next \in 0..NumTasks
      BY DEF IInv, TypeInv, TypeOK
    <3>. QED  BY <3>1, <3>2, NumTasksNat DEF TaskIds
  <2>4. task[w] \notin Rows!Taken
    BY <1>1 DEF Receive, IInv, RowInv, Holds, Busy, WorkerPC, Printed, Rows!Taken
  <2>5. Rows!Goes
    BY <2>2 DEF IInv, PhaseInv, Printed, Rows!Goes
  <2>6. Printed' = Append(Printed, [task |-> task[w], whole |-> whole])
    <3>1. Len(csv) \in Nat /\ DOMAIN csv = 1..Len(csv) /\ DOMAIN csv' = 1..(Len(csv) + 1)
      <4>1. Len(csv) \in Nat /\ DOMAIN csv = 1..Len(csv)
        BY DEF IInv, TypeInv, IsSequence
      <4>. QED  BY <2>1, <4>1 DEF last
    <3>2. /\ Printed = [k \in 1..Len(csv) |-> Printed[k]]
          /\ Printed' = [k \in 1..(Len(csv) + 1) |-> Printed'[k]]
      BY <3>1 DEF Printed
    <3>3. /\ IsSequence(Printed) /\ Len(Printed) = Len(csv)
          /\ IsSequence(Printed') /\ Len(Printed') = Len(csv) + 1
      BY <3>1, <3>2, SequenceOfNumbers
    <3>4. /\ \A k \in 1..Len(csv) : Printed'[k] = Printed[k]
          /\ Printed'[Len(csv) + 1] = [task |-> task[w], whole |-> whole]
      BY <2>1, <3>1 DEF Printed, last
    <3>. QED  BY <3>3, <3>4, IsAppend
  <2>7. whole \in BOOLEAN
    BY DEF Complete
  <2>8. Rows!Report(task[w], whole)
    BY <2>2, <2>4, <2>5, <2>6 DEF Rows!Report, AnyOrder
  <2>. QED  BY <2>3, <2>7, <2>8 DEF Rows!Next
<1>2. CASE Finalize
  <2>1. UNCHANGED csv /\ phase \in {"closed", "threw"}
    BY <1>2 DEF Finalize
  <2>2. UNCHANGED Printed
    BY <2>1 DEF Printed
  <2>3. CASE phase = "threw"
    BY <1>2, <2>3, <2>2 DEF Finalize, Rows!rvars
  <2>4. CASE phase = "closed"
    <3>1. phase' = "exited"
      BY <1>2, <2>4 DEF Finalize
    <3>2. TaskIds \subseteq Rows!Taken
      <4> SUFFICES ASSUME NEW t \in TaskIds PROVE t \in Rows!Taken
        OBVIOUS
      <4>1. PICK i \in DOMAIN csv' : csv'[i].task = t
        <5>1. ExitIsAllOrNothing'
          BY ExitedRows, PTL
        <5>. QED  BY <3>1, <5>1 DEF ExitIsAllOrNothing
      <4>. QED  BY <2>1, <4>1 DEF Printed, Rows!Taken
    <3>3. Rows!Taken \subseteq TaskIds
      BY <2>4, NumTasksNat DEF IInv, RowInv, PhaseInv, Printed, Rows!Taken, TaskIds
    <3>4. Rows!Goes
      BY <2>4 DEF IInv, PhaseInv, Printed, Rows!Goes
    <3>. QED  BY <2>2, <2>4, <3>1, <3>2, <3>3, <3>4 DEF Rows!Next, Rows!End
  <2>. QED  BY <2>1, <2>3, <2>4
<1>3. CASE UNCHANGED vars
  BY <1>3 DEF vars, Rows!rvars, Printed
<1>4. CASE Next /\ ~ Finalize /\ \A w \in Workers : ~ Receive(w)
  <2>1. UNCHANGED csv /\ phase # "exited" /\ phase' # "exited"
    BY <1>4 DEF Next, MasterNext, WorkerNext, StartThrows, StartCrashes, PrintHeader, Assign,
                Close, Enter, FailsToEnter, LoadThrows, LoadCrashes, RunTask, WriteCompressed,
                WriteDecompressed, Collect, Leave, At, Running, Ended
  <2>. QED  BY <2>1 DEF Rows!rvars, Printed
<1>. QED  BY <1>1, <1>2, <1>3, <1>4

\* Workers, answers and exceptions hidden, the output is one row for each task taken,
\* that stays; nothing follows a short one; and the job ends when no task is left.
THEOREM RefinesRows == AllReport => (Spec => ImplementsRows)
<1> SUFFICES ASSUME AllReport PROVE Spec => ImplementsRows
  OBVIOUS
<1>1. IInv /\ IInv' /\ [Next]_vars => [Rows!Next]_(Rows!rvars)
  BY RowsNext
<1>2. Spec => Init /\ [][Next]_vars
  BY DEF Spec
<1>. QED  BY <1>1, <1>2, RowsInit, Invariance, PTL DEF ImplementsRows, Rows!Spec

-----------------------------------------------------------------------------
(***************************************************************************)
(* The cells.  An option that rank 0 keeps for a task holds a value of the *)
(* task: the metric it is named after, or one without a column under the   *)
(* name of the first.                                                      *)
(***************************************************************************)
Belongs(value, t, f) ==
  /\ value[1] = t
  /\ \/ value[2] = f
     \/ \A k \in DOMAIN Fields : Fields[k] # value[2] /\ f = Fields[1]

OptionsBelong(options, t) ==
  \A f \in DOMAIN options : options[f].type = "double" /\ Belongs(options[f].value, t, f)

CellsInv == (\A t \in 0..NoTask : OptionsBelong(responses[t], t)) /\ CellsBelongToRow

\* The columns are numbered from 1.
LEMMA FieldsDomain == \E n \in Nat : DOMAIN Fields = 1..n
<1>1. CASE UserFields # <<>>
  BY <1>1, FieldsAssumption DEF Fields
<1>2. CASE UserFields = <<>>
  BY <1>2, FieldsAssumption, FS_CardinalityType DEF Fields, InKeyOrder
<1>. QED  BY <1>1, <1>2

\* The way of a metric through its id: back to its name, or to the first column's.
LEMMA FieldOfId ==
  ASSUME NEW m
  PROVE  \/ IdToFieldname(FieldnameToId(m)) = m
         \/ \A k \in DOMAIN Fields :
              Fields[k] # m /\ IdToFieldname(FieldnameToId(m)) = Fields[1]
<1>1. PICK n \in Nat : DOMAIN Fields = 1..n
  BY FieldsDomain
<1> DEFINE ids == {i \in DOMAIN Fields : Fields[i] = m}
<1>2. CASE ids = {}
  <2>1. FieldnameToId(m) = 0
    BY <1>2 DEF FieldnameToId
  <2>2. \A k \in DOMAIN Fields : 1 \in DOMAIN Fields /\ Fields[k] # m
    BY <1>1, <1>2
  <2>. QED  BY <2>1, <2>2 DEF IdToFieldname
<1>3. CASE ids # {}
  <2>1. ids \in SUBSET Nat /\ IsFiniteSet(ids)
    BY <1>1, FS_Interval, FS_Subset
  <2>2. Max(ids) \in ids
    BY <1>3, <2>1, MaxFacts
  <2>3. FieldnameToId(m) = Max(ids) - 1
    BY <1>3 DEF FieldnameToId
  <2>4. IdToFieldname(FieldnameToId(m)) = m
    BY <1>1, <2>2, <2>3 DEF IdToFieldname
  <2>. QED  BY <2>4
<1>. QED  BY <1>2, <1>3

\* The answer of a task leaves options that belong to it.
LEMMA GatherBelongs ==
  ASSUME NEW t, NEW keys \in ResultSets, NEW options, OptionsBelong(options, t)
  PROVE  OptionsBelong(Gather(options, TaskResponses(t, keys)), t)
<1> DEFINE answer == TaskResponses(t, keys)
           Sources(f) == {m \in DOMAIN answer : IdToFieldname(answer[m].metric_id) = f}
           Names == {IdToFieldname(answer[m].metric_id) : m \in DOMAIN answer}
<1>1. /\ DOMAIN answer = keys
      /\ \A m \in keys : answer[m].metric_id = FieldnameToId(m) /\ answer[m].metric = <<t, m>>
  BY DEF TaskResponses, Value
<1>2. keys \in SUBSET Nat /\ IsFiniteSet(keys)
  BY FieldsAssumption
<1> HIDE DEF answer
<1>3. ASSUME NEW f \in Names
      PROVE  Belongs(answer[Max(Sources(f))].metric, t, f)
  <2>1. Sources(f) \in SUBSET Nat /\ Sources(f) # {} /\ IsFiniteSet(Sources(f))
    BY <1>1, <1>2, <1>3, FS_Subset
  <2>2. Max(Sources(f)) \in Sources(f)
    BY <2>1, MaxFacts
  <2>3. PICK m \in keys : m = Max(Sources(f)) /\ IdToFieldname(FieldnameToId(m)) = f
    BY <1>1, <2>2
  <2>4. answer[m].metric = <<t, m>>
    BY <1>1
  <2>5. f = m \/ \A k \in DOMAIN Fields : Fields[k] # m /\ f = Fields[1]
    BY <2>3, FieldOfId
  <2>. QED  BY <2>3, <2>4, <2>5 DEF Belongs
<1>4. Gather(options, answer) =
        [f \in DOMAIN options \cup Names |->
           IF f \in Names THEN [type |-> "double", value |-> answer[Max(Sources(f))].metric]
                          ELSE options[f]]
  BY DEF Gather
<1> HIDE DEF Sources, Names
<1>5. OptionsBelong(Gather(options, answer), t)
  BY <1>3, <1>4 DEF OptionsBelong
<1>. QED  BY <1>5 DEF answer

\* A row of such options has cells that belong to it.
LEMMA RowBelongs ==
  ASSUME NEW t, NEW name, NEW options, OptionsBelong(options, t),
         NEW c \in DOMAIN CsvRow(name, options, Fields).cells
  PROVE  Belongs(CsvRow(name, options, Fields).cells[c], t, Fields[c])
<1>1. /\ c \in Reached(options, Fields)
      /\ CsvRow(name, options, Fields).cells[c] = PrintValue(options[Fields[c]])
  BY DEF CsvRow
<1>2. PICK n \in Nat : DOMAIN Fields = 1..n
  BY FieldsDomain
<1>3. Fields[c] \in DOMAIN options
  BY <1>1, <1>2 DEF Reached
<1>. QED  BY <1>1, <1>3 DEF OptionsBelong, PrintValue, PrintedTypes

\* Every step keeps CellsInv.
LEMMA NextCells == AllReport /\ IInv /\ CellsInv /\ [Next]_vars => CellsInv'
<1> SUFFICES ASSUME AllReport, IInv, CellsInv, [Next]_vars PROVE CellsInv'
  OBVIOUS
<1>1. ASSUME NEW w \in Workers, Receive(w) PROVE CellsInv'
  <2>1. PICK my_task_id \in MyTaskIds(reply[w]) :
          LET options == Gather(responses[my_task_id], reply[w])
          IN  /\ responses' = [responses EXCEPT ![my_task_id] = options]
              /\ csv' = Append(csv, [task |-> my_task_id,
                                     row  |-> CsvRow(TaskName(my_task_id), options, Fields)])
    BY <1>1 DEF Receive
  <2> DEFINE t == task[w]
             options == Gather(responses[t], reply[w])
             row == CsvRow(TaskName(t), options, Fields)
             new == [task |-> t, row |-> row]
  <2>2. my_task_id = t
    BY <1>1, MyTaskIdIsTask DEF Receive, IInv
  <2>3. PICK keys \in ResultSets : reply[w] = TaskResponses(t, keys)
    BY <1>1 DEF Receive, IInv, TypeInv, Answers
  <2>4. t \in 0..NoTask
    BY DEF IInv, TypeInv, TypeOK
  <2>5. OptionsBelong(options, t)
    BY <2>3, <2>4, GatherBelongs DEF CellsInv
  <2>6. \A c \in DOMAIN row.cells : Belongs(row.cells[c], t, Fields[c])
    BY <2>5, RowBelongs
  <2>7. responses' = [responses EXCEPT ![t] = options] /\ csv' = Append(csv, new)
    BY <2>1, <2>2
  <2>8. new.task = t /\ new.row = row
    OBVIOUS
  <2> HIDE DEF options, row, new, t
  <2>9. \A u \in 0..NoTask : OptionsBelong(responses'[u], u)
    BY <2>4, <2>5, <2>7 DEF CellsInv, IInv, TypeInv, TypeOK
  <2>10. /\ DOMAIN csv' = DOMAIN csv \cup {Len(csv) + 1}
         /\ \A i \in DOMAIN csv : csv'[i] = csv[i]
         /\ csv'[Len(csv) + 1] = new
    BY <2>7, AppendFacts DEF IInv, TypeInv
  <2>11. ASSUME NEW i \in DOMAIN csv', NEW c \in DOMAIN csv'[i].row.cells
         PROVE  Belongs(csv'[i].row.cells[c], csv'[i].task, Fields[c])
    <3>1. CASE i \in DOMAIN csv
      BY <2>10, <2>11, <3>1 DEF CellsInv, CellsBelongToRow, Belongs
    <3>2. CASE i = Len(csv) + 1
      BY <2>6, <2>8, <2>10, <2>11, <3>2
    <3>. QED  BY <2>10, <3>1, <3>2
  <2>12. \A i \in DOMAIN csv' : DOMAIN csv'[i].row.cells \subseteq DOMAIN Fields
    <3>1. TypeInv'
      BY NextType DEF IInv
    <3>. QED  BY <3>1 DEF TypeInv, TypeOK
  <2>13. CellsBelongToRow'
    BY <2>11, <2>12 DEF CellsBelongToRow, Belongs
  <2>. QED  BY <2>9, <2>13 DEF CellsInv
<1>2. CASE \A w \in Workers : ~ Receive(w)
  <2>1. UNCHANGED <<responses, csv>>
    BY <1>2 DEF Next, MasterNext, WorkerNext, StartThrows, StartCrashes, PrintHeader, Assign,
                Close, Enter, FailsToEnter, LoadThrows, LoadCrashes, RunTask, WriteCompressed,
                WriteDecompressed, Collect, Leave, Finalize, vars
  <2>. QED  BY <2>1 DEF CellsInv, CellsBelongToRow
<1>. QED  BY <1>1, <1>2

\* A row shows only what its task reported, whatever the ids of the metrics collide with.
THEOREM CellsAreOfTheirTask == AllReport => (Spec => []CellsBelongToRow)
<1> SUFFICES ASSUME AllReport PROVE Spec => []CellsBelongToRow
  OBVIOUS
<1>1. Init => CellsInv
  <2> SUFFICES ASSUME Init PROVE CellsInv
    OBVIOUS
  <2>1. \A t \in 0..NoTask : DOMAIN responses[t] = {}
    BY DEF Init
  <2>2. DOMAIN csv = {}
    BY DEF Init
  <2>. QED  BY <2>1, <2>2 DEF CellsInv, OptionsBelong, CellsBelongToRow
<1>2. IInv /\ CellsInv /\ [Next]_vars => CellsInv'
  BY NextCells
<1>3. CellsInv => CellsBelongToRow
  BY DEF CellsInv
<1>. QED  BY <1>1, <1>2, <1>3, Invariance, PTL DEF Spec

-----------------------------------------------------------------------------
(***************************************************************************)
(* The output files, for any ResultSets: a task is with one worker, and    *)
(* tasks of one replicate have different names.                            *)
(***************************************************************************)

\* The tasks are held apart whatever they report.
LEMMA NextHeld == TypeInv /\ HeldInv /\ [Next]_vars => HeldInv'
<1> SUFFICES ASSUME TypeInv, HeldInv, [Next]_vars PROVE HeldInv'
  OBVIOUS
<1> USE NumTasksNat
<1>1. next \in Nat /\ pc \in [Workers -> WorkerPC] /\ task \in [Workers -> 0..NoTask]
  BY DEF TypeInv, TypeOK
<1>2. ASSUME next' = next,
             \A w \in Workers : Busy(w)' => Busy(w) /\ task'[w] = task[w]
      PROVE  HeldInv'
  BY <1>2 DEF HeldInv
<1>3. ASSUME NEW w \in Workers, Assign(w) PROVE HeldInv'
  <2>1. /\ next' = next + 1 /\ task'[w] = next
        /\ \A v \in Workers \ {w} : Busy(v)' = Busy(v) /\ task'[v] = task[v]
    BY <1>1, <1>3 DEF Assign, Busy
  <2>. QED  BY <1>1, <2>1 DEF HeldInv
<1>4. ASSUME NEW w \in Workers, Receive(w) PROVE HeldInv'
  <2>1. /\ next' = next /\ pc'[w] = "idle"
        /\ \A v \in Workers \ {w} : pc'[v] = pc[v] /\ task'[v] = task[v]
    BY <1>1, <1>4 DEF Receive
  <2>. QED  BY <1>2, <2>1 DEF Busy
<1>5. ASSUME NEW w \in Workers,
             Enter(w) \/ FailsToEnter(w) \/ LoadThrows(w) \/ RunTask(w) \/ WriteCompressed(w)
               \/ WriteDecompressed(w) \/ Collect(w) \/ Leave(w)
      PROVE  HeldInv'
  <2>1. /\ UNCHANGED <<next, task>>
        /\ \A v \in Workers \ {w} : pc'[v] = pc[v]
        /\ Busy(w)' => Busy(w)
    BY <1>1, <1>5 DEF Enter, FailsToEnter, LoadThrows, RunTask, WriteCompressed, WriteDecompressed,
                      Collect, Leave, Goto, At, Busy, WorkerPC
  <2>. QED  BY <1>2, <2>1 DEF Busy
<1>6. ASSUME UNCHANGED <<next, pc, task>> PROVE HeldInv'
  BY <1>2, <1>6 DEF Busy
<1>. QED
  BY <1>3, <1>4, <1>5, <1>6
     DEF Next, MasterNext, WorkerNext, StartThrows, PrintHeader, Close, LoadCrashes, StartCrashes,
         Finalize, vars

\* Division by the number of configurations, of which there is one, and of datasets.
LEMMA SameDivision ==
  ASSUME NEW d \in Nat \ {0}, NEW x \in Nat, NEW y \in Nat, x \div d = y \div d, x % d = y % d
  PROVE  x = y
BY SMT

LEMMA LargeQuotient ==
  ASSUME NEW d \in Nat \ {0}, NEW x \in Nat, NEW n \in Nat, x \div d >= n
  PROVE  x >= n * d
BY SMT

LEMMA SmallRemainder ==
  ASSUME NEW d \in Nat \ {0}, NEW x \in Nat, x < d
  PROVE  x % d = x
BY SMT

LEMMA QuotientNat ==
  ASSUME NEW d \in Nat \ {0}, NEW x \in Nat
  PROVE  x \div d \in Nat
BY SMT

\* Without replicates, two tasks differ in the dataset or the configuration.
LEMMA NamesDiffer ==
  ASSUME Replicats <= 1, NEW s \in TaskIds, NEW t \in TaskIds, TaskName(s) = TaskName(t)
  PROVE  s = t
<1>1. NumDatasets \in Nat /\ NumCompressors \in Nat /\ s \in Nat /\ t \in Nat
  BY SizesAssumption, NumTasksNat DEF TaskIds
<1>2. s < NumTasks /\ t < NumTasks /\ NumTasks <= NumDatasets * NumCompressors
  <2>1. Replicats = 0 \/ Replicats = 1
    BY SizesAssumption
  <2>2. Replicats = 1
    BY <2>1, <1>1, NumTasksNat DEF NumTasks, TaskIds
  <2>. QED  BY <2>2, <1>1, NumTasksNat DEF NumTasks, TaskIds
<1>3. NumCompressors # 0 /\ NumDatasets # 0
  <2>1. 0 < NumDatasets * NumCompressors
    BY <1>1, <1>2, NumTasksNat
  <2>2. NumCompressors = 0 \/ NumDatasets = 0 => NumDatasets * NumCompressors = 0
    BY <1>1
  <2>. QED  BY <2>1, <2>2
<1>4. \A x \in {s, t} : (x \div NumCompressors) % NumDatasets = x \div NumCompressors
  <2> SUFFICES ASSUME NEW x \in {s, t}
               PROVE  (x \div NumCompressors) % NumDatasets = x \div NumCompressors
    OBVIOUS
  <2>1. x \in Nat /\ x < NumDatasets * NumCompressors
    BY <1>1, <1>2, NumTasksNat
  <2>2. NumCompressors \in Nat \ {0} /\ NumDatasets \in Nat \ {0}
    BY <1>1, <1>3
  <2>3. x \div NumCompressors \in Nat
    BY <2>1, <2>2, QuotientNat
  <2>4. ~ (x \div NumCompressors >= NumDatasets)
    <3> SUFFICES ASSUME x \div NumCompressors >= NumDatasets PROVE FALSE
      OBVIOUS
    <3>1. x >= NumDatasets * NumCompressors
      BY <2>1, <2>2, LargeQuotient
    <3>2. NumDatasets * NumCompressors \in Nat
      BY <1>1
    <3>. QED  BY <3>1, <3>2, <2>1
  <2> DEFINE q == x \div NumCompressors
  <2>5. q \in Nat /\ q < NumDatasets
    <3>1. q \in Nat /\ ~ (q >= NumDatasets)
      BY <2>3, <2>4
    <3> HIDE DEF q
    <3>. QED  BY <3>1, <2>2
  <2> HIDE DEF q
  <2>6. q % NumDatasets = q
    BY <2>2, <2>5, SmallRemainder
  <2>. QED  BY <2>6 DEF q
<1>5. s % NumCompressors = t % NumCompressors /\ s \div NumCompressors = t \div NumCompressors
  BY <1>4 DEF TaskName, CompressorOf, DatasetOf
<1>. QED  BY <1>1, <1>3, <1>5, SameDivision

\* Without replicates no two workers write the same file at once, whatever fails.
THEOREM FilesHaveOneWriter == Replicats <= 1 => (Spec => []WritersApart)
<1> SUFFICES ASSUME Replicats <= 1 PROVE Spec => []WritersApart
  OBVIOUS
<1>1. Init => TypeInv /\ HeldInv
  BY InitType DEF Init, HeldInv, Busy
<1>2. TypeInv /\ HeldInv /\ [Next]_vars => TypeInv' /\ HeldInv'
  BY NextType, NextHeld
<1>3. TypeInv /\ HeldInv => WritersApart
  <2> SUFFICES ASSUME TypeInv, HeldInv, NEW v \in Workers, NEW w \in Workers, v # w,
                      \/ pc[v] = "write_compressed" /\ pc[w] = "write_compressed"
                      \/ pc[v] = "write_decompressed" /\ pc[w] = "write_decompressed"
               PROVE  TaskName(task[v]) # TaskName(task[w])
    BY DEF WritersApart
  <2>1. Busy(v) /\ Busy(w)
    BY DEF Busy, WorkerPC
  <2>2. next \in 0..NumTasks
    BY DEF TypeInv, TypeOK
  <2>3. task[v] \in TaskIds /\ task[w] \in TaskIds /\ task[v] # task[w]
    BY <2>1, <2>2, NumTasksNat DEF HeldInv, TaskIds
  <2>. QED  BY <2>3, NamesDiffer
<1>. QED  BY <1>1, <1>2, <1>3, PTL DEF Spec

-----------------------------------------------------------------------------
(***************************************************************************)
(* The job goes on until it has ended or somebody threw, for any           *)
(* ResultSets.                                                             *)
(***************************************************************************)

\* Only idle workers leave, once the queue is closed.
LeaveInv ==
  /\ phase = "closed" => \A w \in Workers : pc[w] \in {"idle", "left"}
  /\ \A w \in Workers : pc[w] = "left" => phase \in {"closed"} \cup Ended

LEMMA NextLeave == TypeInv /\ LeaveInv /\ [Next]_vars => LeaveInv'
<1> SUFFICES ASSUME TypeInv, LeaveInv, [Next]_vars PROVE LeaveInv'
  OBVIOUS
<1>1. pc \in [Workers -> WorkerPC] /\ phase \in Phases
  BY DEF TypeInv, TypeOK
<1>2. ASSUME phase' \in {phase} \cup Ended, UNCHANGED pc PROVE LeaveInv'
  BY <1>2 DEF LeaveInv, Ended
<1>3. CASE StartThrows \/ PrintHeader
  BY <1>1, <1>3 DEF StartThrows, PrintHeader, LeaveInv, Ended
<1>4. ASSUME NEW w \in Workers, Assign(w) \/ Receive(w) PROVE LeaveInv'
  <2>1. phase' \in {"queue", "threw"} /\ phase = "queue"
    BY <1>4 DEF Assign, Receive
  <2>2. \A v \in Workers : pc'[v] # "left"
    BY <1>1, <1>4, <2>1 DEF Assign, Receive, LeaveInv, Ended
  <2>. QED  BY <2>1, <2>2 DEF LeaveInv
<1>5. CASE Close
  BY <1>1, <1>5 DEF Close, LeaveInv
<1>6. ASSUME NEW w \in Workers,
             Enter(w) \/ FailsToEnter(w) \/ LoadThrows(w) \/ RunTask(w) \/ WriteCompressed(w)
               \/ WriteDecompressed(w) \/ Collect(w)
      PROVE  LeaveInv'
  <2>1. phase' = phase /\ pc[w] \notin {"idle", "left"} /\ pc'[w] # "left"
    BY <1>1, <1>6 DEF Enter, FailsToEnter, LoadThrows, RunTask, WriteCompressed, WriteDecompressed,
                      Collect, Goto, At
  <2>2. \A v \in Workers \ {w} : pc'[v] = pc[v]
    BY <1>1, <1>6 DEF Enter, FailsToEnter, LoadThrows, RunTask, WriteCompressed, WriteDecompressed,
                      Collect, Goto, At
  <2>. QED  BY <2>1, <2>2 DEF LeaveInv
<1>7. ASSUME NEW w \in Workers, Leave(w) PROVE LeaveInv'
  BY <1>1, <1>7 DEF Leave, Goto, LeaveInv
<1>8. ASSUME NEW w \in Workers, LoadCrashes(w) PROVE LeaveInv'
  BY <1>2, <1>8 DEF LoadCrashes, Ended
<1>9. CASE StartCrashes \/ Finalize \/ UNCHANGED vars
  BY <1>2, <1>9 DEF StartCrashes, Finalize, Ended, vars
<1>. QED
  BY <1>3, <1>4, <1>5, <1>6, <1>7, <1>8, <1>9 DEF Next, MasterNext, WorkerNext

\* Unless the job has ended or somebody threw, some rank can go on: the queue never
\* waits for a worker that waits for the queue, whatever the ranks have done so far.
THEOREM RanksDoNotWaitForEachOther ==
  Spec => [](SomeoneGoesOn \/ phase \in Ended \/ SomeoneThrew)
<1>1. Init => TypeInv /\ LeaveInv
  BY InitType DEF Init, LeaveInv
<1>2. TypeInv /\ LeaveInv /\ [Next]_vars => TypeInv' /\ LeaveInv'
  BY NextType, NextLeave
<1>3. TypeInv /\ LeaveInv => SomeoneGoesOn \/ phase \in Ended \/ SomeoneThrew
  <2> SUFFICES ASSUME TypeInv, LeaveInv, phase \notin Ended, ~ SomeoneThrew
               PROVE  SomeoneGoesOn
    OBVIOUS
  <2>1. pc \in [Workers -> WorkerPC] /\ phase \in {"start", "queue", "closed"} /\ next \in 0..NumTasks
    BY DEF TypeInv, TypeOK, Phases, SomeoneThrew
  <2>2. \A w \in Workers : pc[w] \notin {"threw", "failed"}
    BY DEF SomeoneThrew
  <2>3. CASE phase = "queue"
    <3>1. \A w \in Workers : pc[w] # "left"
      BY <2>3 DEF LeaveInv, Ended
    <3>2. CASE \A w \in Workers : pc[w] = "idle"
      <4>1. Workers # {}
        BY WorkersAssumption
      <4>2. next < NumTasks \/ next = NumTasks
        BY <2>1, NumTasksNat
      <4>. QED  BY <2>3, <3>2, <4>1, <4>2 DEF SomeoneGoesOn
    <3>3. CASE \E w \in Workers : pc[w] # "idle"
      BY <2>1, <2>2, <2>3, <3>1, <3>3 DEF SomeoneGoesOn, Running, WorkerPC
    <3>. QED  BY <3>2, <3>3
  <2>4. CASE phase = "closed"
    BY <2>4 DEF LeaveInv, SomeoneGoesOn
  <2>5. CASE phase = "start"
    BY <2>5 DEF SomeoneGoesOn
  <2>. QED  BY <2>1, <2>3, <2>4, <2>5
<1>. QED  BY <1>1, <1>2, <1>3, PTL DEF Spec

\* What the run checks, where the guards in SomeoneGoesOn are those of the actions.
THEOREM StopsOnlyAfterThrow ==
  Spec /\ [](SomeoneGoesOn <=> ENABLED Next) => []StuckOnlyAfterThrow
<1>1. /\ SomeoneGoesOn \/ phase \in Ended \/ SomeoneThrew
      /\ SomeoneGoesOn <=> ENABLED Next
      => StuckOnlyAfterThrow
  BY DEF StuckOnlyAfterThrow
<1>. QED  BY <1>1, RanksDoNotWaitForEachOther, PTL

-----------------------------------------------------------------------------
(***************************************************************************)
(* Nobody goes back, for any ResultSets.                                   *)
(***************************************************************************)

\* The positions are tuples of numbers up to a bound.
PositionsBounded ==
  /\ RootPosition \in (0..3) \X (0..NumTasks)
  /\ \A w \in Workers : Position(w) \in (0..2) \X (0..NumTasks) \X (0..5)

LEMMA PositionTypes == TypeInv => PositionsBounded
<1> SUFFICES ASSUME TypeInv PROVE PositionsBounded
  OBVIOUS
<1>1. RootPosition[1] \in 0..3 /\ RootPosition[2] \in 0..NumTasks
  BY DEF RootPosition, TypeInv, TypeOK
<1>2. RootPosition \in (0..3) \X (0..NumTasks)
  BY <1>1 DEF RootPosition
<1>3. ASSUME NEW w \in Workers PROVE Position(w) \in (0..2) \X (0..NumTasks) \X (0..5)
  <2>1. Position(w)[1] \in 0..2 /\ Position(w)[3] \in 0..5
    BY DEF Position
  <2>2. Position(w)[2] \in 0..NumTasks
    BY NumTasksNat DEF Position, TypeInv, TypeOK
  <2>. QED  BY <2>1, <2>2 DEF Position
<1>. QED  BY <1>2, <1>3 DEF PositionsBounded

\* A position whose first different number grows is a later one, and another one.
LEMMA WorkerForward ==
  ASSUME PositionsBounded, PositionsBounded', NEW w \in Workers,
         LET p == Position(w)
             q == Position(w)'
         IN  p[1] < q[1] \/ (p[1] = q[1] /\ (p[2] < q[2] \/ (p[2] = q[2] /\ p[3] < q[3])))
  PROVE  Later(Position(w), Position(w)') /\ Position(w)' # Position(w)
<1> DEFINE p == Position(w)
           q == Position(w)'
<1>1. /\ p \in (0..2) \X (0..NumTasks) \X (0..5)
      /\ q \in (0..2) \X (0..NumTasks) \X (0..5)
  BY DEF PositionsBounded
<1>2. p[1] < q[1] \/ (p[1] = q[1] /\ (p[2] < q[2] \/ (p[2] = q[2] /\ p[3] < q[3])))
  OBVIOUS
<1> HIDE DEF p, q
<1>3. /\ p = <<p[1], p[2], p[3]>> /\ p[1] \in Nat /\ p[2] \in Nat /\ p[3] \in Nat
      /\ q = <<q[1], q[2], q[3]>> /\ q[1] \in Nat /\ q[2] \in Nat /\ q[3] \in Nat
  BY <1>1, NumTasksNat
<1>4. Later(<<p[1], p[2], p[3]>>, <<q[1], q[2], q[3]>>)
  BY <1>2, <1>3, LaterTriple
<1>5. p # q
  BY <1>2, <1>3
<1>. QED  BY <1>3, <1>4, <1>5 DEF p, q

LEMMA RootForward ==
  ASSUME PositionsBounded, PositionsBounded',
         LET p == RootPosition
             q == RootPosition'
         IN  p[1] < q[1] \/ (p[1] = q[1] /\ p[2] < q[2])
  PROVE  Later(RootPosition, RootPosition') /\ RootPosition' # RootPosition
<1> DEFINE p == RootPosition
           q == RootPosition'
<1>1. p \in (0..3) \X (0..NumTasks) /\ q \in (0..3) \X (0..NumTasks)
  BY DEF PositionsBounded
<1>2. p[1] < q[1] \/ (p[1] = q[1] /\ p[2] < q[2])
  OBVIOUS
<1> HIDE DEF p, q
<1>3. /\ p = <<p[1], p[2]>> /\ p[1] \in Nat /\ p[2] \in Nat
      /\ q = <<q[1], q[2]>> /\ q[1] \in Nat /\ q[2] \in Nat
  BY <1>1, NumTasksNat
<1>4. Later(<<p[1], p[2]>>, <<q[1], q[2]>>)
  BY <1>2, <1>3, LaterPair
<1>5. p # q
  BY <1>2, <1>3
<1>. QED  BY <1>3, <1>4, <1>5 DEF p, q

\* A worker that takes no step is at most moved on by the queue.
LEMMA Bystander ==
  ASSUME TypeInv, PositionsBounded, PositionsBounded', next' \in {next, next + 1},
         NEW v \in Workers, pc'[v] = pc[v], task'[v] = task[v]
  PROVE  Advances(Position(v), Position(v)')
<1>1. next \in Nat
  BY NumTasksNat DEF TypeInv, TypeOK
<1>2. Busy(v)' = Busy(v)
  BY DEF Busy
<1>3. CASE Busy(v) \/ next' = next
  <2>1. Position(v)' = Position(v)
    BY <1>2, <1>3 DEF Position
  <2>. QED  BY <2>1 DEF Advances
<1>4. CASE ~ Busy(v) /\ next' = next + 1
  <2>1. /\ Position(v)[1] = Position(v)'[1]
        /\ Position(v)[2] = next /\ Position(v)'[2] = next + 1
    BY <1>2, <1>4 DEF Position
  <2>2. Later(Position(v), Position(v)')
    BY <1>1, <2>1, WorkerForward
  <2>. QED  BY <2>2 DEF Advances
<1>. QED  BY <1>3, <1>4

\* A step of one worker.
LEMMA OneWorkerAdvances ==
  ASSUME TypeInv, PositionsBounded, PositionsBounded', NEW w \in Workers,
         next' \in {next, next + 1},
         \A v \in Workers \ {w} : pc'[v] = pc[v] /\ task'[v] = task[v],
         Advances(RootPosition, RootPosition'),
         Later(Position(w), Position(w)'), Position(w)' # Position(w)
  PROVE  /\ \A v \in Workers : Advances(Position(v), Position(v)')
         /\ Advances(RootPosition, RootPosition')
         /\ RootPosition' # RootPosition \/ \E v \in Workers : Position(v)' # Position(v)
<1>1. ASSUME NEW v \in Workers PROVE Advances(Position(v), Position(v)')
  BY Bystander DEF Advances
<1>. QED  BY <1>1

\* No rank goes back, and every step takes one forward.
THEOREM NobodyGoesBack == Spec => RanksOnlyAdvance
<1> DEFINE Goes ==
             /\ \A w \in Workers : Advances(Position(w), Position(w)')
             /\ Advances(RootPosition, RootPosition')
             /\ RootPosition' # RootPosition \/ \E w \in Workers : Position(w)' # Position(w)
<1>1. Init => TypeInv /\ HeldInv
  BY InitType DEF Init, HeldInv, Busy
<1>2. TypeInv /\ HeldInv /\ [Next]_vars => TypeInv' /\ HeldInv'
  BY NextType, NextHeld
<1>3. TypeInv => PositionsBounded
  BY PositionTypes
<1>4. TypeInv /\ HeldInv /\ PositionsBounded /\ PositionsBounded' /\ [Next]_vars => [Goes]_vars
  <2> SUFFICES ASSUME TypeInv, HeldInv, PositionsBounded, PositionsBounded', Next PROVE Goes
    OBVIOUS
  <2>1. PositionsBounded /\ PositionsBounded'
    OBVIOUS
  <2>2. /\ next \in Nat /\ phase \in Phases
        /\ pc \in [Workers -> WorkerPC] /\ task \in [Workers -> 0..NoTask]
    BY NumTasksNat DEF TypeInv, TypeOK
  <2>3. ASSUME UNCHANGED <<next, pc, task>>, RootPosition[1] < RootPosition'[1] PROVE Goes
    <3>1. Later(RootPosition, RootPosition') /\ RootPosition' # RootPosition
      BY <2>1, <2>3, RootForward
    <3>2. \A w \in Workers : Advances(Position(w), Position(w)')
      BY <2>1, <2>3, Bystander
    <3>. QED  BY <3>1, <3>2 DEF Advances
  <2>4. CASE StartThrows \/ PrintHeader \/ Close
    BY <2>3, <2>4 DEF StartThrows, PrintHeader, Close, RootPosition
  <2>5. CASE StartCrashes \/ Finalize \/ \E w \in Workers : LoadCrashes(w)
    <3>1. phase \in {"start", "queue", "closed", "threw"} /\ phase' \in Ended
      BY <2>2, <2>5 DEF StartCrashes, Finalize, LoadCrashes, At, Running, Phases, Ended
    <3>2. RootPosition[1] < RootPosition'[1]
      BY <3>1 DEF RootPosition, Ended
    <3>. QED  BY <2>3, <2>5, <3>2 DEF StartCrashes, Finalize, LoadCrashes
  <2>6. ASSUME NEW w \in Workers, Assign(w) PROVE Goes
    <3>1. Position(w)[1] = 1 /\ Position(w)[2] = next /\ Position(w)[3] = 0
      BY <2>6 DEF Assign, Position, Busy
    <3>2. pc'[w] = "load" /\ task'[w] = next
      BY <2>2, <2>6 DEF Assign
    <3>3. Position(w)'[1] = 1 /\ Position(w)'[2] = next /\ Position(w)'[3] = 1
      BY <3>2 DEF Position, Busy, WorkerPC
    <3>4. Later(Position(w), Position(w)') /\ Position(w)' # Position(w)
      BY <2>1, <2>2, <3>1, <3>3, WorkerForward
    <3>5. RootPosition[1] = RootPosition'[1] /\ RootPosition[2] < RootPosition'[2]
      BY <2>2, <2>6 DEF Assign, RootPosition
    <3>6. Advances(RootPosition, RootPosition')
      BY <2>1, <3>5, RootForward DEF Advances
    <3>. QED  BY <2>1, <2>2, <2>6, <3>4, <3>6, OneWorkerAdvances DEF Assign
  <2>7. ASSUME NEW w \in Workers, Receive(w) PROVE Goes
    <3>1. task[w] < next /\ task[w] \in Nat
      <4>1. Busy(w)
        BY <2>7 DEF Receive, Busy, WorkerPC
      <4>2. task[w] \in 0..(next - 1)
        BY <4>1 DEF HeldInv
      <4>. QED  BY <2>2, <4>2
    <3>2. Position(w)[1] = 1 /\ Position(w)[2] = task[w] /\ Position(w)[3] = 5
      BY <2>7 DEF Receive, Position, Busy, WorkerPC
    <3>3. pc'[w] = "idle" /\ next' = next
      BY <2>2, <2>7 DEF Receive
    <3>4. Position(w)'[1] = 1 /\ Position(w)'[2] = next /\ Position(w)'[3] = 0
      BY <3>3 DEF Position, Busy
    <3>5. Later(Position(w), Position(w)') /\ Position(w)' # Position(w)
      BY <2>1, <2>2, <3>1, <3>2, <3>4, WorkerForward
    <3>6. phase = "queue" /\ phase' \in {"queue", "threw"}
      BY <2>7 DEF Receive
    <3>7. Advances(RootPosition, RootPosition')
      <4>1. CASE phase' = "queue"
        BY <3>3, <3>6, <4>1 DEF RootPosition, Advances
      <4>2. CASE phase' = "threw"
        <5>1. RootPosition[1] < RootPosition'[1]
          BY <3>6, <4>2 DEF RootPosition
        <5>. QED  BY <2>1, <5>1, RootForward DEF Advances
      <4>. QED  BY <3>6, <4>1, <4>2
    <3>. QED  BY <2>1, <2>2, <2>7, <3>3, <3>5, <3>7, OneWorkerAdvances DEF Receive
  <2>8. ASSUME NEW w \in Workers, UNCHANGED <<phase, next, task>>,
               \A v \in Workers \ {w} : pc'[v] = pc[v],
               LET p == Position(w)
                   q == Position(w)'
               IN  p[1] < q[1] \/ (p[1] = q[1] /\ p[2] = q[2] /\ p[3] < q[3])
        PROVE  Goes
    <3>1. Later(Position(w), Position(w)') /\ Position(w)' # Position(w)
      BY <2>1, <2>8, WorkerForward
    <3>2. Advances(RootPosition, RootPosition')
      BY <2>8 DEF RootPosition, Advances
    <3>. QED  BY <2>1, <2>2, <2>8, <3>1, <3>2, OneWorkerAdvances
  <2>9. ASSUME NEW w \in Workers, Enter(w) \/ FailsToEnter(w) \/ LoadThrows(w) \/ Leave(w)
        PROVE  Goes
    <3>1. pc[w] \in {"start", "load", "idle"} /\ pc'[w] \in {"idle", "failed", "threw", "left"}
      BY <2>2, <2>9 DEF Enter, FailsToEnter, LoadThrows, Leave, At, Goto
    <3>2. Position(w)[1] < Position(w)'[1]
      <4>1. CASE pc[w] = "start"
        BY <3>1, <4>1 DEF Position
      <4>2. CASE pc[w] # "start"
        <5>1. pc'[w] \in {"threw", "left"}
          BY <2>2, <2>9, <4>2 DEF Enter, FailsToEnter, LoadThrows, Leave, At, Goto
        <5>. QED  BY <3>1, <4>2, <5>1 DEF Position
      <4>. QED  BY <4>1, <4>2
    <3>. QED
      BY <2>2, <2>8, <2>9, <3>2 DEF Enter, FailsToEnter, LoadThrows, Leave, Goto
  <2>10. ASSUME NEW w \in Workers,
                RunTask(w) \/ WriteCompressed(w) \/ WriteDecompressed(w) \/ Collect(w)
         PROVE  Goes
    <3>1. /\ pc[w] \in {"load", "write_compressed", "write_decompressed", "collect"}
          /\ \/ pc[w] = "load" /\ pc'[w] = "write_compressed"
             \/ pc[w] = "write_compressed" /\ pc'[w] = "write_decompressed"
             \/ pc[w] = "write_decompressed" /\ pc'[w] = "collect"
             \/ pc[w] = "collect" /\ pc'[w] = "sent"
          /\ UNCHANGED <<phase, next, task>>
      BY <2>2, <2>10 DEF RunTask, WriteCompressed, WriteDecompressed, Collect, At, Goto
    <3>2. Position(w)[1] = Position(w)'[1] /\ Position(w)[3] < Position(w)'[3]
      BY <3>1 DEF Position
    <3>3. Position(w)[2] = Position(w)'[2]
      BY <3>1 DEF Position, Busy, WorkerPC
    <3>4. \A v \in Workers \ {w} : pc'[v] = pc[v]
      BY <2>2, <2>10 DEF RunTask, WriteCompressed, WriteDecompressed, Collect, Goto
    <3>. QED  BY <2>8, <3>1, <3>2, <3>3, <3>4
  <2>. QED
    BY <2>4, <2>5, <2>6, <2>7, <2>9, <2>10 DEF Next, MasterNext, WorkerNext
<1>. QED  BY <1>1, <1>2, <1>3, <1>4, PTL DEF Spec, RanksOnlyAdvance

\* There are finitely many positions to advance through.
THEOREM PositionsAreBounded == Spec => []PositionsBounded
<1>1. Init => TypeInv
  BY InitType
<1>2. TypeInv /\ [Next]_vars => TypeInv'
  BY NextType
<1>3. TypeInv => PositionsBounded
  BY PositionTypes
<1>. QED  BY <1>1, <1>2, <1>3, PTL DEF Spec

=============================================================================
