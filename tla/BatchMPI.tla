------------------------------- MODULE BatchMPI -------------------------------
(***************************************************************************)
(* pressio_batch_mpi (src/pressio_batch/pressio_batch_mpi.cc): rank 0      *)
(* hands the tasks of a replicate x dataset x compressor product to the    *)
(* other ranks through libdistributed's work queue, gathers the metrics    *)
(* each task reports, and prints one CSV row per answer.                   *)
(*                                                                         *)
(* The work queue itself is not in the repository: it is modelled by what  *)
(* main relies on.  A task goes to one idle worker, a worker runs one task *)
(* at a time, its answer reaches rank 0 once, and every worker is released *)
(* when all tasks have been answered.                                      *)
(***************************************************************************)
EXTENDS Naturals, Sequences, FiniteSets, FiniteSetsExt, OutputCsv, Progress

CONSTANTS
  Workers,          \* the MPI ranks other than rank 0
  Replicats,        \* -r: how often each configuration runs
  NumDatasets,      \* entries of datasets.json
  NumCompressors,   \* entries of compressors.json
  UserFields,       \* the [metrics...] arguments
  InitialMetrics,   \* keys with a double value before anything has run
  ResultSets,       \* the sets of double-valued keys a task's results may hold
  MayFailToStart,   \* a rank may fail to read the command line or the JSON files
  BadCompressors,   \* configurations whose load() may throw
  BadDatasets,      \* datasets whose load() may return no data
  CompressedDir,    \* -w was given
  DecompressedDir   \* -W was given

(***************************************************************************)
(* Metric keys are positive numbers in the order of a std::map; 0 is the   *)
(* empty string.                                                           *)
(***************************************************************************)
EmptyName == 0
MetricKeys == UNION ResultSets \cup InitialMetrics \cup {UserFields[i] : i \in DOMAIN UserFields}

ASSUME WorkersAssumption == IsFiniteSet(Workers) /\ Workers # {}
ASSUME SizesAssumption ==
  Replicats \in Nat /\ NumDatasets \in Nat /\ NumCompressors \in Nat
ASSUME FieldsAssumption ==
  /\ UserFields \in Seq(Nat \ {EmptyName})
  /\ InitialMetrics \subseteq Nat \ {EmptyName}
  /\ IsFiniteSet(InitialMetrics)
  /\ ResultSets \subseteq SUBSET (Nat \ {EmptyName}) /\ ResultSets # {}
  /\ \A keys \in ResultSets : IsFiniteSet(keys)
ASSUME FlagsAssumption ==
  CompressedDir \in BOOLEAN /\ DecompressedDir \in BOOLEAN /\ MayFailToStart \in BOOLEAN

-----------------------------------------------------------------------------
(***************************************************************************)
(* The list of tasks.  The three loops number the tasks with the           *)
(* compressor varying fastest and the replicate slowest.                   *)
(***************************************************************************)
NumTasks == Replicats * (NumDatasets * NumCompressors)
TaskIds == 0..(NumTasks - 1)

CompressorOf(t) == t % NumCompressors
DatasetOf(t) == (t \div NumCompressors) % NumDatasets

\* An integer that is no task id; task_to_name and responses default for it.
NoTask == NumTasks

\* Mutant: tasks named after their dataset alone.
Mut_TaskName(t) == IF t \in TaskIds THEN <<DatasetOf(t)>> ELSE <<>>

TaskName(t) == IF t \in TaskIds THEN <<DatasetOf(t), CompressorOf(t)>> ELSE <<>>

\* init_fieldnames, and the copy back to cmdline.fields when none were given.
Fields == IF UserFields # <<>> THEN UserFields ELSE InKeyOrder(InitialMetrics)

\* Mutant: an unknown name gets the last id.
Mut_FieldnameToId(name) ==
  LET ids == {i \in DOMAIN Fields : Fields[i] = name}
  IN  IF ids = {} THEN Len(Fields) - 1 ELSE Max(ids) - 1

\* std::map::operator[] on fieldname_to_id: an unknown name gets id 0.
FieldnameToId(name) ==
  LET ids == {i \in DOMAIN Fields : Fields[i] = name}
  IN  IF ids = {} THEN 0 ELSE Max(ids) - 1

\* std::map::operator[] on id_to_fieldname: an unknown id gets the empty name.
IdToFieldname(id) == IF id + 1 \in DOMAIN Fields THEN Fields[id + 1] ELSE EmptyName

-----------------------------------------------------------------------------
VARIABLES
  phase,      \* rank 0: "start", "queue", "closed", "threw"; the job: "exited", "failed", "aborted"
  next,       \* the first task that rank 0 has not handed out
  pc,         \* where each worker is
  task,       \* the task each worker holds
  reply,      \* the answer each worker sent
  responses,  \* rank 0's options per task id
  files,      \* the task that last wrote each file of the output directories
  csv         \* the rows written to standard output

vars == <<phase, next, pc, task, reply, responses, files, csv>>

WorkerPC ==
  {"start", "failed", "idle", "load", "write_compressed", "write_decompressed", "collect", "sent", "threw", "left"}

\* The value of metric m of task t, carried through the system unchanged.
Value(t, m) == <<t, m>>

\* task_responses: one tuple per key, in the order of the keys.
TaskResponses(t, keys) ==
  [m \in keys |-> [task_id |-> t, metric_id |-> FieldnameToId(m), metric |-> Value(t, m)]]

NoReply == <<>>
TaskNames == {TaskName(t) : t \in TaskIds}
FileNames == {"compressed", "decompressed"} \X TaskNames

Init ==
  /\ phase = "start"
  /\ next = 0
  /\ pc = [w \in Workers |-> "start"]
  /\ task = [w \in Workers |-> NoTask]
  /\ reply = [w \in Workers |-> NoReply]
  /\ responses = [t \in 0..NoTask |-> <<>>]
  /\ files = [f \in FileNames |-> NoTask]
  /\ csv = <<>>

\* MPI_Abort, or a rank killed by a signal, takes the whole job down.
Ended == {"exited", "failed", "aborted"}
Running == phase \notin Ended

-----------------------------------------------------------------------------
(***************************************************************************)
(* Rank 0.                                                                 *)
(***************************************************************************)

\* parse_args or a loader throws: rank 0 goes to MPI_Finalize without a queue.
StartThrows ==
  /\ MayFailToStart
  /\ phase = "start"
  /\ phase' = "threw"
  /\ UNCHANGED <<next, pc, task, reply, responses, files, csv>>

\* The header has one column per field; rank 0 then enters the work queue.
PrintHeader ==
  /\ phase = "start"
  /\ phase' = "queue"
  /\ UNCHANGED <<next, pc, task, reply, responses, files, csv>>

\* Mutant: the last task is never handed out.
Mut_Assign(w) ==
  /\ phase = "queue"
  /\ pc[w] = "idle"
  /\ next + 1 < NumTasks
  /\ next' = next + 1
  /\ task' = [task EXCEPT ![w] = next]
  /\ pc' = [pc EXCEPT ![w] = "load"]
  /\ UNCHANGED <<phase, reply, responses, files, csv>>

\* Mutant: one task past the end of the list is handed out.
Mut_AssignPastEnd(w) ==
  /\ phase = "queue"
  /\ pc[w] = "idle"
  /\ next <= NumTasks
  /\ next' = next + 1
  /\ task' = [task EXCEPT ![w] = next]
  /\ pc' = [pc EXCEPT ![w] = "load"]
  /\ UNCHANGED <<phase, reply, responses, files, csv>>

\* Mutant: the queue stays where it is in the list.
Mut_AssignAgain(w) ==
  /\ phase = "queue"
  /\ pc[w] = "idle"
  /\ next < NumTasks
  /\ task' = [task EXCEPT ![w] = next]
  /\ pc' = [pc EXCEPT ![w] = "load"]
  /\ UNCHANGED <<phase, next, reply, responses, files, csv>>

\* The queue hands the next task of the list to an idle worker.
Assign(w) ==
  /\ phase = "queue"
  /\ pc[w] = "idle"
  /\ next < NumTasks
  /\ next' = next + 1
  /\ task' = [task EXCEPT ![w] = next]
  /\ pc' = [pc EXCEPT ![w] = "load"]
  /\ UNCHANGED <<phase, reply, responses, files, csv>>

(***************************************************************************)
(* responses[task_id].set(id_to_fieldname[metric_id], metric) for every    *)
(* tuple of the answer, in order: the last metric of a field is kept.      *)
(***************************************************************************)
Gather(options, answer) ==
  LET Names == {IdToFieldname(answer[m].metric_id) : m \in DOMAIN answer}
      Last(f) == Max({m \in DOMAIN answer : IdToFieldname(answer[m].metric_id) = f})
  IN  [f \in DOMAIN options \cup Names |->
         IF f \in Names
         THEN [type |-> "double", value |-> answer[Last(f)].metric]
         ELSE options[f]]

\* Mutant: the task of the answer is never read from it.
Mut_MyTaskIds(answer) == TaskIds

\* my_task_id is assigned by the loop over the answer; an empty answer leaves
\* it uninitialised, and it may hold any integer.
MyTaskIds(answer) ==
  IF DOMAIN answer = {} THEN 0..NoTask ELSE {answer[m].task_id : m \in DOMAIN answer}

\* The master function: gather the answer and print its row.  An exception of
\* output_csv leaves the work queue.
Receive(w) ==
  /\ phase = "queue"
  /\ pc[w] = "sent"
  /\ \E my_task_id \in MyTaskIds(reply[w]) :
       LET options == Gather(responses[my_task_id], reply[w])
       IN  /\ responses' = [responses EXCEPT ![my_task_id] = options]
           /\ csv' = Append(csv, [task |-> my_task_id,
                                  row  |-> CsvRow(TaskName(my_task_id), options, Fields)])
           /\ phase' = IF Throws(options, Fields) THEN "threw" ELSE phase
  /\ pc' = [pc EXCEPT ![w] = "idle"]
  /\ task' = [task EXCEPT ![w] = NoTask]
  /\ reply' = [reply EXCEPT ![w] = NoReply]
  /\ UNCHANGED <<next, files>>

\* Every task was answered: the queue releases the workers and returns.
Close ==
  /\ phase = "queue"
  /\ next = NumTasks
  /\ \A w \in Workers : pc[w] = "idle"
  /\ phase' = "closed"
  /\ UNCHANGED <<next, pc, task, reply, responses, files, csv>>

-----------------------------------------------------------------------------
(***************************************************************************)
(* The workers.                                                            *)
(***************************************************************************)

At(w, from) == Running /\ pc[w] = from
Goto(w, to) == pc' = [pc EXCEPT ![w] = to]

\* Every rank reads the files by itself, and then enters the work queue.
Enter(w) ==
  /\ At(w, "start")
  /\ Goto(w, "idle")
  /\ UNCHANGED <<phase, next, task, reply, responses, files, csv>>

FailsToEnter(w) ==
  /\ MayFailToStart
  /\ At(w, "start")
  /\ Goto(w, "failed")
  /\ UNCHANGED <<phase, next, task, reply, responses, files, csv>>

\* metrics_config->load uses the null pointer of a metrics plugin that does not exist.
StartCrashes ==
  /\ MayFailToStart
  /\ phase = "start" \/ (Running /\ \E w \in Workers : pc[w] = "start")
  /\ phase' = "aborted"
  /\ UNCHANGED <<next, pc, task, reply, responses, files, csv>>

\* Mutant: the exception is caught around the task, and the worker goes on.
Mut_LoadThrows(w) ==
  /\ At(w, "load")
  /\ CompressorOf(task[w]) \in BadCompressors
  /\ Goto(w, "idle")
  /\ UNCHANGED <<phase, next, task, reply, responses, files, csv>>

\* compressor_config::load throws, and the exception leaves the work queue.
LoadThrows(w) ==
  /\ At(w, "load")
  /\ CompressorOf(task[w]) \in BadCompressors
  /\ Goto(w, "threw")
  /\ UNCHANGED <<phase, next, task, reply, responses, files, csv>>

\* dataset::load returned a null pointer, which is cloned without a check, or the
\* compressor does not exist and compressor_config::load uses the null pointer.
LoadCrashes(w) ==
  /\ At(w, "load")
  /\ DatasetOf(task[w]) \in BadDatasets \/ CompressorOf(task[w]) \in BadCompressors
  /\ phase' = "aborted"
  /\ UNCHANGED <<next, pc, task, reply, responses, files, csv>>

\* Load both, compress and decompress; no status is looked at.
RunTask(w) ==
  /\ At(w, "load")
  /\ Goto(w, "write_compressed")
  /\ UNCHANGED <<phase, next, task, reply, responses, files, csv>>

\* A worker at a write step is inside the write; the step ends it.
WriteFile(w, kind, enabled) ==
  files' = IF enabled
           THEN [files EXCEPT ![<<kind, TaskName(task[w])>>] = task[w]]
           ELSE files

WriteCompressed(w) ==
  /\ At(w, "write_compressed")
  /\ WriteFile(w, "compressed", CompressedDir)
  /\ Goto(w, "write_decompressed")
  /\ UNCHANGED <<phase, next, task, reply, responses, csv>>

WriteDecompressed(w) ==
  /\ At(w, "write_decompressed")
  /\ WriteFile(w, "decompressed", DecompressedDir)
  /\ Goto(w, "collect")
  /\ UNCHANGED <<phase, next, task, reply, responses, csv>>

\* The keys of metrics_results that convert to double make up the answer.
Collect(w) ==
  /\ At(w, "collect")
  /\ \E keys \in ResultSets : reply' = [reply EXCEPT ![w] = TaskResponses(task[w], keys)]
  /\ Goto(w, "sent")
  /\ UNCHANGED <<phase, next, task, responses, files, csv>>

\* A worker released by the queue goes on to MPI_Finalize.
Leave(w) ==
  /\ phase = "closed"
  /\ pc[w] = "idle"
  /\ Goto(w, "left")
  /\ UNCHANGED <<phase, next, task, reply, responses, files, csv>>

\* Mutant: MPI_Finalize returns without waiting for the ranks still in the queue.
Mut_Finalize ==
  /\ phase \in {"closed", "threw"}
  /\ \A w \in Workers : pc[w] \in {"left", "threw", "failed", "idle"}
  /\ phase' = IF phase = "closed" THEN "exited" ELSE "failed"
  /\ UNCHANGED <<next, pc, task, reply, responses, files, csv>>

\* MPI_Finalize is collective: it returns when every rank has called it, also
\* the ranks that came there from the catch block, and main returns 0.
Finalize ==
  /\ phase \in {"closed", "threw"}
  /\ \A w \in Workers : pc[w] \in {"left", "threw", "failed"}
  /\ phase' = IF phase = "closed" THEN "exited" ELSE "failed"
  /\ UNCHANGED <<next, pc, task, reply, responses, files, csv>>

-----------------------------------------------------------------------------
MasterNext == StartThrows \/ PrintHeader \/ (\E w \in Workers : Assign(w) \/ Receive(w)) \/ Close

WorkerNext(w) ==
  \/ Enter(w) \/ FailsToEnter(w)
  \/ LoadThrows(w) \/ LoadCrashes(w) \/ RunTask(w)
  \/ WriteCompressed(w) \/ WriteDecompressed(w)
  \/ Collect(w) \/ Leave(w)

Next == MasterNext \/ (\E w \in Workers : WorkerNext(w)) \/ StartCrashes \/ Finalize

\* Every rank is a process the operating system runs, and the calls it makes
\* into the compressors and the file system return.
Fairness ==
  /\ WF_vars(MasterNext)
  /\ \A w \in Workers : WF_vars(WorkerNext(w))
  /\ WF_vars(Finalize)

Spec == Init /\ [][Next]_vars /\ Fairness

-----------------------------------------------------------------------------
(***************************************************************************)
(* Properties.                                                             *)
(***************************************************************************)

\* The worker has a task, which it keeps when it throws.
Busy(w) == pc[w] \in WorkerPC \ {"start", "failed", "idle", "left"}

RowTasks == {csv[i].task : i \in DOMAIN csv}

SomeoneThrew == phase = "threw" \/ \E w \in Workers : pc[w] \in {"threw", "failed"}

Phases == {"start", "queue", "closed", "threw"} \cup Ended

\* The type invariant: every variable holds values of its declared kind.
TypeOK ==
  /\ phase \in Phases
  /\ next \in 0..NumTasks
  /\ pc \in [Workers -> WorkerPC]
  /\ task \in [Workers -> 0..NoTask]
  /\ DOMAIN reply = Workers /\ \A w \in Workers : DOMAIN reply[w] \subseteq MetricKeys
  /\ DOMAIN responses = 0..NoTask
  /\ files \in [FileNames -> 0..NoTask]
  /\ DOMAIN csv = 1..Len(csv)
  /\ \A i \in DOMAIN csv :
       /\ csv[i].task \in 0..NoTask
       /\ csv[i].row.name = TaskName(csv[i].task)
       /\ DOMAIN csv[i].row.cells \subseteq DOMAIN Fields

\* No task is printed twice, whichever workers ran the tasks and in whatever
\* order they answered.
OneRowPerTask ==
  \A i, j \in DOMAIN csv : csv[i].task = csv[j].task => i = j

\* main returns 0 whatever happened.  It only does so when every task has its
\* complete row, or when no rank got as far as the queue and there is no row: no
\* task is lost between the list, a worker and rank 0, and an exception never
\* leads to a quiet exit with some of the rows missing.
ExitIsAllOrNothing ==
  /\ phase = "exited" =>
       \A t \in TaskIds : \E i \in DOMAIN csv : csv[i].task = t /\ Complete(csv[i].row, Fields)
  /\ phase = "failed" => csv = <<>> /\ \A w \in Workers : pc[w] = "failed"

\* A cell never shows a value of another task.  It shows the metric its column
\* is headed with, unless the column is headed with the first field: the
\* metrics no column asks for are sent under id 0 and end up there.
CellsBelongToRow ==
  \A i \in DOMAIN csv : \A c \in DOMAIN csv[i].row.cells :
    LET shown == csv[i].row.cells[c]
    IN  /\ shown[1] = csv[i].task
        /\ \/ shown[2] = Fields[c]
           \/ Fields[c] = Fields[1] /\ \A k \in DOMAIN Fields : Fields[k] # shown[2]

\* The comment on ResponseType says that the second component of an answer is
\* the id of the metric in the third: every cell shows its column's metric.
ColumnShowsItsMetric ==
  \A i \in DOMAIN csv : \A c \in DOMAIN csv[i].row.cells :
    csv[i].row.cells[c] = Value(csv[i].task, Fields[c])

\* "-r replicats the number of times to replicate each configuration": no
\* configuration has more rows than that.
RowsPerConfiguration ==
  \A name \in TaskNames :
    Cardinality({i \in DOMAIN csv : csv[i].row.name = name}) <= Replicats

\* Two workers are never inside a write of the same output file.
WritersApart ==
  \A v, w \in Workers :
    /\ v # w
    /\ \/ CompressedDir /\ pc[v] = "write_compressed" /\ pc[w] = "write_compressed"
       \/ DecompressedDir /\ pc[v] = "write_decompressed" /\ pc[w] = "write_decompressed"
    => TaskName(task[v]) # TaskName(task[w])

\* Somebody need not wait: rank 0 starts, a worker enters or is inside a task, an answer
\* is there, a worker can have a task or be released, all are in MPI_Finalize.
SomeoneGoesOn ==
  \/ phase = "start"
  \/ /\ Running
     /\ \E w \in Workers :
          pc[w] \in {"start", "load", "write_compressed", "write_decompressed", "collect"}
  \/ /\ phase = "queue"
     /\ \/ \E w \in Workers : pc[w] = "sent" \/ (pc[w] = "idle" /\ next < NumTasks)
        \/ next = NumTasks /\ \A w \in Workers : pc[w] = "idle"
  \/ phase = "closed" /\ \E w \in Workers : pc[w] = "idle"
  \/ /\ phase \in {"closed", "threw"}
     /\ \A w \in Workers : pc[w] \in {"left", "threw", "failed"}

\* A step can be taken wherever somebody need not wait, which is so until the job has
\* ended or there was an exception: the ranks wait for each other in the work queue
\* and in MPI_Finalize only, and for ever only after an exception.
StuckOnlyAfterThrow ==
  /\ SomeoneGoesOn <=> ENABLED Next
  /\ ~ ENABLED Next => phase \in Ended \/ SomeoneThrew

\* Where a worker is: before, in or after the queue, at which task of the list, and at
\* which step of the task.  One that holds no task is before the next.
Position(w) ==
  <<CASE pc[w] = "start"                      -> 0
      [] pc[w] \in {"threw", "failed", "left"} -> 2
      [] OTHER                                -> 1,
    IF Busy(w) THEN task[w] ELSE next,
    CASE pc[w] = "load"               -> 1
      [] pc[w] = "write_compressed"   -> 2
      [] pc[w] = "write_decompressed" -> 3
      [] pc[w] = "collect"            -> 4
      [] pc[w] = "sent"               -> 5
      [] OTHER                        -> 0>>

RootPosition ==
  <<CASE phase = "start"               -> 0
      [] phase = "queue"               -> 1
      [] phase \in {"closed", "threw"} -> 2
      [] OTHER                         -> 3,
    next>>

\* No rank ever goes back: each task of the list is handed out once, in its order, and
\* goes through its steps once, whatever the order of the answers and whoever throws.
\* Every step takes a rank forward, so a job is over after finitely many.
RanksOnlyAdvance ==
  [][/\ \A w \in Workers : Advances(Position(w), Position(w)')
     /\ Advances(RootPosition, RootPosition')
     /\ RootPosition' # RootPosition \/ \E w \in Workers : Position(w)' # Position(w)]_vars

\* The job ends, or an exception or a crash stops it.
Termination == <>(phase \in Ended \/ SomeoneThrew)

\* An exception on any rank is final: no job goes on to end as if it had run, and
\* once a task has been handed out it does not return at all, since the ranks still
\* inside the work queue wait for each other.
ThrowIsFinal ==
  [][SomeoneThrew => phase' # "exited" /\ (next > 0 => phase' # "failed")]_vars

-----------------------------------------------------------------------------
(***************************************************************************)
(* The program implements BatchRows: it takes a task by printing its row,  *)
(* which is cut short by an exception, and skips none.                     *)
(***************************************************************************)
Printed ==
  [k \in DOMAIN csv |->
     [task |-> csv[k].task, whole |-> Complete(csv[k].row, Fields)]]

\* The answers come in any order.
AnyOrder(s, t) == TRUE

Rows == INSTANCE BatchRows WITH
          Before  <- AnyOrder,
          tasks   <- TaskIds,
          rows    <- Printed,
          skipped <- {},
          ended   <- (phase = "exited")

\* However the tasks are spread over the workers and whoever throws, the output is a
\* row for each task, once, in some order, that is never taken back; nothing follows
\* a row cut short; and the job ends as if it had run only when no task is left.
ImplementsRows == Rows!Spec

=============================================================================
