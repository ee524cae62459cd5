----------------------------- MODULE MCBatchMPI -----------------------------
(***************************************************************************)
(* Instances of BatchMPI for TLC.  Metric keys are numbers in the order    *)
(* of the std::map; 3 is a key no column asks for.                         *)
(***************************************************************************)
EXTENDS BatchMPI

\* pressio_batch_mpi 2 1: two columns, not in the order of the keys.
MCUserFields == <<2, 1>>

\* No [metrics...] arguments: the columns come from init_fieldnames.
MCNoFields == <<>>

\* Both columns, a metric without a column too, or a column that goes missing.
MCResults == {{1}, {1, 2}, {1, 2, 3}}

\* A metrics plugin that may fail to report anything.
MCFailingResults == {{}, {1, 2}}
=============================================================================
