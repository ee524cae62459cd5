-------------------------------- MODULE Batch --------------------------------
(***************************************************************************)
(* pressio_batch (src/pressio_batch/pressio_batch.cc): one process runs    *)
(* every configuration on every dataset, as often as -r says, and prints   *)
(* one CSV row per replicate that succeeds.                                *)
(*                                                                         *)
(* The branches for a failed compression or decompression release the      *)
(* compressor and continue with the next replicate.  What libpressio does  *)
(* with a compressor that was released is undefined: a call on it may      *)
(* succeed, fail, or kill the process.                                     *)
(***************************************************************************)
EXTENDS Naturals, Sequences, FiniteSets, FiniteSetsExt, OutputCsv, BatchCmdline, Progress

CONSTANTS
  CommandLines,     \* what the user may type
  Readable,         \* the configuration files that load
  NumDatasets,      \* entries of datasets.json
  NumCompressors,   \* entries of compressors.json
  Results,          \* the metrics a replicate may report: functions from keys to types
  BadCompressors,   \* configurations whose load() may throw
  BadDatasets,      \* datasets whose load() may return no data
  MayFail           \* the configurations that may fail to compress or decompress

ASSUME SizesAssumption == NumDatasets \in Nat /\ NumCompressors \in Nat
ASSUME CommandLinesAssumption ==
  CommandLines \subseteq
    [flags : Seq([opt : STRING, arg : STRING, number : Seq(Int)]), rest : Seq(Nat)]
ASSUME ResultsAssumption ==
  /\ Results # {}
  /\ \A results \in Results : DOMAIN results \subseteq Nat /\ IsFiniteSet(DOMAIN results)

VARIABLES
  argv,        \* the command line
  pc,          \* where main is
  optind,      \* how many flags getopt has returned
  args,        \* what parse_args made of argv; the first report may add the columns
  d, c, i,     \* the dataset, the configuration and the replicate of the loops
  compressor,  \* "none", "live" or "released"
  data,        \* the pressio_data that are allocated
  first,       \* no header was printed yet
  csv,         \* the rows printed: the replicate, and what output_csv printed
  failed,      \* the replicates that failed to compress or decompress
  dangling     \* the replicates that called or released a released compressor

vars == <<argv, pc, optind, args, d, c, i, compressor, data, first, csv, failed, dangling>>

fields == args.fields

\* i is an int and replicats an unsigned int, to which the comparison converts i.
Replicate == Unsigned(i)
This == <<d, c, Replicate>>

Init ==
  /\ argv \in CommandLines
  /\ pc = "parse"
  /\ optind = 0
  /\ args = Defaults
  /\ d = 0 /\ c = 0 /\ i = 0
  /\ compressor = "none"
  /\ data = {}
  /\ first = TRUE
  /\ csv = <<>>
  /\ failed = {}
  /\ dangling = {}

-----------------------------------------------------------------------------
(***************************************************************************)
(* Before the loops.  error_code and the two directories are not looked    *)
(* at.                                                                     *)
(***************************************************************************)

\* A turn of parse_args' loop.  An exception of std::stoi ends the program.
ParseFlag ==
  /\ pc = "parse"
  /\ optind < Len(argv.flags)
  /\ LET flag == argv.flags[optind + 1]
     IN  IF StoiThrows(flag)
         THEN pc' = "terminated" /\ UNCHANGED <<optind, args>>
         ELSE optind' = optind + 1 /\ args' = TakeFlag(args, flag) /\ UNCHANGED pc
  /\ UNCHANGED <<argv, d, c, i, compressor, data, first, csv, failed, dangling>>

\* The arguments after the flags are the columns.
ParseRest ==
  /\ pc = "parse"
  /\ optind = Len(argv.flags)
  /\ pc' = "setup"
  /\ args' = [args EXCEPT !.fields = argv.rest]
  /\ UNCHANGED <<argv, optind, d, c, i, compressor, data, first, csv, failed, dangling>>

\* load_datasets, load_compressors, load_metrics and metrics_config->load: an
\* exception, or a metrics plugin that does not exist, ends the program.
Setup ==
  /\ pc = "setup"
  /\ pc' = IF {args.datasets, args.compressors, args.metrics} \subseteq Readable
           THEN "dataset" ELSE "terminated"
  /\ UNCHANGED <<argv, optind, args, d, c, i, compressor, data, first, csv, failed, dangling>>

-----------------------------------------------------------------------------
(***************************************************************************)
(* The three loops.                                                        *)
(***************************************************************************)

\* dataset->load() returns the data, or a null pointer.
LoadDataset ==
  /\ pc = "dataset"
  /\ d < NumDatasets
  /\ data' \in {{"input"}} \cup (IF d \in BadDatasets THEN {{}} ELSE {})
  /\ pc' = "configuration"
  /\ c' = 0
  /\ UNCHANGED <<argv, optind, args, d, i, compressor, first, csv, failed, dangling>>

\* compressor_factory->load(library), and the name of the task for the metrics.
LoadCompressor ==
  /\ pc = "configuration"
  /\ c < NumCompressors
  /\ pc' = "replicate"
  /\ i' = 0
  /\ compressor' = "live"
  /\ UNCHANGED <<argv, optind, args, d, c, data, first, csv, failed, dangling>>

\* Nothing catches the exception of load().
LoadThrows ==
  /\ pc = "configuration"
  /\ c < NumCompressors
  /\ c \in BadCompressors
  /\ pc' = "terminated"
  /\ UNCHANGED <<argv, optind, args, d, c, i, compressor, data, first, csv, failed, dangling>>

\* Mutant: one replicate too many.
Mut_StartReplicate ==
  /\ pc = "replicate"
  /\ Replicate <= args.replicats
  /\ data' = data \cup {"compressed", "decompressed"}
  /\ pc' = "compress"
  /\ UNCHANGED <<argv, optind, args, d, c, i, compressor, first, csv, failed, dangling>>

\* The output buffers of a replicate; decompressed is a clone of the input.
StartReplicate ==
  /\ pc = "replicate"
  /\ Replicate < args.replicats
  /\ IF "input" \in data
     THEN /\ data' = data \cup {"compressed", "decompressed"}
          /\ pc' = "compress"
     ELSE pc' = "terminated" /\ UNCHANGED data
  /\ UNCHANGED <<argv, optind, args, d, c, i, compressor, first, csv, failed, dangling>>

FreeBuffers == data' = data \ {"compressed", "decompressed"}

\* Mutant: the counter stays at the last int.
Mut_NextReplicate ==
  /\ i' = IF i = MaxInt THEN MaxInt ELSE i + 1
  /\ pc' = "replicate"

\* ++i; past the last int it is undefined, and wraps around in what compilers make of it.
NextReplicate ==
  /\ i' = IF i = MaxInt THEN MinInt ELSE i + 1
  /\ pc' = "replicate"

-----------------------------------------------------------------------------
(***************************************************************************)
(* One replicate.                                                          *)
(***************************************************************************)

\* A released compressor may still work, may fail, or may end the process.
Use == dangling' = IF compressor = "live" THEN dangling ELSE dangling \cup {This}
MayCrash == compressor = "released"

Crash ==
  /\ MayCrash
  /\ pc' = "terminated"
  /\ UNCHANGED <<i, compressor, data, failed>>

\* Mutant: the branch forgets to free the buffers.
Mut_Fails ==
  /\ compressor = "released" \/ c \in MayFail
  /\ compressor' = "released"
  /\ failed' = failed \cup {This}
  /\ NextReplicate
  /\ UNCHANGED data

\* Mutant: a failed replicate goes on to its report.
Mut_FailsAndReports ==
  /\ compressor = "released" \/ c \in MayFail
  /\ FreeBuffers
  /\ compressor' = "released"
  /\ failed' = failed \cup {This}
  /\ pc' = "report"
  /\ UNCHANGED i

\* Mutant: a failed replicate is tried again.
Mut_FailsAndRetries ==
  /\ compressor = "released" \/ c \in MayFail
  /\ FreeBuffers
  /\ compressor' = "released"
  /\ failed' = failed \cup {This}
  /\ pc' = "replicate"
  /\ UNCHANGED i

\* The call reports an error: free the buffers, release, continue.
Fails ==
  /\ compressor = "released" \/ c \in MayFail
  /\ FreeBuffers
  /\ compressor' = "released"
  /\ failed' = failed \cup {This}
  /\ NextReplicate

Succeeds(to) ==
  /\ pc' = to
  /\ UNCHANGED <<i, compressor, data, failed>>

Compress ==
  /\ pc = "compress"
  /\ Use
  /\ Succeeds("decompress") \/ Fails \/ Crash
  /\ UNCHANGED <<argv, optind, args, d, c, first, csv>>

Decompress ==
  /\ pc = "decompress"
  /\ Use
  /\ Succeeds("report") \/ Fails \/ Crash
  /\ UNCHANGED <<argv, optind, args, d, c, first, csv>>

\* Mutant: every report fixes the columns anew.
Mut_PrintRow(results) ==
  LET options == [k \in DOMAIN results |-> [type |-> results[k], value |-> <<This, k>>]]
  IN  /\ first' = FALSE
      /\ args' = IF argv.rest = <<>> THEN [args EXCEPT !.fields = InKeyOrder(DOMAIN results)] ELSE args
      /\ csv' = Append(csv, [of |-> This, row |-> CsvRow(<<d, c>>, options, fields')])
      /\ FreeBuffers
      /\ NextReplicate
      /\ UNCHANGED <<compressor, failed>>

\* Mutant: the compressor is released after every replicate.
Mut_PrintRowAndRelease(results) ==
  LET options == [k \in DOMAIN results |-> [type |-> results[k], value |-> <<This, k>>]]
  IN  /\ first' = FALSE
      /\ args' = IF first /\ fields = <<>>
                 THEN [args EXCEPT !.fields = InKeyOrder(DOMAIN results)]
                 ELSE args
      /\ csv' = Append(csv, [of |-> This, row |-> CsvRow(<<d, c>>, options, fields')])
      /\ FreeBuffers
      /\ NextReplicate
      /\ compressor' = "released"
      /\ UNCHANGED failed

(***************************************************************************)
(* The first report prints the header, and fixes the columns when no       *)
(* [metrics...] were given.  A column the results do not hold makes        *)
(* output_csv throw, and nothing catches it.                               *)
(***************************************************************************)
PrintRow(results) ==
  LET options == [k \in DOMAIN results |-> [type |-> results[k], value |-> <<This, k>>]]
  IN  /\ first' = FALSE
      /\ args' = IF first /\ fields = <<>>
                 THEN [args EXCEPT !.fields = InKeyOrder(DOMAIN results)]
                 ELSE args
      /\ csv' = Append(csv, [of |-> This, row |-> CsvRow(<<d, c>>, options, fields')])
      /\ IF Throws(options, fields')
         THEN pc' = "terminated" /\ UNCHANGED <<i, data>>
         ELSE FreeBuffers /\ NextReplicate
      /\ UNCHANGED <<compressor, failed>>

Report ==
  /\ pc = "report"
  /\ Use
  /\ \/ \E results \in Results : PrintRow(results)
     \/ Crash /\ UNCHANGED <<args, first, csv>>
  /\ UNCHANGED <<argv, optind, d, c>>

-----------------------------------------------------------------------------
(***************************************************************************)
(* The ends of the loops.                                                  *)
(***************************************************************************)

\* pressio_compressor_release after the replicates, whatever became of them.
EndConfiguration ==
  /\ pc = "replicate"
  /\ Replicate >= args.replicats
  /\ dangling' = IF compressor = "live" THEN dangling ELSE dangling \cup {This}
  /\ \/ pc' = "configuration" /\ c' = c + 1 /\ compressor' = "none"
     \/ MayCrash /\ pc' = "terminated" /\ UNCHANGED <<c, compressor>>
  /\ UNCHANGED <<argv, optind, args, d, i, data, first, csv, failed>>

EndDataset ==
  /\ pc = "configuration"
  /\ c = NumCompressors
  /\ data' = data \ {"input"}
  /\ pc' = "dataset"
  /\ d' = d + 1
  /\ UNCHANGED <<argv, optind, args, c, i, compressor, first, csv, failed, dangling>>

Return ==
  /\ pc = "dataset"
  /\ d = NumDatasets
  /\ pc' = "done"
  /\ UNCHANGED <<argv, optind, args, d, c, i, compressor, data, first, csv, failed, dangling>>

Next ==
  \/ ParseFlag \/ ParseRest \/ Setup
  \/ LoadDataset \/ LoadCompressor \/ LoadThrows \/ StartReplicate
  \/ Compress \/ Decompress \/ Report
  \/ EndConfiguration \/ EndDataset \/ Return

\* The calls into libpressio return, so the only thread goes on.
Spec == Init /\ [][Next]_vars /\ WF_vars(Next)

-----------------------------------------------------------------------------
(***************************************************************************)
(* Properties.                                                             *)
(***************************************************************************)

\* What the usage text says of -r: the number it gives, the last one counting, or 1.
\* A negative number stands for the one it is as an unsigned int.
Asked ==
  LET rs == {k \in DOMAIN argv.flags : argv.flags[k].opt = "r"}
  IN  IF rs = {} THEN 1 ELSE Unsigned(argv.flags[Max(rs)].number[1])

ParseThrows == \E k \in DOMAIN argv.flags : StoiThrows(argv.flags[k])

Replicates ==
  IF ParseThrows THEN {}
  ELSE (0..(NumDatasets - 1)) \X (0..(NumCompressors - 1)) \X (0..(Asked - 1))

PCs ==
  {"parse", "setup", "dataset", "configuration", "replicate", "compress", "decompress", "report",
   "done", "terminated"}

\* The type invariant: every variable holds values of its declared kind.
TypeOK ==
  /\ pc \in PCs
  /\ optind \in 0..Len(argv.flags)
  /\ args.replicats \in 0..MaxUnsigned
  /\ d \in 0..NumDatasets /\ c \in 0..NumCompressors /\ i \in MinInt..MaxInt
  /\ compressor \in {"none", "live", "released"}
  /\ data \subseteq {"input", "compressed", "decompressed"}
  /\ first \in BOOLEAN /\ fields \in Seq(Nat)
  /\ \A k \in DOMAIN csv : csv[k].of \in Replicates
  /\ failed \subseteq Replicates

\* Every branch of a replicate frees the buffers it allocated: none is left when
\* the next replicate, configuration or dataset starts.
BuffersFreed ==
  /\ pc \in {"replicate", "configuration"} => data \subseteq {"input"}
  /\ pc \in {"dataset", "done"} => data = {}

\* A compressor is used after its release only once a replicate of the same
\* configuration has failed: without failures every call is on a live compressor.
DanglingOnlyAfterFailure ==
  \A r \in dangling : \E f \in failed : f[1] = r[1] /\ f[2] = r[2]

\* A row cut short by a missing column is the last thing the program prints,
\* and the rows before it have a cell for each column of the header.
ShortRowEndsProgram ==
  \A k \in DOMAIN csv :
    Complete(csv[k].row, fields) \/ (k = Len(csv) /\ pc = "terminated")

\* When the program returns, the replicates that were asked for and have no row are
\* those that failed, also when their number does not fit the loop's int.
RowsAreSuccesses ==
  pc = "done" => {csv[k].of : k \in DOMAIN csv} = Replicates \ failed

\* Where main is: before, in or after the loops, at which flag, and at which dataset,
\* configuration, replicate and step of the replicate.  In front of the first
\* configuration or replicate the number is 0.
Position ==
  <<CASE pc = "parse"                  -> 0
      [] pc = "setup"                  -> 1
      [] pc \in {"done", "terminated"} -> 3
      [] OTHER                         -> 2,
    optind,
    d,
    IF pc = "dataset" THEN 0 ELSE c + 1,
    IF pc \in {"dataset", "configuration"} THEN 0 ELSE Replicate + 1,
    CASE pc = "compress"   -> 1
      [] pc = "decompress" -> 2
      [] pc = "report"     -> 3
      [] OTHER             -> 0>>

\* Every step goes on in the order of the loops, whatever fails in a replicate and
\* also when the loop's int wraps around: nothing is done twice, and as there are
\* finitely many positions main does not loop for ever.
LoopsOnlyAdvance == [][Later(Position, Position')]_vars

\* The program comes to an end, also when the number of replicates is larger than
\* the last int: the counter then goes on from the negative ones, which compare as
\* the large unsigned ones they stand for.
Terminates == <>(pc \in {"done", "terminated"})

\* "-r replicats the number of times to replicate each configuration": no
\* replicate runs on a compressor that an earlier replicate has released.
ReplicatesRunConfiguration == dangling = {}

-----------------------------------------------------------------------------
(***************************************************************************)
(* The program implements BatchRows: it takes a replicate by printing its  *)
(* row, or skips it when it fails to compress or decompress, in the order  *)
(* of the loops.                                                           *)
(***************************************************************************)
Printed ==
  [k \in DOMAIN csv |->
     [task |-> csv[k].of, whole |-> Complete(csv[k].row, fields)]]

Rows == INSTANCE BatchRows WITH
          Before  <- Later,
          tasks   <- Replicates,
          rows    <- Printed,
          skipped <- failed,
          ended   <- (pc = "done")

\* One row after the other, in the order of datasets, configurations and replicates and
\* none of them twice: a replicate either has its row or failed, and is not tried again;
\* what was printed stays as it is although the columns are only fixed by the first
\* report; nothing follows a row cut short; and main returns when no replicate is left.
ImplementsRowsInOrder == Rows!Spec

=============================================================================
