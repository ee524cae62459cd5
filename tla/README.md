# A TLA+ verification of pressio-tools

pressio-tools are command line programs around libpressio, a library of
compressors. `src/` below is the repository; line numbers are those of the
commit it holds. Runs and proofs need nothing but TLC and TLAPS:

    tlc -config MCBatchMPI.cfg MCBatchMPI
    tlapm BatchMPIProofs.tla

## 1. Inventory

| Component | Source (under `src/`) | State it keeps | Operations | Works with |
|---|---|---|---|---|
| `pressio_batch_mpi` | `src/pressio_batch/pressio_batch_mpi.cc` | task list, answers per task, id maps, output files, standard output | start of every rank, header, work queue (assign, run, answer, gather), output files, finalize | loaders, CSV writer, libdistributed, MPI |
| `pressio_batch` | `src/pressio_batch/pressio_batch.cc` | loop counters, compressor, input and output buffers, column names | three loops, compress, decompress, report, release | loaders, CSV writer, libpressio |
| CSV writer | `src/pressio_batch/io.cc` | none | `print_value`, `output_csv` | both batch programs |
| batch command line | `src/pressio_batch/cmdline.cc` | options | `parse_args` | both batch programs |
| configuration loaders | `src/pressio_batch/{compressor_configs,metrics,datasets}.cc` | parsed JSON, a local copy of a plugin's options | `load_*`, then `load()` of each entry | option multimaps, libpressio |
| option multimaps | `src/utils/string_options.cc` | none | `options_from_multimap` | loaders, `pressio` |
| option setting | `src/pressio/options.cc` | a local copy of a plugin's options | `set_early_options`, `set_options_from_multimap` | `pressio`, option multimaps, libpressio |
| fuzzy matcher | `include/utils/fuzzy_matcher.h` | a prefix tree | `insert`, `find`, `fuzzy_match` | command line of `pressio` |
| `pressio` command line | `src/pressio/cmdline.cc` | options, one `io_builder` per buffer and direction | `parse_args`, `set_format_if`, `make_io` | fuzzy matcher, option setting |
| `pressio` pipeline | `src/pressio/pressio.cc` | compressor, buffers, configuration file, output files, one of each per MPI rank | `setup_compressor`, `compress`, broadcast, `decompress`, printing | command line, graph, MPI |
| module graph | `src/pressio/graph.cc` | module to id map, on every rank | `print_graph`, `to_id` | pipeline |
| `pressio_new` | `src/pressio_new/*.cc` | none | `replace_all` over templates | - |
| `libpressio_meta` | `src/pressio_meta/pressio_meta.cc` | none | registration calls | every program |

How they interact. Both batch programs read three JSON files through the
loaders, which turn string options into library options through the option
multimaps (as `pressio` does with its flags), run the product of datasets, configurations and replicates, and hand
the metrics of each run to the CSV writer. `pressio_batch` does so in one
thread. `pressio_batch_mpi` has rank 0 send task numbers through libdistributed's
work queue; a rank sends back tuples of task id, metric id and value, from which
rank 0 rebuilds the options it prints. `pressio` resolves abbreviated types and
actions with the fuzzy matcher, builds one IO plugin per `io_builder`, and runs
its pipeline on every MPI rank at once, with one broadcast between compression
and decompression.

What is hard. In `pressio_batch_mpi`: concurrent tasks, answers out of order,
exceptions that leave a collective operation while others are in it, files named
after something that is not unique, data that is read without having been
written. In `pressio_batch`: failures between two uses of one compressor. In the
fuzzy matcher: prefixes that clash in either order. In `pressio`: ranks that exit
before a broadcast, ranks that read and write one file, ranks that print to one
output. In whatever sets options: orders that lose some of them, and answers that
nobody looks at. `PROJECT.json` lists each of
these at its line, under "hazards".

What makes each component correct:

* a batch program prints one complete row per task, shows values of that task
  only, and ends normally only when it has printed all of them;
* the fuzzy matcher finds a candidate exactly when the text names one and no
  other, and refuses exactly the candidate lists in which that is impossible;
* what sets options leaves every option that was given in the plugin, the early
  ones too, and fails only when an option cannot be set, and then always;
* the graph shows each module and each edge once, under numbers that agree;
* the command line picks the format, action and compressor its usage text says;
* all ranks of the pipeline decompress what rank 0 compressed, or the job fails.

## 2. Plan

Written so far, in this order:

1. `OutputCsv` (CSV writer), used by both batch modules;
2. `BatchRows`, the abstract specification of a batch program;
3. `BatchMPI` with `MCBatchMPI`, refining `BatchRows`;
4. `BatchMPIProofs`, the theorems about `BatchMPI`;
5. `Batch` with `MCBatch`, refining `BatchRows` too;
6. `Dictionary` (abstract) and `Trie` with `MCTrie`;
7. `OptionsMultimap`, a procedure that `Settings` calls;
8. `Cmdline` (`parse_args` and `io_builder`, a flag at a time) with `MCCmdline`;
9. `PressioMain` (the ranks of `pressio` over several jobs) with `MCPressioMain`;
10. `BatchCmdline` (`parse_args` of the batch programs), composed into `Batch`;
11. `Plugin` (external) and `Settings` with `MCSettings`: the three loaders, the
    option setting of `pressio` and `make_io`, composed with `OptionsMultimap`;
12. `ModuleGraph` with `MCModuleGraph`;
13. `PressioJobs`, the abstract specification that `PressioMain` refines;
14. `DataFacts`, the facts about numbers, sets and sequences that the proofs share;
15. `PressioMainProofs`, `BatchProofs`, `CmdlineProofs`, `ModuleGraphProofs` and
    `TrieProofs`, the theorems about these modules.

16. `SettingsProofs`, the theorems about `OptionsMultimap` and `Settings`;
17. `Progress`, what it is for a program to go forward, and with it the safety half of
    termination, checked for `BatchMPI` and `Batch`, and proved for these and `PressioMain`.

The plan is done. What proofs cannot reach is at the end of section 5.

No module has a RECURSIVE operator.

## 3. Modules

### OutputCsv

`src/pressio_batch/io.cc`. A `pressio_options` is a function from the keys it
holds to `[type, value]`. `Reached` are the columns the loop of `output_csv` gets
to: `options->get` throws at the first key the map does not hold (that it throws
is taken from `src/pressio/pressio.cc:182`, which catches `std::out_of_range`
around it). `CsvRow` is what went to the stream, with the positions of the line
breaks; types that `print_value` does not know leave a cell blank.

### BatchRows

A batch program takes each task once: it prints its row or skips it because it
failed. `rows` is a sequence of what was printed, so a second row for a task, a row
for a task that was skipped, or one that is taken back is no step of it; nothing
follows a row that was cut short, and the program ends when no task is left.
`Before` says after which tasks a task may be taken. `BatchMPI` skips none and leaves
the order to the workers (`AnyOrder`); `Batch` skips what fails and keeps the order of
its loops. The tasks are a variable that never changes: `Batch` learns them from its
command line.

### Progress

A position is a tuple of numbers, the first of which counts most: in nested loops that
of the outer loop. `Later` is their lexicographic order. `BatchMPI`, `Batch` and
`PressioMainProofs` each define the `Position` of a rank or of `main`, from the list of
tasks, the loops and the steps of the code, and say that it only moves forward
(`RanksOnlyAdvance`, `LoopsOnlyAdvance`).

### BatchMPI

| Module | Code |
|---|---|
| `phase`, `next` | where rank 0 is in `main`; the queue's position in `tasks` |
| `pc`, `task`, `reply` | where each worker is in `main` and in the lambda of line 111, its `request`, the `task_responses` it returned |
| `responses` | `responses` of line 104, on rank 0 |
| `files` | who last wrote each file under `-w` and `-W` |
| `csv` | the rows on standard output |
| `StartThrows`, `FailsToEnter`, `StartCrashes` | lines 53-92 on rank 0 and on the others: a command line or a JSON file that cannot be read, a metrics plugin that does not exist |
| `PrintHeader`, `Enter` | lines 94-110 on rank 0 and on the others |
| `Assign`, `Close`, `Leave` | `queue::work_queue`: a task to an idle worker, the end of the queue, a worker's return |
| `RunTask`, `LoadThrows`, `LoadCrashes` | lines 112-126: loads, compresses, decompresses; the exception of `load()`, the null pointer that is cloned |
| `WriteCompressed`, `WriteDecompressed` | lines 128-135 |
| `Collect` | lines 137-154, the answer |
| `Receive` | lines 156-169, the answer's metrics into `responses`, and the row |
| `Finalize` | lines 172-178: `MPI_Finalize` returns when all ranks have called it, and `main` returns 0, after the queue (`exited`) or after the catch block (`failed`) |

Metric keys are numbers in the order of the map and 0 is the empty string, so the
maps with `operator[]` keep their defaults: an unknown metric has id 0, an unknown
id the empty name. A value is `<<task, metric>>` wherever it goes. The uninitialised
`my_task_id` is any id when the answer is empty. libdistributed and MPI are external
and modelled by what `main` relies on: one task per worker at a time, one answer
per task, `work_queue` returns when all were answered, `MPI_Finalize` is
collective, a killed rank takes the job down. A load fails or not at each task:
`BadCompressors` and `BadDatasets` say where it may. All ranks parse one command
line, so its result is given by constants; `-h` (lines 54-58), where rank 0 prints
the usage and all ranks finalize, is left out.

### BatchCmdline and Batch

`ParseFlag` is one turn of the loop of `parse_args` (`TakeFlag` is its switch),
`optind` the position of `getopt`, and `ParseRest` what follows the loop. `MaxInt` is
the greatest `int`, from which the other limits follow: a `-r` that is no `int` makes
`std::stoi` throw, a negative one is stored as the unsigned integer it converts to.

They and `Setup` are what `pressio_batch` does before its loops, and `pc` is the
place in `main`; `d`, `c`, `i` are the loop variables. `i` is an `int` that is
compared with an unsigned `replicats`: `Replicate` is its value in that comparison,
and `NextReplicate` wraps it around. `compressor` is `live`, `released` by a failure
branch, or `none`. A call on a released compressor is undefined: it may work, report
an error or kill the process; that it might corrupt the rest of the program is not
modelled. `data` are the buffers that are allocated, `first` and `fields` the
variables of the code; `failed` and `dangling` are history that only properties
read. What `-h`, `-w` and `-W` store is not looked at, here as in the code.

### OptionsMultimap

`options_from_multimap`, an entry of the multimap per step, as a procedure: `Call`
enters it, `done` returns `opt`. A `std::multimap` is the sequence of its entries in
the order of the keys, and the entries of one key in the order they were inserted.
`SameKey` and `NewKey` are the branches of the loop, `LastKey` what follows it.
`FromMultimap` is the reference, said by positions: the n-th value of a key is that of
the n-th entry with this key.

### Plugin and Settings

`Plugin` is external: what the programs rely on in a plugin of libpressio. It has
options, one of which selects a module whose options the plugin then has too;
`set_options` selects first, ignores keys it does not have, and reports values
that are out of range; `cast_set` converts texts to the type of the option and says
whether there is such an option and whether it could.

`Settings` are the five ways from a user's text to a plugin, one list of steps each:

| Client | Steps | Code |
|---|---|---|
| `compressor` | `CompressorLoad` | `compressor_configs.cc`, `compressor_config_impl::load` and `load_compressors` |
| `metrics` | `MetricsLoad` | `metrics.cc`, `metrics_config_impl::load` and `load_metrics` |
| `dataset` | `DatasetLoad` | `datasets.cc`, an entry of `load_datasets` |
| `pressio` | `PressioSetup` | `pressio.cc`, `setup_compressor` from line 268 to 305, with `options.cc` |
| `io` | `MakeIo` | `src/pressio/cmdline.cc`, `make_io` |

| Module | Code |
|---|---|
| `Convert`, `Converting` | a call of `options_from_multimap` |
| `SetBack` | `set_options` of the options just read: the early options of a compressor are never filled |
| `SetPath` | `make_io`: the path, if there is one |
| `CheckEarly`, `SetEarly` | early options: checked and set, or set without a look at the answer |
| `Snapshot` | `get_options` |
| `Assign`, `Assigned` | the loop of `cast_set`, an option per step |
| `Check`, `Write` | `check_options`, `set_options` |
| `NoPlugin` | incomplete JSON; a plugin that does not exist: an exception, an exit or a null pointer that is used |

An entry is a key with texts; `list` marks a JSON array, which only the dataset
loader reads as one, the others as `""`. A text is a model string that is a number,
the name of a module, or neither. Steps of the three loaders that differ in nothing
but the order are the same actions, which is what makes the lists comparable.
`Multimap` puts the entries in the order of a `std::multimap` (`Goes`). In
`OutOfRange` every entry of a dataset counts, not only the last of its key: an
earlier one may be the only one that can be converted, and then stays.

### ModuleGraph

`print_graph` on every rank at once, a line of output per step. `ids` is
`name_to_id`; `ToId` gives a new module the size that the map had before, since
C++17 evaluates the right side of `m[name] = m.size()` first. An edge numbers
parent, then child; a `children` entry numbers its module also when it is empty.
`out` is the one standard output. The configuration of the compressor is a
sequence of entries in the order of the map, given by its positions alone
(`IsList`), so a module may be anything. `GraphIsPrinted` reads the lines of a rank
where they are in `out` (`Mine`, `Body`). The branch for `verbose_options` is
dead, since nothing sets it, and labels and shapes are left out.

### Trie and Dictionary

A node of the tree is the word that leads to it, so `ids` is the tree and `find`
looks at prefixes. `insert` is one step per character: `Follow`, `Create`,
`InsertThrows`, then `EndCandidate` or `EndThrows`. `Dictionary` takes
candidates while none is empty or a prefix of another and refuses the first that is.

### Cmdline

| Module | Code (`src/pressio/cmdline.cc`) |
|---|---|
| `given` | history: the flags taken so far |
| `builders` | `input_builder`, `compressed_builder`, `decompressed_builder`: each a format, `io_options` and `early_io_options` |
| `files`, `inputs` | the options of the plugins in `opts.*_file_action`, and how long `opts.input` is |
| `Format`, `Path`, `Dataset`, `IoOption`, `EarlyOption`, `PairOption`, `ActionFlag`, `NextBuffer`, `Field`, `Unknown` | the cases of the switch, lines 338-474, grouped by what they do |
| `SetFormatIf` | lines 247-255 |
| `EndOfFlags` | lines 475-482: default actions, positional compressor |
| `Makes` | `make_io` (273-296) with `set_options_from_multimap`: whether it gets to its end |
| `Made` | the options that `make_io` leaves in the plugin: the path (281-286), the early options (293), the others (294) |
| `KeysOf`, `SetsEarly` | which early options are set, and which keys the plugin has after them: `set_options` ignores the others, and nobody looks at its answer |
| `ReadInput`, `MakeOutput`, `Return` | lines 485-508 |

A flag is `[opt, arg]`, and an argument is what the code can tell apart: a format, a
key, an action, or one that cannot be used. The multimaps of a builder are functions
from keys to sequences of values, and a value is named by the position of its flag
among `given`: the model then tells which flag each value in a plugin comes from, and
`OptionsReachPlugins` is said about the flags alone (`KeyFlags`, `EarlyKeyFlags`,
`HasKey`, `EarlyFits`), with no word about builders. `-G`, `-e` and `-E` are the early
options: `options_from_multimap` makes a string of one value and a list of several, and
an early option whose key the plugin lacks or whose type is another is dropped without
a word, which the property states. An option of another text than its type needs is
the subject of `Settings` (`MakeIo`). `OptionsAssumption` says that an option which
selects a module is given early: one among the others would replace the module
after its options were set, and that too is in `Settings`. `None` is the
empty optional of `io_format`, a value that no argument has. Actions and
types are spelled out here; their abbreviations are `Trie`'s subject. `Known` is
the string given to `getopt`. Paths of inputs imply the format `by_extension`, as
with libpressio 0.89 and later. Which keys a plugin has (`Accepts`), their types
(`Types`), which of them a module brings that an option selects (`Brings`), and
whether a file can be read, is up to libpressio: the first three are constants, the
last is a choice.

### PressioMain

| Module | Code (`src/pressio/pressio.cc`) |
|---|---|
| `pc` | where each rank is in `main` and `setup_compressor` |
| `settings` | the options of each rank's compressor: who set each, and in which job |
| `compressed`, `decompressed`, `written` | the vectors of `main`, and the `i` of its loops |
| `sent` | what the broadcast carries |
| `config`, `files` | the files under `-l`, `-w`, `-W`, which all ranks and jobs share |
| `Parse` | `parse_args` (`Cmdline`) and line 386 |
| `GetCompressor`, `LoadConfig`, `SetEarly`, `SetOptions`, `OpenConfig`, `WriteConfig`, `CheckOptions` | `setup_compressor`, in its order: the file is emptied and written before the answer of `set_options` is looked at |
| `PrintSettings`, `Compress`, `WriteCompressed` | lines 394-436 |
| `Send`, `Receive` | line 440 on rank 0 and on the others |
| `Decompress`, `WriteDecompressed`, `PrintMetrics` | lines 442-453 |
| `OpenFile`, `WriteFile` | `pressio_io_write` empties a file, then writes it |
| `Fails` | each `exit`, that of `print_graph` (`graph.cc:99-118`) on every rank, and on rank 0 the exception of `std::regex` (line 168) |
| `Finalize`, `Kill`, `NextJob` | `MPI_Finalize` is collective; the launcher ends a job in which a process went without it; the user's next command |

Rank 0 does not wait in the broadcast, which is the most that MPI allows. Text
that is no JSON, an emptied file among it, makes `pressio_options_new_json` fail.
`PressioJobs` is what is left when ranks, broadcast, files and launcher are hidden:
a job's outputs come and go while it runs, it ends complete when they are all whole,
and nothing writes them between its end and the next job. A configuration may already
be whole when a job begins, because the job before saved the same (`Repeatable`).

`WriteFile` is one step, after which nothing of what another rank wrote to the file is
left. That assumes that the data which the ranks have for one file have one length, as
they have when all compress one input alike. Were they of different lengths, a rank
that opened the file before another wrote a longer one would leave the end of that
behind its own data (`pressio.cc:424`), which this model does not show.

What is printed is left out. The number of buffers is one constant for all
vectors, which `BuffersAligned` of `Cmdline` justifies; that `num_compressed` is
never set is a consequence of finding (4).

## 4. Runs

| Run | Instance | Shows |
|---|---|---|
| `batch_mpi` | 3 workers, 2 datasets x 2 configurations, `-w` and `-W`, a metric with no column and a column that may be missing; ranks that fail to start, loads that throw or crash | `OneRowPerTask`, `CellsBelongToRow`, `WritersApart`, `ExitIsAllOrNothing`, `ThrowIsFinal`, `StuckOnlyAfterThrow`, `RanksOnlyAdvance`, `Termination`, `ImplementsRows` |
| `batch_mpi_columns` | a metric with no column, columns from `init_fieldnames` | `ColumnShowsItsMetric` is violated |
| `batch_mpi_empty_answer` | a task that may report nothing | `RowsPerConfiguration` is violated |
| `batch` | 12 command lines, up to 3 replicates of 2 datasets x 2 configurations, everything may fail | `BuffersFreed`, `DanglingOnlyAfterFailure`, `ShortRowEndsProgram`, `RowsAreSuccesses`, `LoopsOnlyAdvance`, `Terminates`, `ImplementsRowsInOrder` |
| `batch_released` | 1 x 1 x 2, compression may fail | `ReplicatesRunConfiguration` is violated |
| `trie` | all lists of up to three words of up to three of two characters | `FindIsUniquePrefix`, `ImplementsDictionary` |
| `settings` | five clients, all pairs of options of five keys and up to four of two keys, nine lists of early options | `GivenOptionsHold`, `EarlyOptionsHold`, `FailsForAReason`, `MistakesAreReported`, `OptionsAreComplete` |
| `cmdline` | all sequences of up to four of 22 flags, with and without a compressor | `FormatIsAsAsked`, `BuffersAligned`, `OptionsReachPlugins` |
| `cmdline_k` | sequences with `-k` | `KIsAFlag` is violated |
| `pressio` | 2 ranks, 2 buffers, 4 jobs (save and print the graph; save and decompress; load, compress and decompress; versions), every step may fail | `DecompressesRoot`, `SettingsAreAsked`, `StuckOnlyAfterExit`, `JobsEnd`, `ImplementsJobs` |
| `graph` | 2 ranks, three configurations, three formats, with and without a name | `OneNumberPerModule`, `GraphIsPrinted` |
| `pressio_load_race` | 2 ranks, a job that saves, then one that loads and saves | `LoadFindsConfiguration` is violated |

Bounds. Three workers and four tasks let one worker finish two tasks while two
others are inside one, so that answers are reordered in every way, and leave a rank
in the queue when one fails to start and one throws. Two columns given in the
opposite order of the keys and a third key without a column separate ids, names and
positions. Two replicates are what a failure needs to reach a second use of a
compressor, two configurations and two datasets what it needs to reach the next
one. An `int` of two bits makes the edges small: `-r -2` is two replicates, `-r -1`
is three, of which the loop variable is negative in the last, and `2` is no `int`.
Words of length three over two characters have a shared prefix, a branch below it
and a rest after the branch. The keys of `settings` are one that selects a module, a
list, a number of the module, a path and one that nothing has; of its texts one is a
number, one a number out of range and one the name of a module, which is no number; two
options are what it takes for one to change what the other means, and four entries of
two keys interleave the entries of a key with those of another. Four flags are a
format, a path and a dataset of one direction in any order, and a buffer before or
among them; a plugin that contains another, the early option that selects it, and an
early and a late value of a key of the other; or two early values, which are a list. Two ranks are one that sends and one that receives; two buffers let a
rank be between two files while the other is in one; two jobs that save different
options, and one that loads, tell a whole configuration from a mixture. The graphs
have a module that is a child before its own entries come, one after, and one that
has none. The file under `-l` can be opened in all runs (`CanSave`).

`CHECK_DEADLOCK` is off because every program ends, and because `pressio_batch_mpi`
does stop for ever after an exception; `StuckOnlyAfterThrow` and
`StuckOnlyAfterExit` say that ranks stop in no other way, and in which states a step can
be taken: wherever not every rank waits for another, in the work queue or in a
collective.

Fairness. `BatchMPI` has weak fairness of rank 0's step, of each worker's step and
of the collective finalize: ranks are processes, and neither waits for a condition
that comes and goes. `PressioMain` has the same, and weak fairness of `Kill`: a
launcher notices a process that is gone. Nothing makes the user start a next job.
`Trie` and `Batch` have weak fairness of `Next`, one thread that returns; of
`Settings`, `Cmdline` and `ModuleGraph`, whose ranks do not wait for each other, only
safety is checked. That calls into libpressio
return is assumed.

Findings. (1) The id of a metric without a column is 0, so its value is printed in
the first column (`pressio_batch_mpi.cc:143`). (2) A task that reports no metric
prints the row of an arbitrary task (`:157`). (3) A failed replicate of
`pressio_batch` leaves the next one, and the release after the loop, a compressor
that is released (`pressio_batch.cc:53,61`). (4) `-k`, which the usage text
documents (`src/pressio/cmdline.cc:85`), is missing from the string given to
`getopt` (`:337`), so it ends `pressio`. (5) With `-a load -a save` under MPI a
rank may load the configuration file when another has just emptied it
(`pressio.cc:243,291`). Each is a run that TLC refutes.

Also met, with no run: without `-a` the actions are compress, decompress and
settings, where the usage text has the first two (`src/pressio/cmdline.cc:58,475`;
`EndOfFlags`). `-a graph` alone ignores the compressor argument (`:478`;
`TakesCompressor`). A configuration file that cannot be opened is not noticed when
saving (`pressio.cc:291`; `OpenConfig`), what `set_options` refuses is saved all
the same (`:289-305`), and what was loaded is not saved again (`Out`).
`pressio_batch` ignores `-w` and `-W`, which its usage text offers
(`src/pressio_batch/cmdline.cc:15-16`), runs the experiment after `-h` and never
prints its usage (`pressio_batch.cc:21`). A negative `-r` is a huge number of
replicates (`Unsigned`). When no rank of `pressio_batch_mpi` gets past its start the
job returns 0 without a row (`Finalize`). The early options of `metrics.json` are
undone by the options that were read before them (`metrics.cc:31,44`; `MetricsLoad`),
those of a compressor are computed and never set (`compressor_configs.cc:21`;
`CompressorLoad`): `EarlyOptionsHold` says for whom they hold. A JSON array is the
empty string for both (`TextOf`). What a dataset's options get wrong, and what
metrics and IO plugins refuse, is not noticed (`MistakesAreReported` says where it
is). With several replicates
`pressio_batch_mpi` runs tasks that share their output file names, so
`WritersApart` is stated for one replicate.

## 5. Proofs

The theorems hold for every value of the constants that the `ASSUME`s of the modules
allow: any number of ranks, tasks, buffers, jobs, flags, candidates.

| Module | Theorem | States | Assumes also |
|---|---|---|---|
| `BatchMPIProofs` | `TypeCorrect` | `Spec => []TypeOK` | |
| | `RowsAreUnique` | `Spec => []OneRowPerTask` | `AllReport` |
| | `ExitIsComplete` | `Spec => []ExitIsAllOrNothing` | `AllReport` |
| | `ThrowNeverExits` | `Spec => ThrowIsFinal` | `AllReport` |
| | `RefinesRows` | `Spec => ImplementsRows` | `AllReport` |
| | `CellsAreOfTheirTask` | `Spec => []CellsBelongToRow` | `AllReport` |
| | `FilesHaveOneWriter` | `Spec => []WritersApart` | `Replicats <= 1` |
| | `RanksDoNotWaitForEachOther` | `Spec => [](SomeoneGoesOn \/ phase \in Ended \/ SomeoneThrew)` | |
| | `StopsOnlyAfterThrow` | `Spec => []StuckOnlyAfterThrow` | `[](SomeoneGoesOn <=> ENABLED Next)` |
| | `NobodyGoesBack` | `Spec => RanksOnlyAdvance` | |
| | `PositionsAreBounded` | `Spec => []PositionsBounded` | |
| `BatchProofs` | `TypeCorrect` | `Spec => []TypeOK` | |
| | `NothingLeaks` | `Spec => []BuffersFreed` | |
| | `DanglesOnlyAfterFailure` | `Spec => []DanglingOnlyAfterFailure` | |
| | `RowsAreWhole` | `Spec => []ShortRowEndsProgram` | |
| | `SuccessesAreReported` | `Spec => []RowsAreSuccesses` | |
| | `RefinesRows` | `Spec => ImplementsRowsInOrder` | |
| | `MainNeverGoesBack` | `Spec => LoopsOnlyAdvance` | |
| | `MainGoesOnUntilItEnds` | `Spec => [](PositionBounded /\ (MainGoesOn \/ pc \in {"done", "terminated"}))` | |
| `PressioMainProofs` | `TypeCorrect` | `Spec => []TypeOK` | |
| | `RootIsDecompressed` | `Spec => []DecompressesRoot` | |
| | `EndIsComplete` | `Spec => []NormalEndIsComplete` | |
| | `SettingsAreThoseAsked` | `Spec => []SettingsAreAsked` | |
| | `JobsAreImplemented` | `Spec => ImplementsJobs` | |
| | `RanksDoNotWaitForEver` | `Spec => [](SomeoneGoesOn \/ Ended \/ \E r \in Ranks : pc[r] = "exited")` | |
| | `StuckOnlyWhereOneExited` | `Spec => []StuckOnlyAfterExit` | `[](SomeoneGoesOn <=> ENABLED JobNext)` |
| | `NobodyGoesBack` | `Spec => RanksOnlyAdvance` | |
| | `PositionsAreBounded` | `Spec => []PositionsBounded` | |
| `CmdlineProofs` | `TypeCorrect` | `Spec => []TypeOK` | |
| | `FilesMatchBuffers` | `Spec => []BuffersAligned` | |
| | `FormatsAreThoseAsked` | `Spec => []FormatIsAsAsked` | |
| | `OptionsAreThoseGiven` | `Spec => []OptionsReachPlugins` | |
| `ModuleGraphProofs` | `TypeCorrect` | `Spec => []TypeOK` | |
| | `NumbersAgree` | `Spec => []OneNumberPerModule` | |
| | `GraphsAreWhole` | `Spec => []GraphIsPrinted` | |
| `TrieProofs` | `TypeCorrect` | `Spec => []TypeOK` | |
| | `FindsUniquePrefix` | `Spec => []FindIsUniquePrefix` | |
| | `RefinesDictionary` | `Spec => Dict!Steps` | |
| `SettingsProofs` | `TypeCorrect` | `Spec => []TypeOK` | |
| | `EveryOptionIsComplete` | `Spec => []OptionsAreComplete` | |
| | `MadeOptionsStay` | `Spec => OptionsAreFinal` | |
| | `GivenOptionsReachPlugins` | `Spec => []GivenOptionsHold` | |
| | `EarlyOptionsStay` | `Spec => []EarlyOptionsHold` | |
| | `LoadsFailForAReason` | `Spec => []FailsForAReason` | |
| | `MistakesNeverPass` | `Spec => []MistakesAreReported` | |

`AllReport` is `{} \notin ResultSets`: every task reports some metric. Finding (2)
is what happens without it, so it cannot be dropped. Deadlock and progress do not
depend on it. The two theorems about ENABLED have as a hypothesis that a step can be
taken just where a guard holds, which the provers cannot show: it is the first conjunct
of `StuckOnlyAfterThrow` and of `StuckOnlyAfterExit`, and the runs check it. Without
ENABLED, and without a hypothesis, the same is said by `RanksDoNotWaitForEachOther` and
`RanksDoNotWaitForEver`. With two replicates there are
two tasks of one dataset and configuration, whose files have one name
(`pressio_batch_mpi.cc:128-135`), and two workers may write them at once:
`FilesHaveOneWriter` needs its hypothesis.

What the constants may be. Sizes are numbers, there is at least one worker, rank,
buffer and job, and what a user or a plugin names (columns, metric sets, flags) is
typed. The sets of metrics that a task reports and the columns of a dataset are
finite, as any `std::map` is, and there is some set they may report (`ResultSets`,
`Results`), the empty one perhaps. `MayFail` of `PressioMain` are steps at which the code
has something that may fail, so none of those at which a rank has ended. The keys of
a row have an order because they are numbers. A module of the graph is anything.
Of a plugin it is assumed that its options are records, that the options of a module
have other keys than its own, that a new plugin contains no module, that its defaults
are not out of range, and that the key which selects a module is not `io:path`, which
names a file. Among the texts is the empty one, since JSON arrays have it.

Arguments. None of these invariants is inductive as it stands.

*BatchMPI.* `TypeInv` adds to `TypeOK` that the answer of a
worker is that of the task it holds, without which rank 0 might read any id from
it. `IInv` adds where each task is: a task below `next` is with exactly one worker
or in exactly one row (`HeldInv`, `RowInv`, `NothingLost`), and what rank 0's phase
says about the others (`PhaseInv`): before its queue nothing was handed out and
nobody holds a task; rows are complete until it throws; a throw is either at the
start, and then there is no row, or the worker whose answer it was stays idle for
ever; a closed queue has idle workers only, or some that have left. These give that
`Finalize` is only reached from a closed queue that everybody has left, and then no
task is with a worker (`NothingHeld`), so all of them have rows, or from a start
that failed on every rank. The refinement uses the same invariant: `Receive` is
`Report`, of a whole row or one cut short, `Finalize` of a closed queue is `End`. For the cells,
`CellsInv` says of each task's `responses` what the property says of the rows: what
is in them is a value of that task, under the name of its metric. That the ids of
`Collect` and the names of `Receive` are inverse to each other, for the metrics that
have a column, is the lemma this rests on. For the writers, `HeldInv` alone says
that two workers hold two tasks, and without replicates two tasks differ in dataset
or configuration.

*Batch.* `IInv` has the flags taken so far (`FlagsInv`: `replicats` is what the last
`-r` among them asked for), the position in the loops (`PositionInv`), the buffers,
the compressor, and the rows: a replicate has a row or has failed exactly when the
loops have left it behind (`RowsInv`, `Past`). `Replicate` is the unsigned value
of an `int`, so `UnsignedFacts` has what conversion and wrap-around do for any
`MaxInt`: the loop counts up to a `replicats` beyond `MaxInt` without repeating one.
That what has a row or has failed is what the loops left behind also gives the order
of the refinement: a row is `Report`, a failure is `Skip`, and what was taken is before
the replicate that is.

*PressioMain.* `DataInv` says whose data a rank has at each step, `SettingsInv` which
options at each step of `setup_compressor`. `FilesInv` is what the files need: a file
that some rank has gone through is whole, unless another rank is between emptying and
writing it, or someone is gone and the job cannot end normally. A rank at its end
has gone through all of its files, and when all are there nobody is in between. The
saved configuration has the same argument. The refinement also needs that no file
holds data of a job to come (`FilesPast`), so that the next job begins without outputs.

*Cmdline.* `BuffersInv` counts the `-p` among the flags, `FilesInv` follows the three
loops after them. That `set_format_if` gives what `FormatOf` says of the whole
sequence is proved for one more flag at a time: which flags of a buffer are explicit,
and which is the last, changes only by the flag that is taken. `OptionsInv` says of
each key in the two multimaps of a builder that they hold the flags about it, in their
order; a flag adds its position behind all others (`InOrderAppend`), to the last
buffer (`KeyStep`). `MadeInv` ties each plugin to its builder, and `MadeFacts` says
which of the three calls of `make_io` a key has its values from.

*ModuleGraph.* The invariant compares no two ranks. `Number` is what a module gets on
any of them: how many modules the configuration names before it (`Precedes`). `Numbered` says that a rank which has come to child `d` of
entry `a` has exactly the modules up to there, each with its `Number`, and none
twice; `Meet` is `to_id`. Lines then are those of the places passed (`BodyHolds`), in a
frame (`FrameHolds`), and a place is known from its line because numbers are known
from their modules (`LinesDiffer`).

*Trie.* A node is there exactly when a taken candidate goes through it or the current
one has reached it (`NodesInv`); its id is that of the only candidate through it, or
ambiguous when a second has passed (`HasId`); `created` tells that no other candidate
goes through the last node (`CreatedInv`); no candidate was passed at its end
(`EndsInv`). So where `insert` throws there is a clash (`LeafIsClash`), where it ends a
candidate there is none (`EndFacts`), and at rest `find` and `Unique` stop at the same
prefix. `RefinesDictionary` is `ImplementsDictionary` without its fairness.

*Conversion.* `ConvertInv`: while the loop runs, `values` are the values that the
entries passed so far (`Passed`) have for the current key, and `opt` are the options
of all their other keys (`Made`). One more entry adds a value to its own key and to no
other (`MoreValues`, `OtherValues`), and since the entries are ordered a new key is
none of the keys before.

*Settings.* How many steps a client has left tells where it is (`TodoInv`), and `IInv`
says of each place which multimap was converted last (`MapInv`), that the plugin is
as new or has its early options (`PluginInv`), and what the loop over the options has
done (`Loop` in `OptionsInv`: a key has the value of its last assignment, or the one
that was read). `Multimap` keeps the texts of a key in their order (`MultimapValues`),
so what the loop assigns is what the user gave (`AssignmentsAre`). `set_options` gives
a plugin what fits and leaves the rest (`SetOptionsFacts`), before which it may replace
a module and its keys. `EarlyEnds` and `WritingEnds` combine these for the two calls
that matter. The order of the steps enters in one place: `metrics.cc` read the options
before the early ones were set (`Base`), so it alone writes the defaults back.

*DataFacts.* Induction over numbers is stated of a set (`SetInduction`), from which
follow least and greatest elements and that the elements of a finite set can be
counted (`RankedElement`).

*Progress.* That the programs end is liveness, but all of it that does not depend on
fairness is proved: somebody can go on until the end (or an exception, or an exit),
every step takes someone forward and nobody back, and there are only so many
positions. What is left to fairness is that who can go on does. For `BatchMPI` the
first needs `LeaveInv` (a worker leaves only a closed queue, and then none is busy),
and the second that a task handed out lies before `next` (`HeldInv`): a worker which
has answered stands before the next task of the list, not before its last. Idle workers
advance when another is given a task (`Bystander`). For `PressioMain` it needs that a
rank waits for the broadcast only if all of them come to it and that `sent` is set once
rank 0 is past it (`BroadcastInv`), and that ranks are killed only where one exited and
leave `MPI_Finalize` together (`GoneInv`). For `Batch` the wrap-around of the `int` is
covered by `Replicate`, which counts on.

Only model-checked: liveness (`Termination`, `Terminates`, `JobsEnd`, the fairness of
`ImplementsDictionary`) and the link from guards to ENABLED, the first conjunct of
`StuckOnlyAfterThrow` and of `StuckOnlyAfterExit`: neither is in reach of TLAPS. Every other
property of a passing run has a theorem. Conversely three proved properties are in no
run: `NormalEndIsComplete`, which the checked `ImplementsJobs` implies, `OptionsAreFinal`,
a step on the way to the checked `OptionsAreComplete`, and `RanksOnlyAdvance` of
`PressioMainProofs`.

## 6. Not modelled

Left out: `pressio_new`, whose one loop replaces strings in template texts, and those
texts; the registration calls of `pressio_meta.cc`; the dimensions and type of a dataset (`datasets.cc:80-87`), which
go to libpressio as they were read; the layout of help and version output, labels
and shapes of the graph, the formatting of numbers.
