----------------------------- MODULE PressioMain -----------------------------
(***************************************************************************)
(* pressio under MPI (src/pressio/pressio.cc): every rank runs main with   *)
(* the same arguments.  Ranks meet in the broadcast of the compressed data *)
(* and in MPI_Finalize, and share the configuration file and the files     *)
(* that are written.  Jobs run one after the other and find the files of   *)
(* those before; a rank that fails exits without MPI_Finalize.             *)
(*                                                                         *)
(* A setting is <<job, source>>, and data is the job, rank and buffer it   *)
(* was compressed from.                                                    *)
(***************************************************************************)
EXTENDS Naturals, Sequences, FiniteSets

CONSTANTS
  NumRanks,
  NumBuffers,  \* how many inputs, and files of each output (see Cmdline)
  Keys,        \* the options of the compressor
  Jobs,        \* the command lines: [actions, early, options], the last two sets of keys
  MayFail,     \* the steps whose call may fail
  CanSave      \* whether the configuration file can be opened for writing

ASSUME NumRanksAssumption == NumRanks \in Nat \ {0}
ASSUME NumBuffersAssumption == NumBuffers \in Nat \ {0}
ASSUME JobsAssumption ==
  Jobs \in Seq([actions : SUBSET STRING, early : SUBSET Keys, options : SUBSET Keys]) /\ Jobs # <<>>
ASSUME FailuresAssumption ==
  CanSave \in BOOLEAN /\ MayFail \subseteq STRING \ {"done", "exited", "killed"}

Ranks == 0..(NumRanks - 1)
Buffers == 1..NumBuffers

VARIABLES
  job,           \* the job that runs
  pc,            \* where each rank is
  settings,      \* the options of each rank's compressor
  compressed,    \* per rank
  decompressed,  \* per rank
  written,       \* how many files of the present loop each rank has written
  sent,          \* what rank 0 has broadcast
  config,        \* the file under -l
  files          \* the files under -w and -W

ranks == <<settings, compressed, decompressed, written, sent>>
vars == <<job, pc, ranks, config, files>>

Asked(action) == action \in Jobs[job].actions

Default == <<0, "default">>
Nothing == <<>>
Truncated == [kind |-> "truncated", values |-> <<>>]

Start ==
  [pc           |-> [r \in Ranks |-> "parse"],
   settings     |-> [r \in Ranks |-> [k \in Keys |-> Default]],
   compressed   |-> [r \in Ranks |-> Nothing],
   decompressed |-> [r \in Ranks |-> Nothing],
   written      |-> [r \in Ranks |-> 0]]

Init ==
  /\ job = 1
  /\ pc = Start.pc
  /\ settings = Start.settings
  /\ compressed = Start.compressed
  /\ decompressed = Start.decompressed
  /\ written = Start.written
  /\ sent = Nothing
  /\ config = [kind |-> "missing", values |-> <<>>]
  /\ files = [out \in {"compressed", "decompressed"} |-> [b \in Buffers |-> Nothing]]

Go(r, step) == pc' = [pc EXCEPT ![r] = step]

\* exit, at any step that has one.  A pattern that is no regular expression terminates
\* rank 0, which alone prints settings and metrics; the graph is printed by every rank,
\* which exits without a name or with an unknown format.
Fails(r) ==
  /\ pc[r] \in MayFail
  /\ pc[r] = "metrics" => r = 0
  /\ pc[r] = "print" => r = 0 \/ Asked("graph")
  /\ Go(r, "exited")
  /\ UNCHANGED <<job, ranks, config, files>>

-----------------------------------------------------------------------------
(***************************************************************************)
(* setup_compressor.                                                       *)
(***************************************************************************)
NeedsCompressor ==
  Jobs[job].actions \cap
    {"compress", "decompress", "settings", "help", "graph", "save", "load", "fullhelp"} # {}

Parse(r) ==
  /\ pc[r] = "parse"
  /\ Go(r, IF NeedsCompressor THEN "setup" ELSE "finalize")
  /\ UNCHANGED <<job, ranks, config, files>>

GetCompressor(r) ==
  /\ pc[r] = "setup"
  /\ Go(r, IF Asked("load") THEN "load" ELSE "early")
  /\ UNCHANGED <<job, ranks, config, files>>

\* The keys of new take its values.
Override(old, new) == [k \in Keys |-> IF k \in DOMAIN new THEN new[k] ELSE old[k]]

\* A missing file, or text that is not JSON, ends the process.
LoadConfig(r) ==
  /\ pc[r] = "load"
  /\ IF config.kind = "saved"
     THEN /\ settings' = [settings EXCEPT ![r] = Override(@, config.values)]
          /\ Go(r, "early")
     ELSE Go(r, "exited") /\ UNCHANGED settings
  /\ UNCHANGED <<job, compressed, decompressed, written, sent, config, files>>

SetOf(keys, source) == [k \in keys |-> <<job, source>>]

SetEarly(r) ==
  /\ pc[r] = "early"
  /\ settings' = [settings EXCEPT ![r] = Override(@, SetOf(Jobs[job].early, "early"))]
  /\ Go(r, "options")
  /\ UNCHANGED <<job, compressed, decompressed, written, sent, config, files>>

SetOptions(r) ==
  /\ pc[r] = "options"
  /\ settings' = [settings EXCEPT ![r] = Override(@, SetOf(Jobs[job].options, "option"))]
  /\ Go(r, IF Asked("save") THEN "save" ELSE "check")
  /\ UNCHANGED <<job, compressed, decompressed, written, sent, config, files>>

\* Opening the file empties it; that it could not be opened goes unnoticed.
OpenConfig(r) ==
  /\ pc[r] = "save"
  /\ IF CanSave THEN Go(r, "saving") /\ config' = Truncated
                ELSE Go(r, "check") /\ UNCHANGED config
  /\ UNCHANGED <<job, ranks, files>>

\* Mutant: out does not start with the early options.
Mut_Out == SetOf(Jobs[job].options, "option")

\* The early options, and over them the others; not what was loaded.
Out ==
  [k \in Jobs[job].early \cup Jobs[job].options |->
     IF k \in Jobs[job].options THEN <<job, "option">> ELSE <<job, "early">>]

WriteConfig(r) ==
  /\ pc[r] = "saving"
  /\ config' = [kind |-> "saved", values |-> Out]
  /\ Go(r, "check")
  /\ UNCHANGED <<job, ranks, files>>

\* Only now is the answer of set_options looked at: see Fails.
CheckOptions(r) ==
  /\ pc[r] = "check"
  /\ Go(r, "print")
  /\ UNCHANGED <<job, ranks, config, files>>

-----------------------------------------------------------------------------
(***************************************************************************)
(* main, with the compressor.                                              *)
(***************************************************************************)
Data(r, b) == [job |-> job, rank |-> r, buffer |-> b]

\* Help, settings and graph only print; without -a compress the input is what is decompressed.
PrintSettings(r) ==
  /\ pc[r] = "print"
  /\ IF Asked("compress") THEN Go(r, "compress") /\ UNCHANGED compressed
     ELSE IF Asked("decompress")
     THEN /\ compressed' = [compressed EXCEPT ![r] = [b \in Buffers |-> Data(r, b)]]
          /\ Go(r, "bcast")
     ELSE Go(r, "metrics") /\ UNCHANGED compressed
  /\ UNCHANGED <<job, settings, decompressed, written, sent, config, files>>

Compress(r) ==
  /\ pc[r] = "compress"
  /\ compressed' = [compressed EXCEPT ![r] = [b \in Buffers |-> Data(r, b)]]
  /\ Go(r, "open_compressed")
  /\ UNCHANGED <<job, settings, decompressed, written, sent, config, files>>

OpenStep == [compressed |-> "open_compressed", decompressed |-> "open_decompressed"]
WriteStep == [compressed |-> "write_compressed", decompressed |-> "write_decompressed"]

\* pressio_io_write empties the file, then writes it.
OpenFile(r, out) ==
  /\ pc[r] = OpenStep[out]
  /\ files' = [files EXCEPT ![out][written[r] + 1] = Nothing]
  /\ Go(r, WriteStep[out])
  /\ UNCHANGED <<job, ranks, config>>

(***************************************************************************)
(* A write is one step that leaves the writer's data and nothing of what   *)
(* another rank wrote since the file was emptied.  This assumes that the   *)
(* data of the ranks for one file have one length: of a longer one written *)
(* in between the end would remain.                                        *)
(***************************************************************************)

\* Mutant: one file more than there is.
Mut_LastFilePast(n) == n > NumBuffers

\* Mutant: the last file is not written.
Mut_LastFile(n) == n + 1 >= NumBuffers

LastFile(n) == n >= NumBuffers

WriteFile(r, out, data, then) ==
  /\ pc[r] = WriteStep[out]
  /\ files' = [files EXCEPT ![out][written[r] + 1] = data[written[r] + 1]]
  /\ IF LastFile(written[r] + 1)
     THEN Go(r, then) /\ written' = [written EXCEPT ![r] = 0]
     ELSE Go(r, OpenStep[out]) /\ written' = [written EXCEPT ![r] = @ + 1]
  /\ UNCHANGED <<job, settings, compressed, decompressed, sent, config>>

WriteCompressed(r) ==
  WriteFile(r, "compressed", compressed[r], IF Asked("decompress") THEN "bcast" ELSE "metrics")

\* Mutant: a rank that compressed itself does not take part.
Mut_Send ==
  /\ pc[0] = "bcast"
  /\ sent' = IF Asked("compress") THEN sent ELSE compressed[0]
  /\ Go(0, "decompress")
  /\ UNCHANGED <<job, settings, compressed, decompressed, written, config, files>>

\* bcast on rank 0, which need not wait for the others.
Send ==
  /\ pc[0] = "bcast"
  /\ sent' = compressed[0]
  /\ Go(0, "decompress")
  /\ UNCHANGED <<job, settings, compressed, decompressed, written, config, files>>

\* Mutant: what was received is not stored.
Mut_Receive(r) ==
  /\ r # 0
  /\ pc[r] = "bcast"
  /\ sent # Nothing
  /\ Go(r, "decompress")
  /\ UNCHANGED <<job, ranks, config, files>>

Receive(r) ==
  /\ r # 0
  /\ pc[r] = "bcast"
  /\ sent # Nothing
  /\ compressed' = [compressed EXCEPT ![r] = sent]
  /\ Go(r, "decompress")
  /\ UNCHANGED <<job, settings, decompressed, written, sent, config, files>>

Decompress(r) ==
  /\ pc[r] = "decompress"
  /\ decompressed' = [decompressed EXCEPT ![r] = compressed[r]]
  /\ Go(r, "open_decompressed")
  /\ UNCHANGED <<job, settings, compressed, written, sent, config, files>>

WriteDecompressed(r) == WriteFile(r, "decompressed", decompressed[r], "metrics")

PrintMetrics(r) ==
  /\ pc[r] = "metrics"
  /\ Go(r, "finalize")
  /\ UNCHANGED <<job, ranks, config, files>>

-----------------------------------------------------------------------------
(***************************************************************************)
(* Jobs.                                                                   *)
(***************************************************************************)

\* Mutant: rank 0 does not wait for the others.
Mut_Finalize ==
  /\ pc[0] = "finalize"
  /\ pc' = [r \in Ranks |-> "done"]
  /\ UNCHANGED <<job, ranks, config, files>>

Finalize ==
  /\ \A r \in Ranks : pc[r] = "finalize"
  /\ pc' = [r \in Ranks |-> "done"]
  /\ UNCHANGED <<job, ranks, config, files>>

Ended == \A r \in Ranks : pc[r] \in {"done", "exited", "killed"}

\* The launcher ends a job in which a process is gone without MPI_Finalize.
Kill ==
  /\ \E r \in Ranks : pc[r] = "exited"
  /\ ~ Ended
  /\ pc' = [r \in Ranks |-> IF pc[r] = "exited" THEN "exited" ELSE "killed"]
  /\ UNCHANGED <<job, ranks, config, files>>

NextJob ==
  /\ Ended
  /\ job < Len(Jobs)
  /\ job' = job + 1
  /\ pc' = Start.pc
  /\ settings' = Start.settings
  /\ compressed' = Start.compressed
  /\ decompressed' = Start.decompressed
  /\ written' = Start.written
  /\ sent' = Nothing
  /\ UNCHANGED <<config, files>>

RankNext(r) ==
  \/ Parse(r) \/ GetCompressor(r) \/ LoadConfig(r) \/ SetEarly(r) \/ SetOptions(r)
  \/ OpenConfig(r) \/ WriteConfig(r) \/ CheckOptions(r) \/ PrintSettings(r) \/ Compress(r)
  \/ OpenFile(r, "compressed") \/ WriteCompressed(r)
  \/ (r = 0 /\ Send) \/ Receive(r) \/ Decompress(r)
  \/ OpenFile(r, "decompressed") \/ WriteDecompressed(r) \/ PrintMetrics(r)

JobNext == (\E r \in Ranks : RankNext(r)) \/ Finalize

Next == JobNext \/ (\E r \in Ranks : Fails(r)) \/ Kill \/ NextJob

Spec == Init /\ [][Next]_vars

\* Ranks are processes, and the launcher watches them; nobody has to start a next job.
Fairness ==
  /\ \A r \in Ranks : WF_vars(RankNext(r))
  /\ WF_vars(Finalize)
  /\ WF_vars(Kill)

FairSpec == Spec /\ Fairness

-----------------------------------------------------------------------------
(***************************************************************************)
(* Properties.                                                             *)
(***************************************************************************)
Steps ==
  {"parse", "setup", "load", "early", "options", "save", "saving", "check", "print", "compress",
   "open_compressed", "write_compressed", "bcast", "decompress", "open_decompressed",
   "write_decompressed", "metrics", "finalize", "done", "exited", "killed"}

Settings == {Default} \cup ((1..Len(Jobs)) \X {"early", "option"})
AllData == [job : 1..Len(Jobs), rank : Ranks, buffer : Buffers]
Stored == {Nothing} \cup [Buffers -> AllData]

\* The type invariant.
TypeOK ==
  /\ job \in 1..Len(Jobs)
  /\ pc \in [Ranks -> Steps]
  /\ settings \in [Ranks -> [Keys -> Settings]]
  /\ compressed \in [Ranks -> Stored]
  /\ decompressed \in [Ranks -> Stored]
  /\ written \in [Ranks -> 0..(NumBuffers - 1)]
  /\ sent \in Stored
  /\ config.kind \in {"missing", "truncated", "saved"}
  /\ DOMAIN config.values \subseteq Keys
  /\ \A k \in DOMAIN config.values : config.values[k] \in Settings
  /\ \A out \in {"compressed", "decompressed"}, b \in Buffers : files[out][b] \in {Nothing} \cup AllData

\* Whatever a rank decompresses was compressed by rank 0 in this job, buffer by
\* buffer: no rank goes on with its own data or with that of a job before.
DecompressesRoot ==
  \A r \in Ranks :
    decompressed[r] # Nothing => decompressed[r] = [b \in Buffers |-> Data(0, b)]

Savers == {j \in 1..job : "save" \in Jobs[j].actions}

\* What the file holds that job j saves.
SavedBy(j) ==
  [k \in Jobs[j].early \cup Jobs[j].options |->
     <<j, IF k \in Jobs[j].options THEN "option" ELSE "early">>]

\* A job that ends normally leaves complete files of its own, however the ranks
\* took turns in emptying and writing them: rank 0's data decompressed, anyone's
\* compressed, and the configuration, provided its file could be opened.
NormalEnd == \A r \in Ranks : pc[r] = "done"

NormalEndIsComplete ==
  NormalEnd =>
    /\ Asked("compress") =>
         \A b \in Buffers : files["compressed"][b] \in {Data(r, b) : r \in Ranks}
    /\ Asked("decompress") => \A b \in Buffers : files["decompressed"][b] = Data(0, b)
    /\ Asked("save") /\ CanSave => config = [kind |-> "saved", values |-> SavedBy(job)]

\* The settings a rank runs with: those of -o, then those of -b, then all that one
\* job saved if the job loads, and never a mixture of two saved configurations.
SettingsAreAsked ==
  \A r \in Ranks :
    pc[r] \in {"check", "print", "compress", "decompress"} =>
      \E loaded \in IF Asked("load") THEN {SavedBy(j) : j \in Savers} ELSE {<<>>} :
        \A k \in Keys :
          settings[r][k] =
            IF k \in DOMAIN SavedBy(job) THEN SavedBy(job)[k]
            ELSE IF k \in DOMAIN loaded THEN loaded[k] ELSE Default

\* Rank r neither waits in MPI_Finalize or for the broadcast nor is gone.
GoesOn(r) ==
  /\ pc[r] \notin {"finalize", "done", "exited", "killed"}
  /\ pc[r] = "bcast" => r = 0 \/ sent # Nothing

SomeoneGoesOn ==
  \/ \E r \in Ranks : GoesOn(r)
  \/ \A r \in Ranks : pc[r] = "finalize"

\* A step can be taken wherever somebody need not wait, which is so until the job has
\* ended or a rank has exited: the ranks wait for each other in the broadcast and in
\* MPI_Finalize only, and for ever only where one of them exited.
StuckOnlyAfterExit ==
  /\ SomeoneGoesOn <=> ENABLED JobNext
  /\ ~ ENABLED JobNext => Ended \/ \E r \in Ranks : pc[r] = "exited"

\* Every job ends, normally or because the launcher ends it: the broadcast and
\* MPI_Finalize are reached by all ranks or by none.
JobsEnd == \A j \in 1..Len(Jobs) : (job = j) ~> (job = j /\ Ended)

-----------------------------------------------------------------------------
(***************************************************************************)
(* The program implements PressioJobs.  An output is whole when each of    *)
(* its files is one that a rank wrote in this job.                         *)
(***************************************************************************)
Outputs == [j \in 1..Len(Jobs) |->
  (Jobs[j].actions \cap {"compress", "decompress"})
    \cup (IF CanSave THEN Jobs[j].actions \cap {"save"} ELSE {})]

Whole ==
  {out \in Outputs[job] :
     CASE out = "compress"   ->
            \A b \in Buffers : files["compressed"][b] \in {Data(r, b) : r \in Ranks}
       [] out = "decompress" -> \A b \in Buffers : files["decompressed"][b] = Data(0, b)
       [] out = "save"       -> config = [kind |-> "saved", values |-> SavedBy(job)]}

Promised == INSTANCE PressioJobs WITH
              NumJobs    <- Len(Jobs),
              Outputs    <- Outputs,
              Repeatable <- {"save"},
              number     <- job,
              state      <- IF NormalEnd THEN "complete" ELSE IF Ended THEN "failed" ELSE "running",
              whole      <- Whole

\* However the ranks share the files, a job ends complete only with all of its
\* outputs, no rank of it writes on after its end, and a job that failed or was
\* killed stays failed: the ranks, the broadcast and the launcher are hidden.
ImplementsJobs == Promised!Spec

\* "-l <config_file> the configuration file to load/save": a rank does not fail to
\* load a configuration because another rank is saving it.
LoadFindsConfiguration ==
  \A r \in Ranks : pc[r] = "load" => config.kind # "truncated"

=============================================================================
