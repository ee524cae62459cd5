-------------------------- MODULE PressioMainProofs --------------------------
(***************************************************************************)
(* Theorems about PressioMain for any number of ranks, buffers, keys and   *)
(* jobs, whatever fails.                                                   *)
(***************************************************************************)
EXTENDS PressioMain, Progress, TLAPS

(***************************************************************************)
(* The inductive invariant.                                                *)
(***************************************************************************)

\* What rank r compresses, or reads where it does not compress.
Own(r) == [b \in Buffers |-> Data(r, b)]

Kinds == {"compressed", "decompressed"}

\* The types, with that of files, which TypeOK leaves open.
RanksOK ==
  /\ settings \in [Ranks -> [Keys -> Settings]]
  /\ compressed \in [Ranks -> Stored]
  /\ decompressed \in [Ranks -> Stored]
  /\ written \in [Ranks -> 0..(NumBuffers - 1)]
  /\ sent \in Stored

ConfigOK ==
  /\ config.kind \in {"missing", "truncated", "saved"}
  /\ DOMAIN config.values \subseteq Keys
  /\ \A k \in DOMAIN config.values : config.values[k] \in Settings

FilesOK == files \in [Kinds -> [Buffers -> {Nothing} \cup AllData]]

TypeInv ==
  /\ job \in 1..Len(Jobs)
  /\ pc \in [Ranks -> Steps]
  /\ RanksOK
  /\ ConfigOK
  /\ FilesOK

\* At the steps that use its data a rank has them: its own until the broadcast,
\* those of rank 0 after it.
DataAt(r) ==
  /\ pc[r] \in {"open_compressed", "write_compressed", "bcast"} => compressed[r] = Own(r)
  /\ pc[r] = "decompress" => compressed[r] = Own(0)
  /\ pc[r] \in {"open_decompressed", "write_decompressed"} => decompressed[r] = Own(0)
  /\ decompressed[r] \in {Nothing, Own(0)}

DataInv ==
  /\ sent \in {Nothing, Own(0)}
  /\ \A r \in Ranks : DataAt(r)

\* The steps after the loop that writes the files of a kind.
After ==
  [compressed   |-> {"bcast", "decompress", "open_decompressed", "write_decompressed",
                     "metrics", "finalize", "done"},
   decompressed |-> {"metrics", "finalize", "done"}]

\* Rank r has been through the writing of file b.
HasWritten(r, kind, b) ==
  \/ pc[r] \in {OpenStep[kind], WriteStep[kind]} /\ b <= written[r]
  \/ pc[r] \in After[kind]

Writing(r, kind, b) == pc[r] = WriteStep[kind] /\ b = written[r] + 1

Loop == {"open_compressed", "write_compressed", "open_decompressed", "write_decompressed"}

\* Each loop starts with the first file.
CountInv == \A r \in Ranks : pc[r] \notin Loop \cup {"exited", "killed"} => written[r] = 0

\* What a file holds when it is whole.
Good(kind, b) == IF kind = "compressed" THEN {Data(r, b) : r \in Ranks} ELSE {Data(0, b)}

SomeoneGone == \E r \in Ranks : pc[r] \in {"exited", "killed"}

\* A file that some rank has written is whole, unless another is about to write it.
FileInv(kind, b) ==
  \/ files[kind][b] \in Good(kind, b)
  \/ \E r \in Ranks : Writing(r, kind, b)
  \/ \A r \in Ranks : ~ HasWritten(r, kind, b)

ActionOf == [compressed |-> "compress", decompressed |-> "decompress"]

\* The same of the configuration.
Saved(j) == [kind |-> "saved", values |-> SavedBy(j)]

BeforeSaved == {"parse", "setup", "load", "early", "options", "save"}

ConfigFileInv ==
  \/ config = Saved(job)
  \/ \E r \in Ranks : pc[r] = "saving"
  \/ \A r \in Ranks : pc[r] \in BeforeSaved

WritesInv ==
  \A kind \in Kinds : Asked(ActionOf[kind]) => \A b \in Buffers : FileInv(kind, b)

FilesInv == SomeoneGone \/ (WritesInv /\ (Asked("save") /\ CanSave => ConfigFileInv))

\* A saved configuration is that of one job.
ConfigInv ==
  config.kind = "saved" => \E j \in Savers : config.values = SavedBy(j)

\* What a rank may have loaded.
Loads == IF Asked("load") THEN {SavedBy(j) : j \in Savers} ELSE {<<>>}

AfterSettings == Steps \ {"parse", "setup", "load", "early", "options", "finalize", "done", "exited", "killed"}

\* The settings of a rank on their way through setup_compressor.
Unset == [k \in Keys |-> Default]
WithEarly(s) == Override(s, SetOf(Jobs[job].early, "early"))
WithOptions(s) == Override(s, SetOf(Jobs[job].options, "option"))

SettingsAt(r) ==
  /\ pc[r] \in {"parse", "setup", "load"} => settings[r] = Unset
  /\ pc[r] = "load" => Asked("load")
  /\ pc[r] \in {"save", "saving"} => Asked("save")
  /\ pc[r] = "early" => \E s \in Loads : settings[r] = Override(Unset, s)
  /\ pc[r] = "options" => \E s \in Loads : settings[r] = WithEarly(Override(Unset, s))
  /\ pc[r] \in AfterSettings =>
       \E s \in Loads : settings[r] = WithOptions(WithEarly(Override(Unset, s)))

SettingsInv == \A r \in Ranks : SettingsAt(r)

IInv == TypeInv /\ DataInv /\ CountInv /\ FilesInv /\ ConfigInv /\ SettingsInv

-----------------------------------------------------------------------------
(***************************************************************************)
(* Facts about the data.                                                   *)
(***************************************************************************)

\* Rank 0 exists and there is a first buffer.
LEMMA Sizes == 0 \in Ranks /\ 1 \in Buffers /\ Ranks \subseteq Nat /\ Buffers \subseteq Nat
BY NumRanksAssumption, NumBuffersAssumption DEF Ranks, Buffers

LEMMA NumJobs == Len(Jobs) \in Nat /\ 1 \in 1..Len(Jobs)
BY JobsAssumption

LEMMA ElementType ==
  ASSUME NEW S, NEW s \in Seq(S), NEW i \in 1..Len(s)
  PROVE  s[i] \in S
OBVIOUS

\* The command line of a job.
LEMMA JobFacts ==
  ASSUME NEW j \in 1..Len(Jobs)
  PROVE  /\ Jobs[j].early \subseteq Keys
         /\ Jobs[j].options \subseteq Keys
         /\ DOMAIN SavedBy(j) = Jobs[j].early \cup Jobs[j].options
         /\ \A k \in DOMAIN SavedBy(j) : SavedBy(j)[k] \in Settings
<1>1. Jobs[j] \in [actions : SUBSET STRING, early : SUBSET Keys, options : SUBSET Keys]
  BY JobsAssumption, ElementType
<1>. QED  BY <1>1 DEF SavedBy, Settings

LEMMA OutIsSaved == Out = SavedBy(job)
BY DEF Out, SavedBy

LEMMA StartFacts ==
  /\ Start.pc = [r \in Ranks |-> "parse"]
  /\ Start.settings = [r \in Ranks |-> Unset]
  /\ Start.compressed = [r \in Ranks |-> Nothing]
  /\ Start.decompressed = [r \in Ranks |-> Nothing]
  /\ Start.written = [r \in Ranks |-> 0]
BY DEF Start, Unset

LEMMA OwnType ==
  ASSUME job \in 1..Len(Jobs), NEW r \in Ranks
  PROVE  Own(r) \in [Buffers -> AllData] /\ \A b \in Buffers : Own(r)[b] = Data(r, b)
BY DEF Own, Data, AllData

\* The steps that open and write the files of a kind.
LEMMA KindSteps ==
  ASSUME NEW kind \in Kinds
  PROVE  \/ /\ kind = "compressed"
            /\ OpenStep[kind] = "open_compressed"
            /\ WriteStep[kind] = "write_compressed"
         \/ /\ kind = "decompressed"
            /\ OpenStep[kind] = "open_decompressed"
            /\ WriteStep[kind] = "write_decompressed"
<1>1. CASE kind = "compressed"
  BY <1>1 DEF OpenStep, WriteStep
<1>2. CASE kind = "decompressed"
  BY <1>2 DEF OpenStep, WriteStep
<1>. QED  BY <1>1, <1>2 DEF Kinds

LEMMA KindAfter ==
  ASSUME NEW kind \in Kinds
  PROVE  \/ /\ kind = "compressed"
            /\ After[kind] = {"bcast", "decompress", "open_decompressed", "write_decompressed",
                              "metrics", "finalize", "done"}
         \/ /\ kind = "decompressed"
            /\ After[kind] = {"metrics", "finalize", "done"}
<1>1. CASE kind = "compressed"
  BY <1>1 DEF After
<1>2. CASE kind = "decompressed"
  BY <1>2 DEF After
<1>. QED  BY <1>1, <1>2 DEF Kinds

\* They are steps of the loop of the kind, and not after it.
LEMMA LoopSteps ==
  ASSUME NEW kind \in Kinds
  PROVE  /\ {OpenStep[kind], WriteStep[kind]} \subseteq Loop
         /\ OpenStep[kind] \notin After[kind]
         /\ WriteStep[kind] \notin After[kind]
BY KindSteps, KindAfter DEF Loop

-----------------------------------------------------------------------------
(***************************************************************************)
(* Type correctness.                                                       *)
(***************************************************************************)
LEMMA TypeInvIsStronger == TypeInv => TypeOK
BY DEF TypeInv, TypeOK, RanksOK, ConfigOK, FilesOK, Kinds

LEMMA InitType == Init => TypeInv /\ DataInv
<1> SUFFICES ASSUME Init PROVE TypeInv /\ DataInv
  OBVIOUS
<1>1. 1 \in 1..Len(Jobs)
  BY NumJobs
<1>2. TypeInv
  BY <1>1, Sizes, NumBuffersAssumption
     DEF Init, Start, TypeInv, RanksOK, ConfigOK, FilesOK, Steps, Settings, Stored, Kinds
<1>3. DataInv
  BY DEF Init, Start, DataInv, DataAt
<1>. QED  BY <1>2, <1>3

\* A step of a rank keeps the job and the step of every other rank.
LEMMA RankMoves ==
  ASSUME pc \in [Ranks -> Steps], NEW r \in Ranks, RankNext(r) \/ Fails(r)
  PROVE  /\ job' = job
         /\ pc' \in [Ranks -> Steps]
         /\ \A q \in Ranks \ {r} : pc'[q] = pc[q]
<1>1. CASE Fails(r)
  BY <1>1 DEF Fails, Go, Steps
<1>2. CASE Parse(r) \/ GetCompressor(r) \/ CheckOptions(r) \/ PrintMetrics(r)
  BY <1>2 DEF Parse, GetCompressor, CheckOptions, PrintMetrics, Go, Steps
<1>3. CASE LoadConfig(r) \/ SetEarly(r) \/ SetOptions(r)
  BY <1>3 DEF LoadConfig, SetEarly, SetOptions, Go, Steps
<1>4. CASE OpenConfig(r) \/ WriteConfig(r)
  BY <1>4 DEF OpenConfig, WriteConfig, Go, Steps
<1>5. CASE PrintSettings(r) \/ Compress(r)
  BY <1>5 DEF PrintSettings, Compress, Go, Steps
<1>6. ASSUME NEW kind \in Kinds, OpenFile(r, kind)
      PROVE  /\ job' = job
             /\ pc' \in [Ranks -> Steps]
             /\ \A q \in Ranks \ {r} : pc'[q] = pc[q]
  BY <1>6, KindSteps DEF OpenFile, Go, Steps
<1>7. CASE WriteCompressed(r)
  BY <1>7 DEF WriteCompressed, WriteFile, OpenStep, Go, Steps
<1>8. CASE WriteDecompressed(r)
  BY <1>8 DEF WriteDecompressed, WriteFile, OpenStep, Go, Steps
<1>9. CASE (r = 0 /\ Send) \/ Receive(r) \/ Decompress(r)
  BY <1>9 DEF Send, Receive, Decompress, Go, Steps
<1>. QED
  BY <1>1, <1>2, <1>3, <1>4, <1>5, <1>6, <1>7, <1>8, <1>9 DEF RankNext, Kinds

\* Every step keeps the types; what is written to the files is data by DataInv.
LEMMA NextType == TypeInv /\ DataInv /\ [Next]_vars => TypeInv'
<1> SUFFICES ASSUME TypeInv, DataInv, [Next]_vars PROVE TypeInv'
  OBVIOUS
<1> USE DEF TypeInv
<1>1. ASSUME NEW r \in Ranks, RankNext(r) PROVE TypeInv'
  <2>1. job' \in 1..Len(Jobs) /\ pc' \in [Ranks -> Steps]
    BY <1>1, RankMoves
  <2>2. ASSUME UNCHANGED <<ranks, config, files>> PROVE TypeInv'
    BY <2>1, <2>2 DEF ranks, RanksOK, ConfigOK, FilesOK
  <2>3. CASE LoadConfig(r) \/ SetEarly(r) \/ SetOptions(r)
    <3>1. settings' \in [Ranks -> [Keys -> Settings]]
      BY <2>3 DEF LoadConfig, SetEarly, SetOptions, Override, SetOf, Settings, RanksOK, ConfigOK
    <3>. QED
      BY <2>1, <2>3, <3>1 DEF LoadConfig, SetEarly, SetOptions, RanksOK, ConfigOK, FilesOK
  <2>4. CASE OpenConfig(r) \/ WriteConfig(r)
    <3>1. ConfigOK'
      <4>1. DOMAIN Out \subseteq Keys /\ \A k \in DOMAIN Out : Out[k] \in Settings
        BY JobFacts, OutIsSaved
      <4>2. CASE WriteConfig(r)
        BY <4>1, <4>2 DEF WriteConfig, ConfigOK
      <4>3. CASE OpenConfig(r)
        BY <4>3 DEF OpenConfig, Truncated, ConfigOK
      <4>. QED  BY <2>4, <4>2, <4>3
    <3>. QED
      BY <2>1, <2>4, <3>1 DEF OpenConfig, WriteConfig, ranks, RanksOK, FilesOK
  <2>5. CASE PrintSettings(r) \/ Compress(r)
    <3>1. [b \in Buffers |-> Data(r, b)] \in Stored
      BY OwnType DEF Own, Stored
    <3>2. compressed' \in [Ranks -> Stored]
      BY <2>5, <3>1 DEF PrintSettings, Compress, RanksOK
    <3>. QED
      BY <2>1, <2>5, <3>2 DEF PrintSettings, Compress, RanksOK, ConfigOK, FilesOK
  <2>6. ASSUME NEW kind \in Kinds, OpenFile(r, kind) PROVE TypeInv'
    <3>1. FilesOK'
      BY <2>6 DEF OpenFile, FilesOK
    <3>. QED
      BY <2>1, <2>6, <3>1 DEF OpenFile, ranks, RanksOK, ConfigOK
  <2>7. ASSUME NEW kind \in Kinds, NEW then, NEW data \in [Buffers -> AllData],
               WriteFile(r, kind, data, then)
        PROVE  TypeInv'
    <3>1. written[r] \in 0..(NumBuffers - 1) /\ written[r] + 1 \in Buffers
      BY NumBuffersAssumption DEF RanksOK, Buffers
    <3>2. FilesOK'
      BY <2>7, <3>1 DEF WriteFile, FilesOK
    <3>3. written' \in [Ranks -> 0..(NumBuffers - 1)]
      <4>1. CASE LastFile(written[r] + 1)
        <5>1. 0 \in 0..(NumBuffers - 1)
          BY NumBuffersAssumption
        <5>. QED  BY <2>7, <4>1, <5>1 DEF WriteFile, RanksOK
      <4>2. CASE ~ LastFile(written[r] + 1)
        <5>1. written[r] + 1 \in 0..(NumBuffers - 1)
          BY <3>1, <4>2, NumBuffersAssumption DEF LastFile
        <5>. QED  BY <2>7, <4>2, <5>1 DEF WriteFile, RanksOK
      <4>. QED  BY <4>1, <4>2
    <3>. QED
      BY <2>1, <2>7, <3>2, <3>3 DEF WriteFile, RanksOK, ConfigOK
  <2>8. CASE WriteCompressed(r)
    <3>1. compressed[r] \in [Buffers -> AllData]
      BY <2>8, OwnType DEF WriteCompressed, WriteFile, WriteStep, DataInv, DataAt
    <3>. QED  BY <2>7, <2>8, <3>1 DEF WriteCompressed, Kinds
  <2>9. CASE WriteDecompressed(r)
    <3>1. decompressed[r] \in [Buffers -> AllData]
      BY <2>9, OwnType, Sizes DEF WriteDecompressed, WriteFile, WriteStep, DataInv, DataAt
    <3>. QED  BY <2>7, <2>9, <3>1 DEF WriteDecompressed, Kinds
  <2>10. CASE (r = 0 /\ Send) \/ Receive(r) \/ Decompress(r)
    <3>1. RanksOK'
      BY <2>10, Sizes DEF Send, Receive, Decompress, RanksOK
    <3>. QED  BY <2>1, <2>10, <3>1 DEF Send, Receive, Decompress, ConfigOK, FilesOK
  <2>. QED
    BY <1>1, <2>2, <2>3, <2>4, <2>5, <2>6, <2>8, <2>9, <2>10
    DEF RankNext, Kinds, Parse, GetCompressor, CheckOptions, PrintMetrics
<1>2. ASSUME NEW r \in Ranks, Fails(r) PROVE TypeInv'
  BY <1>2, RankMoves DEF Fails, ranks, RanksOK, ConfigOK, FilesOK
<1>3. CASE Finalize \/ Kill
  BY <1>3 DEF Finalize, Kill, Steps, ranks, RanksOK, ConfigOK, FilesOK
<1>4. CASE NextJob
  <2>1. job' \in 1..Len(Jobs) /\ pc' \in [Ranks -> Steps]
    <3>1. job' \in 1..Len(Jobs)
      BY <1>4, NumJobs DEF NextJob
    <3>2. pc' = [r \in Ranks |-> "parse"]
      BY <1>4, StartFacts DEF NextJob
    <3>. QED  BY <3>1, <3>2 DEF Steps
  <2>2. RanksOK'
    <3>1. Default \in Settings /\ Nothing \in Stored /\ 0 \in 0..(NumBuffers - 1)
      BY NumBuffersAssumption DEF Settings, Stored
    <3>2. /\ settings' = [r \in Ranks |-> Unset]
          /\ compressed' = [r \in Ranks |-> Nothing]
          /\ decompressed' = [r \in Ranks |-> Nothing]
          /\ written' = [r \in Ranks |-> 0]
          /\ sent' = Nothing
      BY <1>4, StartFacts DEF NextJob
    <3>. QED  BY <3>1, <3>2 DEF RanksOK, Unset
  <2>. QED  BY <1>4, <2>1, <2>2 DEF NextJob, ConfigOK, FilesOK
<1>5. CASE UNCHANGED vars
  BY <1>5 DEF vars, ranks, RanksOK, ConfigOK, FilesOK
<1>. QED
  BY <1>1, <1>2, <1>3, <1>4, <1>5 DEF Next, JobNext

\* Data belongs to a job.
LEMMA OwnKept ==
  ASSUME job' = job, NEW r
  PROVE  Own(r)' = Own(r)
BY DEF Own, Data

\* Every step keeps DataInv: a rank only ever takes its own data or the broadcast.
LEMMA NextData == TypeInv /\ DataInv /\ [Next]_vars => DataInv'
<1> SUFFICES ASSUME TypeInv, DataInv, [Next]_vars PROVE DataInv'
  OBVIOUS
<1>1. /\ pc \in [Ranks -> Steps]
      /\ compressed \in [Ranks -> Stored]
      /\ decompressed \in [Ranks -> Stored]
  BY DEF TypeInv, RanksOK
<1>2. ASSUME NEW r \in Ranks, RankNext(r) PROVE DataInv'
  <2>1. /\ \A q : Own(q)' = Own(q)
        /\ pc' \in [Ranks -> Steps]
        /\ \A q \in Ranks \ {r} : pc'[q] = pc[q]
    BY <1>1, <1>2, RankMoves, OwnKept
  <2>2. ASSUME DataAt(r)',
               \A q \in Ranks \ {r} : compressed'[q] = compressed[q] /\ decompressed'[q] = decompressed[q],
               sent' \in {Nothing, Own(0)}
        PROVE  DataInv'
    BY <2>1, <2>2 DEF DataInv, DataAt
  <2>3. CASE Parse(r) \/ GetCompressor(r) \/ LoadConfig(r) \/ SetEarly(r) \/ SetOptions(r)
               \/ OpenConfig(r) \/ WriteConfig(r) \/ CheckOptions(r) \/ PrintMetrics(r)
    <3>1. /\ UNCHANGED <<compressed, decompressed, sent>>
          /\ pc'[r] \in {"setup", "load", "early", "options", "save", "saving", "check", "print",
                         "finalize", "exited"}
      BY <1>1, <2>3 DEF Parse, GetCompressor, LoadConfig, SetEarly, SetOptions, OpenConfig,
           WriteConfig, CheckOptions, PrintMetrics, Go, ranks
    <3>. QED  BY <2>1, <3>1 DEF DataInv, DataAt
  <2>4. CASE PrintSettings(r) \/ Compress(r)
    <3>1. /\ UNCHANGED <<decompressed, sent>>
          /\ \A q \in Ranks \ {r} : compressed'[q] = compressed[q]
      BY <1>1, <2>4 DEF PrintSettings, Compress
    <3>2. \/ pc'[r] \in {"compress", "metrics"}
          \/ pc'[r] \in {"bcast", "open_compressed"} /\ compressed'[r] = Own(r)
      BY <1>1, <2>4 DEF PrintSettings, Compress, Go, Own
    <3>3. DataAt(r)'
      BY <2>1, <3>1, <3>2 DEF DataInv, DataAt
    <3>. QED  BY <2>2, <3>1, <3>3 DEF DataInv
  <2>5. ASSUME NEW kind \in Kinds, OpenFile(r, kind) PROVE DataInv'
    <3>1. UNCHANGED <<compressed, decompressed, sent>>
      BY <2>5 DEF OpenFile, ranks
    <3>2. pc[r] = OpenStep[kind] /\ pc'[r] = WriteStep[kind]
      BY <1>1, <2>5 DEF OpenFile, Go
    <3>3. DataAt(r)'
      BY <2>1, <3>1, <3>2, KindSteps DEF DataInv, DataAt
    <3>. QED  BY <2>2, <3>1, <3>3 DEF DataInv
  <2>6. CASE WriteCompressed(r)
    <3>1. /\ UNCHANGED <<compressed, decompressed, sent>>
          /\ pc[r] = "write_compressed"
          /\ pc'[r] \in {"open_compressed", "bcast", "metrics"}
      BY <1>1, <2>6 DEF WriteCompressed, WriteFile, OpenStep, WriteStep, Go
    <3>. QED  BY <2>1, <3>1 DEF DataInv, DataAt
  <2>7. CASE WriteDecompressed(r)
    <3>1. /\ UNCHANGED <<compressed, decompressed, sent>>
          /\ pc[r] = "write_decompressed"
          /\ pc'[r] \in {"open_decompressed", "metrics"}
      BY <1>1, <2>7 DEF WriteDecompressed, WriteFile, OpenStep, WriteStep, Go
    <3>. QED  BY <2>1, <3>1 DEF DataInv, DataAt
  <2>8. CASE r = 0 /\ Send
    <3>1. /\ UNCHANGED <<compressed, decompressed>>
          /\ pc[0] = "bcast" /\ pc'[0] = "decompress"
          /\ sent' = compressed[0]
      BY <1>1, <2>8, Sizes DEF Send, Go
    <3>2. compressed[0] = Own(0)
      BY <3>1, Sizes DEF DataInv, DataAt
    <3>. QED  BY <2>1, <2>8, <3>1, <3>2 DEF DataInv, DataAt
  <2>9. CASE Receive(r)
    <3>1. /\ UNCHANGED <<decompressed, sent>>
          /\ pc'[r] = "decompress" /\ compressed'[r] = Own(0)
          /\ \A q \in Ranks \ {r} : compressed'[q] = compressed[q]
      BY <1>1, <2>9 DEF Receive, Go, DataInv
    <3>2. DataAt(r)'
      BY <2>1, <3>1 DEF DataInv, DataAt
    <3>. QED  BY <2>2, <3>1, <3>2 DEF DataInv
  <2>10. CASE Decompress(r)
    <3>1. /\ UNCHANGED <<compressed, sent>>
          /\ pc[r] = "decompress" /\ pc'[r] = "open_decompressed"
          /\ decompressed'[r] = compressed[r]
          /\ \A q \in Ranks \ {r} : decompressed'[q] = decompressed[q]
      BY <1>1, <2>10 DEF Decompress, Go
    <3>2. DataAt(r)'
      BY <2>1, <3>1 DEF DataInv, DataAt
    <3>. QED  BY <2>2, <3>1, <3>2 DEF DataInv
  <2>. QED
    BY <1>2, <2>3, <2>4, <2>5, <2>6, <2>7, <2>8, <2>9, <2>10 DEF RankNext, Kinds
<1>3. ASSUME NEW r \in Ranks, Fails(r) PROVE DataInv'
  <2>1. /\ \A q : Own(q)' = Own(q)
        /\ \A q \in Ranks \ {r} : pc'[q] = pc[q]
    BY <1>1, <1>3, RankMoves, OwnKept
  <2>2. pc'[r] = "exited" /\ UNCHANGED <<compressed, decompressed, sent>>
    BY <1>1, <1>3 DEF Fails, Go, ranks
  <2>. QED  BY <2>1, <2>2 DEF DataInv, DataAt
<1>4. CASE Finalize \/ Kill
  <2>1. /\ UNCHANGED <<compressed, decompressed, sent>>
        /\ \A q \in Ranks : pc'[q] \in {"done", "exited", "killed"}
        /\ job' = job
    BY <1>4 DEF Finalize, Kill, ranks
  <2>. QED  BY <2>1, OwnKept DEF DataInv, DataAt
<1>5. CASE NextJob
  BY <1>5, StartFacts DEF NextJob, DataInv, DataAt
<1>6. CASE UNCHANGED vars
  BY <1>6, OwnKept DEF vars, ranks, DataInv, DataAt
<1>. QED
  BY <1>2, <1>3, <1>4, <1>5, <1>6 DEF Next, JobNext

\* Every step keeps CountInv.
LEMMA NextCount == TypeInv /\ CountInv /\ [Next]_vars => CountInv'
<1> SUFFICES ASSUME TypeInv, CountInv, [Next]_vars PROVE CountInv'
  OBVIOUS
<1>1. /\ pc \in [Ranks -> Steps]
      /\ written \in [Ranks -> 0..(NumBuffers - 1)]
  BY DEF TypeInv, RanksOK
<1>2. ASSUME NEW r \in Ranks, RankNext(r) PROVE CountInv'
  <2>1. \A q \in Ranks \ {r} : pc'[q] = pc[q]
    BY <1>1, <1>2, RankMoves
  <2>2. ASSUME UNCHANGED written, pc[r] \notin Loop \cup {"exited", "killed"}
        PROVE  CountInv'
    BY <2>1, <2>2 DEF CountInv
  <2>3. CASE Parse(r) \/ GetCompressor(r) \/ LoadConfig(r) \/ SetEarly(r) \/ SetOptions(r)
               \/ OpenConfig(r) \/ WriteConfig(r) \/ CheckOptions(r) \/ PrintMetrics(r)
    BY <2>2, <2>3 DEF Parse, GetCompressor, LoadConfig, SetEarly, SetOptions, OpenConfig,
       WriteConfig, CheckOptions, PrintMetrics, ranks, Loop
  <2>4. CASE PrintSettings(r) \/ Compress(r) \/ (r = 0 /\ Send) \/ Receive(r) \/ Decompress(r)
    BY <2>2, <2>4 DEF PrintSettings, Compress, Send, Receive, Decompress, ranks, Loop
  <2>5. ASSUME NEW kind \in Kinds, OpenFile(r, kind) PROVE CountInv'
    <3>1. UNCHANGED written /\ pc'[r] = WriteStep[kind]
      BY <1>1, <2>5 DEF OpenFile, Go, ranks
    <3>. QED  BY <2>1, <3>1, KindSteps DEF CountInv, Loop
  <2>6. ASSUME NEW kind \in Kinds, NEW data, NEW then, WriteFile(r, kind, data, then)
        PROVE  CountInv'
    <3>1. \A q \in Ranks \ {r} : written'[q] = written[q]
      BY <1>1, <2>6 DEF WriteFile
    <3>2. pc'[r] = OpenStep[kind] \/ written'[r] = 0
      BY <1>1, <2>6 DEF WriteFile, Go
    <3>. QED  BY <2>1, <3>1, <3>2, KindSteps DEF CountInv, Loop
  <2>. QED
    BY <1>2, <2>3, <2>4, <2>5, <2>6 DEF RankNext, WriteCompressed, WriteDecompressed, Kinds
<1>3. ASSUME NEW r \in Ranks, Fails(r) PROVE CountInv'
  <2>1. pc'[r] = "exited" /\ UNCHANGED written /\ \A q \in Ranks \ {r} : pc'[q] = pc[q]
    BY <1>1, <1>3 DEF Fails, Go, ranks
  <2>. QED  BY <2>1 DEF CountInv
<1>4. CASE Finalize
  BY <1>4 DEF Finalize, ranks, CountInv, Loop
<1>5. CASE Kill
  BY <1>5 DEF Kill, CountInv
<1>6. CASE NextJob
  BY <1>6, StartFacts DEF NextJob, CountInv
<1>7. CASE UNCHANGED vars
  BY <1>7 DEF vars, ranks, CountInv
<1>. QED
  BY <1>2, <1>3, <1>4, <1>5, <1>6, <1>7 DEF Next, JobNext

\* The two ways in which a step keeps a file whole: it writes the file, or it
\* leaves it and takes nobody past the file.
LEMMA FileKept ==
  ASSUME NEW kind, NEW b, FileInv(kind, b), job' = job,
         files'[kind][b] = files[kind][b],
         \A q \in Ranks : /\ Writing(q, kind, b) => Writing(q, kind, b)'
                          /\ HasWritten(q, kind, b)' => HasWritten(q, kind, b)
  PROVE  FileInv(kind, b)'
BY DEF FileInv, Good, Data

LEMMA FileWritten ==
  ASSUME job' = job, NEW kind, NEW b, files'[kind][b] \in Good(kind, b)
  PROVE  FileInv(kind, b)'
BY DEF FileInv, Good, Data

\* A step of rank r that does not write file b of a kind, and takes it into the
\* loop of the kind, one step further there, or from one place to another before
\* or after the loop.
LEMMA FileLeft ==
  ASSUME TypeInv, CountInv, NEW kind \in Kinds, NEW b \in Buffers, FileInv(kind, b),
         NEW r \in Ranks, job' = job, files'[kind][b] = files[kind][b],
         \A q \in Ranks \ {r} : pc'[q] = pc[q] /\ written'[q] = written[q],
         pc[r] # WriteStep[kind],
         \/ pc[r] \in After[kind]
         \/ pc'[r] = WriteStep[kind] /\ pc[r] = OpenStep[kind] /\ written'[r] = written[r]
         \/ pc'[r] = OpenStep[kind] /\ pc[r] \notin Loop \cup {"exited", "killed"} /\ written'[r] = written[r]
         \/ pc'[r] # OpenStep[kind] /\ pc'[r] # WriteStep[kind] /\ pc'[r] \notin After[kind]
  PROVE  FileInv(kind, b)'
<1>1. b \in Nat \ {0} /\ written[r] \in Nat
  BY Sizes DEF TypeInv, RanksOK, Buffers
<1>2. pc[r] \notin Loop \cup {"exited", "killed"} => written[r] = 0
  BY DEF CountInv
<1>3. HasWritten(r, kind, b)' => HasWritten(r, kind, b)
  <2>1. CASE pc[r] \in After[kind]
    BY <2>1 DEF HasWritten
  <2>2. CASE pc'[r] = WriteStep[kind] /\ pc[r] = OpenStep[kind] /\ written'[r] = written[r]
    BY <2>2, LoopSteps DEF HasWritten
  <2>3. CASE /\ pc'[r] = OpenStep[kind] /\ pc[r] \notin Loop \cup {"exited", "killed"}
             /\ written'[r] = written[r]
    <3>1. ~ (b <= written'[r])
      BY <1>1, <1>2, <2>3
    <3>. QED  BY <2>3, <3>1, LoopSteps DEF HasWritten
  <2>4. CASE pc'[r] # OpenStep[kind] /\ pc'[r] # WriteStep[kind] /\ pc'[r] \notin After[kind]
    BY <2>4 DEF HasWritten
  <2>. QED  BY <2>1, <2>2, <2>3, <2>4
<1>4. \A q \in Ranks : /\ Writing(q, kind, b) => Writing(q, kind, b)'
                       /\ HasWritten(q, kind, b)' => HasWritten(q, kind, b)
  BY <1>3 DEF Writing, HasWritten
<1>. QED  BY <1>4, FileKept

\* A step of a rank keeps every file whole.
LEMMA NextFile ==
  ASSUME TypeInv, DataInv, CountInv, NEW kind \in Kinds, Asked(ActionOf[kind]),
         NEW b \in Buffers, FileInv(kind, b), NEW r \in Ranks, RankNext(r)
  PROVE  FileInv(kind, b)'
<1>1. /\ pc \in [Ranks -> Steps]
      /\ written \in [Ranks -> 0..(NumBuffers - 1)]
      /\ files \in [Kinds -> [Buffers -> {Nothing} \cup AllData]]
  BY DEF TypeInv, RanksOK, FilesOK
<1>2. /\ job' = job
      /\ pc' \in [Ranks -> Steps]
      /\ \A q \in Ranks \ {r} : pc'[q] = pc[q]
  BY <1>1, RankMoves
<1>3. \/ kind = "compressed" /\ Asked("compress")
      \/ kind = "decompressed" /\ Asked("decompress")
  BY DEF Kinds, ActionOf
<1>4. ASSUME UNCHANGED <<files, written>>,
             pc[r] \in {"parse", "setup", "load", "early", "options", "save", "saving", "check",
                        "print", "compress"},
             \/ pc'[r] \in {"setup", "load", "early", "options", "save", "saving", "check", "print",
                            "compress", "exited"}
             \/ kind = "decompressed" /\ pc'[r] \in {"bcast", "open_compressed"}
             \/ kind = "compressed" /\ pc'[r] = "open_compressed"
      PROVE  FileInv(kind, b)'
  <2>1. pc[r] # WriteStep[kind]
    BY <1>4, KindSteps
  <2>2. CASE kind = "compressed" /\ pc'[r] = "open_compressed"
    <3>1. pc'[r] = OpenStep[kind] /\ pc[r] \notin Loop \cup {"exited", "killed"}
      BY <1>4, <2>2, KindSteps DEF Loop
    <3>. QED  BY <1>2, <1>4, <2>1, <3>1, FileLeft
  <2>3. CASE ~ (kind = "compressed" /\ pc'[r] = "open_compressed")
    <3>1. pc'[r] # OpenStep[kind] /\ pc'[r] # WriteStep[kind]
      BY <1>4, <2>3, KindSteps
    <3>2. pc'[r] \notin After[kind]
      BY <1>4, <2>3, KindAfter
    <3>. QED  BY <1>2, <1>4, <2>1, <3>1, <3>2, FileLeft
  <2>. QED  BY <2>2, <2>3
<1>5. CASE Parse(r) \/ GetCompressor(r) \/ LoadConfig(r) \/ SetEarly(r) \/ SetOptions(r)
             \/ OpenConfig(r) \/ WriteConfig(r) \/ CheckOptions(r)
  <2>1. NeedsCompressor
    BY <1>3 DEF NeedsCompressor, Asked
  <2>2. /\ UNCHANGED <<files, written>>
        /\ pc[r] \in {"parse", "setup", "load", "early", "options", "save", "saving", "check"}
    BY <1>5 DEF Parse, GetCompressor, LoadConfig, SetEarly, SetOptions, OpenConfig, WriteConfig,
       CheckOptions, ranks
  <2>3. pc'[r] \in {"setup", "load", "early", "options", "save", "saving", "check", "print", "exited"}
    <3>1. CASE Parse(r)
      BY <1>1, <2>1, <3>1 DEF Parse, Go
    <3>2. CASE GetCompressor(r) \/ LoadConfig(r) \/ SetEarly(r) \/ SetOptions(r)
      BY <1>1, <3>2 DEF GetCompressor, LoadConfig, SetEarly, SetOptions, Go
    <3>3. CASE OpenConfig(r) \/ WriteConfig(r) \/ CheckOptions(r)
      BY <1>1, <3>3 DEF OpenConfig, WriteConfig, CheckOptions, Go
    <3>. QED  BY <1>5, <3>1, <3>2, <3>3
  <2>. QED  BY <1>4, <2>2, <2>3
<1>6. CASE PrintSettings(r) \/ Compress(r)
  <2>1. UNCHANGED <<files, written>> /\ pc[r] \in {"print", "compress"}
    BY <1>6 DEF PrintSettings, Compress
  <2>2. \/ pc'[r] = "compress"
        \/ kind = "decompressed" /\ pc'[r] \in {"bcast", "open_compressed"}
        \/ kind = "compressed" /\ pc'[r] = "open_compressed"
    BY <1>1, <1>3, <1>6 DEF PrintSettings, Compress, Go
  <2>. QED  BY <1>4, <2>1, <2>2
<1>7. CASE (r = 0 /\ Send) \/ Receive(r) \/ Decompress(r) \/ PrintMetrics(r)
  <2>1. UNCHANGED <<files, written>> /\ pc[r] \in {"bcast", "decompress", "metrics"}
    BY <1>7 DEF Send, Receive, Decompress, PrintMetrics, ranks
  <2>2. \/ pc[r] = "bcast" /\ pc'[r] = "decompress"
        \/ pc[r] = "decompress" /\ pc'[r] = "open_decompressed"
        \/ pc[r] = "metrics" /\ pc'[r] = "finalize"
    BY <1>1, <1>7, Sizes DEF Send, Receive, Decompress, PrintMetrics, Go
  <2>3. pc[r] # WriteStep[kind]
    BY <2>1, KindSteps
  <2>4. CASE pc[r] \in After[kind]
    BY <1>2, <2>1, <2>3, <2>4, FileLeft
  <2>5. CASE pc[r] \notin After[kind]
    <3>1. kind = "decompressed" /\ pc[r] \in {"bcast", "decompress"}
      BY <2>1, <2>5, KindAfter
    <3>2. CASE pc[r] = "decompress"
      <4>1. pc'[r] = OpenStep[kind] /\ pc[r] \notin Loop \cup {"exited", "killed"}
        BY <2>2, <3>1, <3>2, KindSteps DEF Loop
      <4>. QED  BY <1>2, <2>1, <2>3, <4>1, FileLeft
    <3>3. CASE pc[r] = "bcast"
      <4>1. pc'[r] # OpenStep[kind] /\ pc'[r] # WriteStep[kind]
        BY <2>2, <3>1, <3>3, KindSteps
      <4>2. pc'[r] \notin After[kind]
        BY <2>2, <3>1, <3>3, KindAfter
      <4>. QED  BY <1>2, <2>1, <2>3, <4>1, <4>2, FileLeft
    <3>. QED  BY <3>1, <3>2, <3>3
  <2>. QED  BY <2>4, <2>5
\* Around the files of the other kind: compressed files are written first.
<1>8. ASSUME NEW other \in Kinds \ {kind},
             pc[r] \in {OpenStep[other], WriteStep[other]},
             \/ pc'[r] \in {OpenStep[other], WriteStep[other]}
             \/ kind = "compressed"
             \/ pc'[r] = "bcast",
             files'[kind] = files[kind],
             \A q \in Ranks \ {r} : written'[q] = written[q]
      PROVE  FileInv(kind, b)'
  <2>1. pc[r] # WriteStep[kind]
    BY <1>8, KindSteps
  <2>2. CASE kind = "compressed"
    <3>1. pc[r] \in After[kind]
      BY <1>8, <2>2, KindSteps, KindAfter
    <3>. QED  BY <1>2, <1>8, <2>1, <3>1, FileLeft
  <2>3. CASE kind = "decompressed"
    <3>1. pc'[r] \in {"open_compressed", "write_compressed", "bcast"}
      BY <1>8, <2>3, KindSteps
    <3>2. pc'[r] # OpenStep[kind] /\ pc'[r] # WriteStep[kind]
      BY <2>3, <3>1, KindSteps
    <3>3. pc'[r] \notin After[kind]
      BY <2>3, <3>1, KindAfter
    <3>. QED  BY <1>2, <1>8, <2>1, <3>2, <3>3, FileLeft
  <2>. QED  BY <2>2, <2>3 DEF Kinds
<1>9. ASSUME NEW k \in Kinds, OpenFile(r, k) PROVE FileInv(kind, b)'
  <2>1. /\ UNCHANGED written
        /\ pc[r] = OpenStep[k] /\ pc'[r] = WriteStep[k]
        /\ \A out \in Kinds \ {k} : files'[out] = files[out]
        /\ \A n \in Buffers \ {written[r] + 1} : files'[k][n] = files[k][n]
    BY <1>1, <1>9 DEF OpenFile, Go, ranks
  <2>2. CASE k # kind
    BY <1>8, <2>1, <2>2
  <2>3. CASE k = kind /\ b = written[r] + 1
    BY <2>1, <2>3 DEF FileInv, Writing
  <2>4. CASE k = kind /\ b # written[r] + 1
    <3>1. pc[r] # WriteStep[kind]
      BY <2>1, <2>4, KindSteps
    <3>. QED  BY <1>2, <2>1, <2>4, <3>1, FileLeft
  <2>. QED  BY <2>2, <2>3, <2>4
\* WriteFile, when what it writes is good.
<1>10. ASSUME NEW k \in Kinds, NEW then, NEW data, WriteFile(r, k, data, then),
              k = kind => data[b] \in Good(kind, b) /\ then \in After[kind],
              k # kind => kind = "compressed" \/ then = "bcast"
       PROVE  FileInv(kind, b)'
  <2>1. /\ pc[r] = WriteStep[k]
        /\ \A out \in Kinds \ {k} : files'[out] = files[out]
        /\ \A n \in Buffers \ {written[r] + 1} : files'[k][n] = files[k][n]
        /\ written[r] + 1 \in Buffers => files'[k][written[r] + 1] = data[written[r] + 1]
        /\ \A q \in Ranks \ {r} : written'[q] = written[q]
    BY <1>1, <1>10 DEF WriteFile
  <2>2. \/ LastFile(written[r] + 1) /\ pc'[r] = then
        \/ pc'[r] = OpenStep[k] /\ written'[r] = written[r] + 1
    BY <1>1, <1>10 DEF WriteFile, Go
  <2>3. CASE k # kind
    BY <1>8, <1>10, <2>1, <2>2, <2>3
  <2>4. CASE k = kind /\ b = written[r] + 1
    BY <1>2, <1>10, <2>1, <2>4, FileWritten
  <2>5. CASE k = kind /\ b # written[r] + 1
    <3>1. HasWritten(r, kind, b)' => HasWritten(r, kind, b)
      <4>1. written[r] \in Nat /\ b \in 1..NumBuffers /\ NumBuffers \in Nat
        BY <1>1, NumBuffersAssumption DEF Buffers
      <4>2. CASE LastFile(written[r] + 1)
        BY <2>1, <2>5, <4>1, <4>2 DEF LastFile, HasWritten
      <4>3. CASE pc'[r] = OpenStep[k] /\ written'[r] = written[r] + 1
        BY <2>1, <2>5, <4>1, <4>3, LoopSteps DEF HasWritten
      <4>. QED  BY <2>2, <4>2, <4>3
    <3>2. \A q \in Ranks : /\ Writing(q, kind, b) => Writing(q, kind, b)'
                           /\ HasWritten(q, kind, b)' => HasWritten(q, kind, b)
      BY <1>2, <2>1, <2>5, <3>1 DEF Writing, HasWritten
    <3>. QED  BY <1>2, <2>1, <2>5, <3>2, FileKept
  <2>. QED  BY <2>3, <2>4, <2>5
<1>11. CASE WriteCompressed(r)
  <2>1. compressed[r] = Own(r)
    BY <1>11 DEF WriteCompressed, WriteFile, WriteStep, DataInv, DataAt
  <2>2. compressed[r][b] \in Good("compressed", b)
    BY <2>1 DEF Own, Good
  <2>3. kind = "compressed" => (IF Asked("decompress") THEN "bcast" ELSE "metrics") \in After[kind]
    BY KindAfter
  <2>. QED  BY <1>3, <1>10, <1>11, <2>2, <2>3 DEF WriteCompressed, Kinds
<1>12. CASE WriteDecompressed(r)
  <2>1. decompressed[r] = Own(0)
    BY <1>12 DEF WriteDecompressed, WriteFile, WriteStep, DataInv, DataAt
  <2>2. decompressed[r][b] \in Good("decompressed", b)
    BY <2>1 DEF Own, Good
  <2>3. "metrics" \in After[kind]
    BY KindAfter
  <2>. QED  BY <1>3, <1>10, <1>12, <2>2, <2>3 DEF WriteDecompressed, Kinds
<1>. QED
  BY <1>5, <1>6, <1>7, <1>9, <1>11, <1>12 DEF RankNext, Kinds

\* The same of the configuration file.
LEMMA NextConfigFile ==
  ASSUME TypeInv, Asked("save"), CanSave, ConfigFileInv, NEW r \in Ranks, RankNext(r)
  PROVE  SomeoneGone' \/ ConfigFileInv'
<1>1. pc \in [Ranks -> Steps]
  BY DEF TypeInv
<1>2. /\ job' = job /\ Saved(job)' = Saved(job)
      /\ \A q \in Ranks \ {r} : pc'[q] = pc[q]
  BY <1>1, RankMoves DEF Saved, SavedBy
<1>3. ASSUME UNCHANGED config, pc[r] # "saving", pc[r] \in BeforeSaved => pc'[r] \in BeforeSaved
      PROVE  ConfigFileInv'
  BY <1>2, <1>3 DEF ConfigFileInv
<1>4. NeedsCompressor
  BY DEF NeedsCompressor, Asked
<1>5. CASE Parse(r) \/ GetCompressor(r) \/ LoadConfig(r) \/ SetEarly(r) \/ SetOptions(r)
  <2>1. UNCHANGED config /\ pc[r] # "saving"
    BY <1>5 DEF Parse, GetCompressor, LoadConfig, SetEarly, SetOptions
  <2>2. pc'[r] \in {"setup", "load", "early", "options", "save", "exited"}
    <3>1. CASE Parse(r)
      BY <1>1, <1>4, <3>1 DEF Parse, Go
    <3>2. CASE GetCompressor(r) \/ LoadConfig(r) \/ SetEarly(r) \/ SetOptions(r)
      BY <1>1, <3>2 DEF GetCompressor, LoadConfig, SetEarly, SetOptions, Go
    <3>. QED  BY <1>5, <3>1, <3>2
  <2>3. CASE pc'[r] = "exited"
    BY <2>3 DEF SomeoneGone
  <2>4. CASE pc'[r] # "exited"
    BY <1>3, <2>1, <2>2, <2>4 DEF BeforeSaved
  <2>. QED  BY <2>3, <2>4
<1>6. CASE OpenConfig(r)
  <2>1. pc'[r] = "saving"
    BY <1>1, <1>6 DEF OpenConfig, Go
  <2>. QED  BY <2>1 DEF ConfigFileInv
<1>7. CASE WriteConfig(r)
  BY <1>2, <1>7, OutIsSaved DEF WriteConfig, ConfigFileInv, Saved
<1>8. CASE CheckOptions(r) \/ PrintSettings(r) \/ Compress(r) \/ (r = 0 /\ Send) \/ Receive(r)
             \/ Decompress(r) \/ PrintMetrics(r)
  BY <1>3, <1>8 DEF CheckOptions, PrintSettings, Compress, Send, Receive, Decompress, PrintMetrics, BeforeSaved
<1>9. ASSUME NEW k \in Kinds, OpenFile(r, k) PROVE ConfigFileInv'
  BY <1>3, <1>9, KindSteps DEF OpenFile, BeforeSaved
<1>10. CASE WriteCompressed(r) \/ WriteDecompressed(r)
  BY <1>3, <1>10 DEF WriteCompressed, WriteDecompressed, WriteFile, WriteStep, BeforeSaved
<1>. QED
  BY <1>5, <1>6, <1>7, <1>8, <1>9, <1>10 DEF RankNext, Kinds

\* A rank that takes a step is not gone, and goes only by an exit, which leaves the files.
LEMMA RankWorks ==
  ASSUME pc \in [Ranks -> Steps], NEW r \in Ranks, RankNext(r) \/ Fails(r)
  PROVE  /\ pc[r] \notin {"done", "exited", "killed"}
         /\ pc'[r] \notin {"done", "killed"}
         /\ pc'[r] = "exited" => UNCHANGED <<config, files>>
<1>1. CASE LoadConfig(r)
  BY <1>1 DEF LoadConfig, Go
<1>2. ASSUME NEW k \in Kinds, OpenFile(r, k)
      PROVE  pc[r] \in Loop /\ pc'[r] \in Loop
  <2>1. pc[r] = OpenStep[k] /\ pc'[r] = WriteStep[k]
    BY <1>2 DEF OpenFile, Go
  <2>. QED  BY <2>1, LoopSteps
<1>3. CASE WriteCompressed(r) \/ WriteDecompressed(r)
  BY <1>3 DEF WriteCompressed, WriteDecompressed, WriteFile, OpenStep, WriteStep, Go
<1>4. CASE Parse(r) \/ GetCompressor(r) \/ SetEarly(r) \/ SetOptions(r) \/ OpenConfig(r)
             \/ WriteConfig(r) \/ CheckOptions(r)
  BY <1>4 DEF Parse, GetCompressor, SetEarly, SetOptions, OpenConfig, WriteConfig,
     CheckOptions, Go
<1>5. CASE PrintSettings(r) \/ Compress(r) \/ (r = 0 /\ Send) \/ Receive(r) \/ Decompress(r)
             \/ PrintMetrics(r)
  BY <1>5, Sizes DEF PrintSettings, Compress, Send, Receive, Decompress, PrintMetrics, Go
<1>6. CASE Fails(r)
  BY <1>6, FailuresAssumption DEF Fails, Go
<1>. QED  BY <1>1, <1>2, <1>3, <1>4, <1>5, <1>6 DEF RankNext, Kinds, Loop

\* A rank that is gone stays so until the next job.
LEMMA GoneStays ==
  ASSUME TypeInv, SomeoneGone, NEW r \in Ranks, RankNext(r)
  PROVE  SomeoneGone'
<1>1. PICK q \in Ranks : pc[q] \in {"exited", "killed"}
  BY DEF SomeoneGone
<1>2. pc[r] \notin {"exited", "killed"}
  BY RankWorks DEF TypeInv
<1>3. pc'[q] = pc[q]
  BY <1>1, <1>2, RankMoves DEF TypeInv
<1>. QED  BY <1>1, <1>3 DEF SomeoneGone

\* Every step keeps FilesInv.
LEMMA NextFiles == TypeInv /\ DataInv /\ CountInv /\ FilesInv /\ [Next]_vars => FilesInv'
<1> SUFFICES ASSUME TypeInv, DataInv, CountInv, FilesInv, [Next]_vars PROVE FilesInv'
  OBVIOUS
<1>1. pc \in [Ranks -> Steps]
  BY DEF TypeInv
<1>2. ASSUME NEW r \in Ranks, RankNext(r) PROVE FilesInv'
  <2>1. CASE SomeoneGone
    BY <1>2, <2>1, GoneStays DEF FilesInv
  <2>2. CASE ~ SomeoneGone
    <3>1. job' = job
      BY <1>1, <1>2, RankMoves
    <3>2. WritesInv'
      BY <1>2, <2>2, <3>1, NextFile DEF FilesInv, WritesInv, Asked
    <3>3. SomeoneGone' \/ (Asked("save") /\ CanSave => ConfigFileInv)'
      BY <1>2, <2>2, <3>1, NextConfigFile DEF FilesInv, Asked
    <3>. QED  BY <3>2, <3>3 DEF FilesInv
  <2>. QED  BY <2>1, <2>2
<1>3. ASSUME NEW r \in Ranks, Fails(r) PROVE FilesInv'
  <2>1. pc'[r] = "exited"
    BY <1>1, <1>3 DEF Fails, Go
  <2>. QED  BY <2>1 DEF FilesInv, SomeoneGone
<1>4. CASE Finalize
  <2>1. UNCHANGED <<job, written, config, files>> /\ \A r \in Ranks : pc[r] = "finalize" /\ pc'[r] = "done"
    BY <1>4 DEF Finalize, ranks
  <2>2. ~ SomeoneGone
    BY <2>1 DEF SomeoneGone
  <2>3. ASSUME NEW kind \in Kinds, NEW b \in Buffers, FileInv(kind, b) PROVE FileInv(kind, b)'
    <3>1. /\ "finalize" # WriteStep[kind] /\ "finalize" \in After[kind]
      BY KindSteps, KindAfter
    <3>2. \A r \in Ranks : ~ Writing(r, kind, b) /\ HasWritten(r, kind, b)
      BY <2>1, <3>1 DEF Writing, HasWritten
    <3>. QED  BY <2>1, <2>3, <3>2, Sizes DEF FileInv, Good, Data
  <2>4. Asked("save") /\ CanSave => config = Saved(job)
    BY <2>1, <2>2, Sizes DEF FilesInv, ConfigFileInv, BeforeSaved
  <2>. QED
    BY <2>1, <2>2, <2>3, <2>4 DEF FilesInv, WritesInv, ConfigFileInv, Asked, Saved, SavedBy
<1>5. CASE Kill
  BY <1>5, Sizes DEF Kill, FilesInv, SomeoneGone
<1>6. CASE NextJob
  <2>1. \A r \in Ranks : pc'[r] = "parse"
    BY <1>6, StartFacts DEF NextJob
  <2>2. ASSUME NEW kind \in Kinds, NEW b PROVE FileInv(kind, b)'
    <3>1. \A r \in Ranks : pc'[r] # OpenStep[kind] /\ pc'[r] # WriteStep[kind]
      BY <2>1, KindSteps
    <3>2. \A r \in Ranks : pc'[r] \notin After[kind]
      <4>1. CASE kind = "compressed"
        BY <2>1, <4>1 DEF After
      <4>2. CASE kind = "decompressed"
        BY <2>1, <4>2 DEF After
      <4>. QED  BY <4>1, <4>2 DEF Kinds
    <3>. QED  BY <3>1, <3>2 DEF FileInv, HasWritten
  <2>. QED  BY <2>1, <2>2 DEF FilesInv, WritesInv, ConfigFileInv, BeforeSaved
<1>7. CASE UNCHANGED vars
  <2>1. UNCHANGED <<job, pc, written, config, files>>
    BY <1>7 DEF vars, ranks
  <2>2. ASSUME NEW kind, NEW b PROVE FileInv(kind, b)' = FileInv(kind, b)
    BY <2>1 DEF FileInv, Good, Data, Writing, HasWritten
  <2>3. WritesInv' = WritesInv
    BY <2>1, <2>2 DEF WritesInv, Asked
  <2>4. ConfigFileInv' = ConfigFileInv
    BY <2>1 DEF ConfigFileInv, Saved, SavedBy
  <2>. QED  BY <2>1, <2>3, <2>4 DEF FilesInv, SomeoneGone, Asked
<1>. QED
  BY <1>2, <1>3, <1>4, <1>5, <1>6, <1>7 DEF Next, JobNext

\* Loading nothing changes nothing.
LEMMA OverrideNothing ==
  ASSUME NEW s \in [Keys -> Settings]
  PROVE  Override(s, <<>>) = s
<1>1. DOMAIN <<>> = {}
  OBVIOUS
<1>. QED  BY <1>1 DEF Override

\* What the options of a job are worth depends on nothing but the job.
LEMMA SettingsOfJob ==
  ASSUME job' = job
  PROVE  /\ Loads' = Loads
         /\ \A s : WithEarly(s)' = WithEarly(s) /\ WithOptions(s)' = WithOptions(s)
<1>1. Loads' = Loads
  BY DEF Loads, Savers, SavedBy, Asked
<1>2. ASSUME NEW s PROVE WithEarly(s)' = WithEarly(s) /\ WithOptions(s)' = WithOptions(s)
  BY DEF WithEarly, WithOptions, Override, SetOf
<1>. QED  BY <1>1, <1>2

\* Every step keeps SettingsInv.
LEMMA NextSettings ==
  TypeInv /\ ConfigInv /\ SettingsInv /\ [Next]_vars => SettingsInv'
<1> SUFFICES ASSUME TypeInv, ConfigInv, SettingsInv, [Next]_vars PROVE SettingsInv'
  OBVIOUS
<1>1. /\ pc \in [Ranks -> Steps]
      /\ settings \in [Ranks -> [Keys -> Settings]]
  BY DEF TypeInv, RanksOK
<1>2. ASSUME NEW r \in Ranks, RankNext(r) PROVE SettingsInv'
  <2>1. /\ job' = job
        /\ \A q \in Ranks \ {r} : pc'[q] = pc[q]
    BY <1>1, <1>2, RankMoves
  <2>2. SUFFICES ASSUME \A q \in Ranks \ {r} : settings'[q] = settings[q] PROVE SettingsAt(r)'
    <3>1. \A q \in Ranks \ {r} : settings'[q] = settings[q]
      BY <1>1, <1>2 DEF RankNext, Parse, GetCompressor, LoadConfig, SetEarly, SetOptions, OpenConfig,
         WriteConfig, CheckOptions, PrintSettings, Compress, OpenFile, WriteCompressed,
         WriteDecompressed, WriteFile, Send, Receive, Decompress, PrintMetrics, ranks
    <3>2. \A q \in Ranks \ {r} : SettingsAt(q)'
      BY <2>1, <3>1, SettingsOfJob DEF SettingsInv, SettingsAt, Asked
    <3>. QED  BY <2>2, <3>1, <3>2 DEF SettingsInv
  <2>3. SettingsAt(r)
    BY DEF SettingsInv
  <2>4. CASE Parse(r) \/ GetCompressor(r)
    <3>1. settings' = settings
      BY <2>4 DEF Parse, GetCompressor, ranks
    <3>2. settings[r] = Unset
      BY <2>3, <2>4 DEF Parse, GetCompressor, SettingsAt
    <3>3. Asked("load") \/ (Unset = Override(Unset, <<>>) /\ <<>> \in Loads)
      BY <1>1, <3>2, OverrideNothing DEF Loads
    <3>4. \/ pc'[r] \in {"setup", "finalize"}
          \/ pc'[r] = "load" /\ Asked("load")
          \/ pc'[r] = "early" /\ ~ Asked("load")
      BY <1>1, <2>4 DEF Parse, GetCompressor, Go
    <3>. QED
      BY <2>1, <3>1, <3>2, <3>3, <3>4, SettingsOfJob DEF SettingsAt, AfterSettings, Asked
  <2>5. CASE LoadConfig(r)
    <3>1. pc'[r] = "exited" \/ (config.kind = "saved" /\ pc'[r] = "early"
                                  /\ settings'[r] = Override(settings[r], config.values))
      BY <1>1, <2>5 DEF LoadConfig, Go
    <3>2. settings[r] = Unset /\ Asked("load")
      BY <2>3, <2>5 DEF LoadConfig, SettingsAt
    <3>3. config.kind = "saved" => config.values \in Loads
      BY <3>2 DEF ConfigInv, Loads
    <3>. QED
      BY <2>1, <3>1, <3>2, <3>3, SettingsOfJob DEF SettingsAt, AfterSettings
  <2>6. CASE SetEarly(r)
    <3>1. pc[r] = "early" /\ pc'[r] = "options" /\ settings'[r] = WithEarly(settings[r])
      BY <1>1, <2>6 DEF SetEarly, Go, WithEarly
    <3>. QED
      BY <2>1, <2>3, <3>1, SettingsOfJob DEF SettingsAt, AfterSettings
  <2>7. CASE SetOptions(r)
    <3>1. /\ pc[r] = "options" /\ settings'[r] = WithOptions(settings[r])
          /\ pc'[r] = "check" \/ (pc'[r] = "save" /\ Asked("save"))
      BY <1>1, <2>7 DEF SetOptions, Go, WithOptions
    <3>. QED
      BY <2>1, <2>3, <3>1, SettingsOfJob DEF SettingsAt, AfterSettings, Asked
  <2>8. ASSUME settings' = settings, pc[r] \in AfterSettings, pc'[r] \in Steps,
               pc'[r] \notin {"parse", "setup", "load", "early", "options", "save"},
               pc'[r] = "saving" => Asked("save")
        PROVE  SettingsAt(r)'
    BY <2>1, <2>3, <2>8, SettingsOfJob DEF SettingsAt, AfterSettings, Asked
  <2>9. CASE OpenConfig(r) \/ WriteConfig(r) \/ CheckOptions(r)
    <3>1. /\ settings' = settings
          /\ pc[r] \in {"save", "saving", "check"}
          /\ pc'[r] \in {"check", "print"} \/ (pc'[r] = "saving" /\ pc[r] = "save")
      BY <1>1, <2>9 DEF OpenConfig, WriteConfig, CheckOptions, Go, ranks
    <3>2. pc[r] = "save" => Asked("save")
      BY <2>3 DEF SettingsAt
    <3>. QED  BY <2>8, <3>1, <3>2 DEF AfterSettings, Steps
  <2>10. CASE PrintSettings(r) \/ Compress(r) \/ (r = 0 /\ Send) \/ Receive(r) \/ Decompress(r)
                \/ PrintMetrics(r)
    <3>1. /\ settings' = settings
          /\ pc[r] \in {"print", "compress", "bcast", "decompress", "metrics"}
          /\ pc'[r] \in {"compress", "bcast", "metrics", "open_compressed", "decompress",
                         "open_decompressed", "finalize"}
      BY <1>1, <2>10, Sizes
         DEF PrintSettings, Compress, Send, Receive, Decompress, PrintMetrics, Go, ranks
    <3>. QED  BY <2>8, <3>1 DEF AfterSettings, Steps
  <2>11. ASSUME NEW kind \in Kinds, OpenFile(r, kind) PROVE SettingsAt(r)'
    <3>1. settings' = settings /\ pc[r] = OpenStep[kind] /\ pc'[r] = WriteStep[kind]
      BY <1>1, <2>11 DEF OpenFile, Go, ranks
    <3>. QED  BY <2>8, <3>1, KindSteps DEF AfterSettings, Steps
  <2>12. CASE WriteCompressed(r) \/ WriteDecompressed(r)
    <3>1. /\ settings' = settings
          /\ pc[r] \in {"write_compressed", "write_decompressed"}
          /\ pc'[r] \in {"open_compressed", "open_decompressed", "bcast", "metrics"}
      BY <1>1, <2>12 DEF WriteCompressed, WriteDecompressed, WriteFile, OpenStep, WriteStep, Go
    <3>. QED  BY <2>8, <3>1 DEF AfterSettings, Steps
  <2>. QED
    BY <1>2, <2>4, <2>5, <2>6, <2>7, <2>9, <2>10, <2>11, <2>12 DEF RankNext, Kinds
<1>3. ASSUME NEW r \in Ranks, Fails(r) PROVE SettingsInv'
  <2>1. /\ job' = job /\ settings' = settings /\ pc'[r] = "exited"
        /\ \A q \in Ranks \ {r} : pc'[q] = pc[q]
    BY <1>1, <1>3 DEF Fails, Go, ranks
  <2>. QED  BY <2>1, SettingsOfJob DEF SettingsInv, SettingsAt, AfterSettings, Asked
<1>4. CASE Finalize \/ Kill
  <2>1. \A r \in Ranks : pc'[r] \in {"done", "exited", "killed"}
    BY <1>4 DEF Finalize, Kill
  <2>. QED  BY <2>1 DEF SettingsInv, SettingsAt, AfterSettings
<1>5. CASE NextJob
  <2>1. \A r \in Ranks : pc'[r] = "parse" /\ settings'[r] = Unset
    BY <1>5, StartFacts DEF NextJob
  <2>. QED  BY <2>1 DEF SettingsInv, SettingsAt, AfterSettings
<1>6. CASE UNCHANGED vars
  <2>1. UNCHANGED <<job, pc, settings>>
    BY <1>6 DEF vars, ranks
  <2>. QED  BY <2>1, SettingsOfJob DEF SettingsInv, SettingsAt, Asked
<1>. QED
  BY <1>2, <1>3, <1>4, <1>5, <1>6 DEF Next, JobNext

\* Every step keeps ConfigInv: only a job that saves writes the file, and all of it.
LEMMA NextConfig == TypeInv /\ ConfigInv /\ SettingsInv /\ [Next]_vars => ConfigInv'
<1> SUFFICES ASSUME TypeInv, ConfigInv, SettingsInv, [Next]_vars PROVE ConfigInv'
  OBVIOUS
<1>1. job \in Nat /\ (job' = job \/ job' = job + 1)
  <2>1. ASSUME NEW r \in Ranks, RankNext(r) \/ Fails(r) PROVE job' = job
    BY <2>1, RankMoves DEF TypeInv
  <2>. QED
    BY <2>1 DEF Next, JobNext, Finalize, Kill, NextJob, vars, TypeInv
<1>2. Savers \subseteq Savers'
  BY <1>1 DEF Savers
<1>3. config' = config \/ config'.kind # "saved" \/ \E r \in Ranks : WriteConfig(r)
  <2>1. ASSUME NEW r \in Ranks, RankNext(r), ~ WriteConfig(r)
        PROVE  config' = config \/ config'.kind # "saved"
    <3>1. CASE OpenConfig(r)
      BY <3>1 DEF OpenConfig, Truncated
    <3>2. CASE ~ OpenConfig(r)
      BY <2>1, <3>2 DEF RankNext, Parse, GetCompressor, LoadConfig, SetEarly, SetOptions, CheckOptions,
         PrintSettings, Compress, OpenFile, WriteCompressed, WriteDecompressed, WriteFile, Send,
         Receive, Decompress, PrintMetrics
    <3>. QED  BY <3>1, <3>2
  <2>2. ASSUME ~ \E r \in Ranks : RankNext(r) PROVE config' = config
    BY <2>2 DEF Next, JobNext, Fails, Finalize, Kill, NextJob, vars
  <2>. QED  BY <2>1, <2>2
<1>4. CASE config' = config
  BY <1>2, <1>4 DEF ConfigInv, SavedBy
<1>5. CASE config'.kind # "saved"
  BY <1>5 DEF ConfigInv
<1>6. ASSUME NEW r \in Ranks, WriteConfig(r) PROVE ConfigInv'
  <2>1. job \in Savers
    BY <1>1, <1>6 DEF WriteConfig, SettingsInv, SettingsAt, Asked, Savers, TypeInv
  <2>2. config'.values = SavedBy(job)
    BY <1>6, OutIsSaved DEF WriteConfig
  <2>. QED  BY <1>2, <2>1, <2>2 DEF ConfigInv, SavedBy
<1>. QED  BY <1>3, <1>4, <1>5, <1>6

-----------------------------------------------------------------------------
(***************************************************************************)
(* The theorems.                                                           *)
(***************************************************************************)

\* The invariant is inductive.
LEMMA Inductive == Spec => []IInv
<1>1. Init => IInv
  <2> SUFFICES ASSUME Init PROVE IInv
    OBVIOUS
  <2>1. TypeInv /\ DataInv
    BY InitType
  <2>2. \A r \in Ranks : pc[r] = "parse" /\ settings[r] = Unset /\ written[r] = 0
    BY StartFacts DEF Init
  <2>3. CountInv
    BY <2>2 DEF CountInv
  <2>4. FilesInv
    <3>1. ASSUME NEW kind \in Kinds, NEW b PROVE FileInv(kind, b)
      <4>1. \A r \in Ranks : pc[r] # OpenStep[kind] /\ pc[r] # WriteStep[kind]
        BY <2>2, KindSteps
      <4>2. \A r \in Ranks : pc[r] \notin After[kind]
        <5>1. CASE kind = "compressed"
          BY <2>2, <5>1 DEF After
        <5>2. CASE kind = "decompressed"
          BY <2>2, <5>2 DEF After
        <5>. QED  BY <5>1, <5>2 DEF Kinds
      <4>. QED  BY <4>1, <4>2 DEF FileInv, HasWritten
    <3>. QED  BY <2>2, <3>1 DEF FilesInv, WritesInv, ConfigFileInv, BeforeSaved
  <2>5. ConfigInv
    BY DEF Init, ConfigInv
  <2>6. SettingsInv
    BY <2>2 DEF SettingsInv, SettingsAt, AfterSettings
  <2>. QED  BY <2>1, <2>3, <2>4, <2>5, <2>6 DEF IInv
<1>2. IInv /\ [Next]_vars => IInv'
  BY NextType, NextData, NextCount, NextFiles, NextConfig, NextSettings DEF IInv
<1>. QED  BY <1>1, <1>2, PTL DEF Spec

\* Everything keeps the types of the model.
THEOREM TypeCorrect == Spec => []TypeOK
BY Inductive, TypeInvIsStronger, PTL DEF IInv

\* For any number of ranks and buffers: a rank decompresses what rank 0 compressed
\* in this job, never its own data or that of a job before (the broadcast of main).
THEOREM RootIsDecompressed == Spec => []DecompressesRoot
<1>1. IInv => DecompressesRoot
  BY DEF IInv, DataInv, DataAt, DecompressesRoot, Own
<1>. QED  BY <1>1, Inductive, PTL

\* However many ranks empty and write the same files, in whatever order: when all
\* of them pass MPI_Finalize the files are complete and of this job.
THEOREM EndIsComplete == Spec => []NormalEndIsComplete
<1>1. IInv => NormalEndIsComplete
  <2> SUFFICES ASSUME IInv, NormalEnd PROVE NormalEndIsComplete
    BY DEF NormalEndIsComplete
  <2>1. \A r \in Ranks : pc[r] = "done"
    BY DEF NormalEnd
  <2>2. WritesInv /\ (Asked("save") /\ CanSave => ConfigFileInv)
    BY <2>1 DEF IInv, FilesInv, SomeoneGone
  <2>3. ASSUME NEW kind \in Kinds, NEW b \in Buffers, Asked(ActionOf[kind])
        PROVE  files[kind][b] \in Good(kind, b)
    <3>1. "done" # WriteStep[kind]
      BY KindSteps
    <3>2. "done" \in After[kind]
      BY KindAfter
    <3>3. FileInv(kind, b)
      BY <2>2, <2>3 DEF WritesInv
    <3>. QED  BY <2>1, <3>1, <3>2, <3>3, Sizes DEF FileInv, Writing, HasWritten
  <2>4. Asked("compress") => \A b \in Buffers : files["compressed"][b] \in {Data(r, b) : r \in Ranks}
    BY <2>3 DEF Kinds, ActionOf, Good
  <2>5. Asked("decompress") => \A b \in Buffers : files["decompressed"][b] = Data(0, b)
    BY <2>3 DEF Kinds, ActionOf, Good
  <2>6. Asked("save") /\ CanSave => config = [kind |-> "saved", values |-> SavedBy(job)]
    BY <2>1, <2>2, Sizes DEF ConfigFileInv, BeforeSaved, Saved
  <2>. QED  BY <2>4, <2>5, <2>6 DEF NormalEndIsComplete
<1>. QED  BY <1>1, Inductive, PTL

\* Once setup_compressor is through, each option has the value of -o, else that of
\* -b, else that of one whole saved configuration, and ranks that save at the same
\* time do not mix theirs.
THEOREM SettingsAreThoseAsked == Spec => []SettingsAreAsked
<1>1. IInv => SettingsAreAsked
  <2> SUFFICES ASSUME IInv, NEW r \in Ranks, pc[r] \in {"check", "print", "compress", "decompress"}
               PROVE  \E loaded \in Loads :
                        \A k \in Keys :
                          settings[r][k] =
                            IF k \in DOMAIN SavedBy(job) THEN SavedBy(job)[k]
                            ELSE IF k \in DOMAIN loaded THEN loaded[k] ELSE Default
    BY DEF SettingsAreAsked, Loads
  <2>1. pc[r] \in AfterSettings
    BY DEF AfterSettings, Steps
  <2>2. PICK s \in Loads : settings[r] = WithOptions(WithEarly(Override(Unset, s)))
    BY <2>1 DEF IInv, SettingsInv, SettingsAt
  <2>3. ASSUME NEW k \in Keys
        PROVE  WithOptions(WithEarly(Override(Unset, s)))[k] =
                 IF k \in DOMAIN SavedBy(job) THEN SavedBy(job)[k]
                 ELSE IF k \in DOMAIN s THEN s[k] ELSE Default
    BY DEF WithOptions, WithEarly, Override, SetOf, Unset, SavedBy
  <2>. QED  BY <2>2, <2>3
<1>. QED  BY <1>1, Inductive, PTL

-----------------------------------------------------------------------------
(***************************************************************************)
(* The refinement of PressioJobs.                                          *)
(***************************************************************************)

\* No file holds data of a job to come.
FilesPast ==
  \A kind \in Kinds, b \in Buffers : files[kind][b] # Nothing => files[kind][b].job <= job

\* No data is nothing.
LEMMA SomeData ==
  ASSUME NEW r, NEW b
  PROVE  Data(r, b) # Nothing /\ Data(r, b).job = job
<1>1. DOMAIN Data(r, b) = {"job", "rank", "buffer"} /\ DOMAIN Nothing = {}
  BY DEF Data, Nothing
<1>. QED  BY <1>1 DEF Data

\* Every step keeps FilesPast.
LEMMA NextPast == IInv /\ FilesPast /\ [Next]_vars => FilesPast'
<1> SUFFICES ASSUME IInv, FilesPast, [Next]_vars PROVE FilesPast'
  OBVIOUS
<1>1. /\ TypeInv /\ DataInv
      /\ job \in Nat
      /\ pc \in [Ranks -> Steps]
      /\ files \in [Kinds -> [Buffers -> {Nothing} \cup AllData]]
  BY DEF IInv, TypeInv, FilesOK
<1>2. job' = job \/ (job' = job + 1 /\ files' = files)
  <2>1. ASSUME NEW r \in Ranks, RankNext(r) \/ Fails(r) PROVE job' = job
    BY <1>1, <2>1, RankMoves
  <2>. QED
    BY <2>1 DEF Next, JobNext, Finalize, Kill, NextJob, vars
<1>3. CASE files' = files
  BY <1>1, <1>2, <1>3, Sizes DEF FilesPast, AllData
<1>4. ASSUME NEW r \in Ranks, NEW k \in Kinds, OpenFile(r, k) PROVE FilesPast'
  <2>1. job' = job /\ \A kind \in Kinds, b \in Buffers : files'[kind][b] \in {Nothing, files[kind][b]}
    BY <1>1, <1>4 DEF OpenFile
  <2>. QED  BY <2>1 DEF FilesPast
<1>5. ASSUME NEW r \in Ranks, NEW k \in Kinds, NEW then, NEW q \in Ranks,
             WriteFile(r, k, Own(q), then)
      PROVE  FilesPast'
  <2>1. job' = job /\ \A kind \in Kinds, b \in Buffers : files'[kind][b] \in {Data(q, b), files[kind][b]}
    BY <1>1, <1>5 DEF WriteFile, Own
  <2>. QED  BY <1>1, <2>1, SomeData DEF FilesPast
<1>6. ASSUME NEW r \in Ranks, WriteCompressed(r) PROVE FilesPast'
  <2>1. compressed[r] = Own(r)
    BY <1>1, <1>6 DEF WriteCompressed, WriteFile, WriteStep, DataInv, DataAt
  <2>. QED  BY <1>5, <1>6, <2>1 DEF WriteCompressed, Kinds
<1>7. ASSUME NEW r \in Ranks, WriteDecompressed(r) PROVE FilesPast'
  <2>1. decompressed[r] = Own(0)
    BY <1>1, <1>7 DEF WriteDecompressed, WriteFile, WriteStep, DataInv, DataAt
  <2>. QED  BY <1>5, <1>7, <2>1, Sizes DEF WriteDecompressed, Kinds
<1>8. \/ files' = files
      \/ \E r \in Ranks : \/ \E k \in Kinds : OpenFile(r, k)
                          \/ WriteCompressed(r)
                          \/ WriteDecompressed(r)
  BY DEF Next, JobNext, RankNext, Parse, GetCompressor, LoadConfig, SetEarly, SetOptions, OpenConfig,
     WriteConfig, CheckOptions, PrintSettings, Compress, Send, Receive, Decompress, PrintMetrics,
     Fails, Finalize, Kill, NextJob, vars, Kinds
<1>. QED  BY <1>3, <1>4, <1>6, <1>7, <1>8

\* The same outputs are whole as long as the files and the job are the same.
LEMMA WholeKept ==
  ASSUME UNCHANGED <<job, config, files>>
  PROVE  Whole' = Whole
BY DEF Whole, Data, SavedBy

\* What each output needs to be whole.
LEMMA WholeOutputs ==
  /\ Whole \subseteq Outputs[job]
  /\ "compress" \in Whole =>
       \A b \in Buffers : files["compressed"][b] \in {Data(r, b) : r \in Ranks}
  /\ "decompress" \in Whole => \A b \in Buffers : files["decompressed"][b] = Data(0, b)
  /\ "save" \in Whole => config = Saved(job)
BY DEF Whole, Saved

\* A job has no other outputs than these.
LEMMA OutputsAre ==
  ASSUME NEW j \in 1..Len(Jobs)
  PROVE  /\ Outputs[j] \subseteq {"compress", "decompress", "save"}
         /\ \A out \in Outputs[j] : out \in Jobs[j].actions /\ (out = "save" => CanSave)
BY FailuresAssumption DEF Outputs

\* How the program shows whether a job runs.
State == IF NormalEnd THEN "complete" ELSE IF Ended THEN "failed" ELSE "running"

LEMMA JobsInit == Init => Promised!Init
<1> SUFFICES ASSUME Init PROVE Promised!Init
  OBVIOUS
<1>1. job = 1 /\ job \in 1..Len(Jobs) /\ \A r \in Ranks : pc[r] = "parse"
  BY NumJobs, StartFacts DEF Init
<1>2. ~ Ended /\ ~ NormalEnd
  BY <1>1, Sizes DEF Ended, NormalEnd
<1>3. "compress" \notin Whole /\ "decompress" \notin Whole
  <2>1. files["compressed"][1] = Nothing /\ files["decompressed"][1] = Nothing
    BY Sizes DEF Init
  <2>. QED  BY <2>1, Sizes, SomeData, WholeOutputs
<1>4. "save" \notin Whole
  <2>1. config.kind = "missing" /\ Saved(job).kind = "saved"
    BY DEF Init, Saved
  <2>. QED  BY <2>1, WholeOutputs
<1>5. Whole = {}
  BY <1>1, <1>3, <1>4, WholeOutputs, OutputsAre
<1>. QED  BY <1>1, <1>2, <1>5 DEF Promised!Init

\* Where all ranks are in MPI_Finalize, every output is whole.
LEMMA AllFinalize ==
  ASSUME IInv, \A r \in Ranks : pc[r] = "finalize"
  PROVE  Whole = Outputs[job]
<1>1. WritesInv /\ (Asked("save") /\ CanSave => ConfigFileInv)
  BY DEF IInv, FilesInv, SomeoneGone
<1>2. ASSUME NEW kind \in Kinds, NEW b \in Buffers, Asked(ActionOf[kind])
      PROVE  files[kind][b] \in Good(kind, b)
  <2>1. "finalize" # WriteStep[kind]
    BY KindSteps
  <2>2. "finalize" \in After[kind]
    BY KindAfter
  <2>3. FileInv(kind, b)
    BY <1>1, <1>2 DEF WritesInv
  <2>. QED  BY <2>1, <2>2, <2>3, Sizes DEF FileInv, Writing, HasWritten
<1>3. Asked("compress") => \A b \in Buffers : files["compressed"][b] \in {Data(r, b) : r \in Ranks}
  BY <1>2 DEF Kinds, ActionOf, Good
<1>4. Asked("decompress") => \A b \in Buffers : files["decompressed"][b] = Data(0, b)
  BY <1>2 DEF Kinds, ActionOf, Good
<1>5. Asked("save") /\ CanSave => config = [kind |-> "saved", values |-> SavedBy(job)]
  BY <1>1, Sizes DEF ConfigFileInv, BeforeSaved, Saved
<1>6. ASSUME NEW out \in Outputs[job] PROVE out \in Whole
  <2>1. out \in {"compress", "decompress", "save"} /\ Asked(out) /\ (out = "save" => CanSave)
    BY OutputsAre DEF IInv, TypeInv, Asked
  <2>2. CASE out = "compress"
    BY <1>3, <2>1, <2>2 DEF Whole
  <2>3. CASE out = "decompress"
    BY <1>4, <2>1, <2>3 DEF Whole
  <2>4. CASE out = "save"
    BY <1>5, <2>1, <2>4 DEF Whole
  <2>. QED  BY <2>1, <2>2, <2>3, <2>4
<1>. QED  BY <1>6, WholeOutputs

\* Every step is one of PressioJobs or changes nothing there.
LEMMA JobsNext == IInv /\ FilesPast /\ [Next]_vars => [Promised!Next]_(Promised!jvars)
<1> SUFFICES ASSUME IInv, FilesPast, [Next]_vars
             PROVE  Promised!Next \/ UNCHANGED Promised!jvars
  OBVIOUS
<1>1. /\ TypeInv /\ job \in 1..Len(Jobs)
      /\ pc \in [Ranks -> Steps]
  BY DEF IInv, TypeInv
\* A step in a running job that leaves the files alone, or the job running.
<1>2. ASSUME ~ Ended, job' = job, ~ NormalEnd', Ended' => UNCHANGED <<config, files>>
      PROVE  Promised!Next
  <2>1. ~ NormalEnd
    BY <1>2 DEF Ended, NormalEnd
  <2>2. CASE Ended'
    <3>1. Whole' = Whole
      BY <1>2, <2>2, WholeKept
    <3>. QED  BY <1>2, <2>1, <2>2, <3>1 DEF Promised!Next, Promised!GiveUp
  <2>3. CASE ~ Ended'
    <3>1. Whole' \subseteq Outputs[job]
      BY <1>2 DEF Whole, Outputs
    <3>. QED  BY <1>2, <2>1, <2>3, <3>1 DEF Promised!Next, Promised!Work
  <2>. QED  BY <2>2, <2>3
<1>3. ASSUME NEW r \in Ranks, RankNext(r) PROVE Promised!Next
  <2>1. job' = job
    BY <1>1, <1>3, RankMoves
  <2>2. /\ pc[r] \notin {"done", "exited", "killed"}
        /\ pc'[r] \notin {"done", "killed"}
        /\ pc'[r] = "exited" => UNCHANGED <<config, files>>
    BY <1>1, <1>3, RankWorks
  <2>. QED  BY <1>2, <2>1, <2>2 DEF Ended, NormalEnd
<1>4. ASSUME NEW r \in Ranks, Fails(r) PROVE Promised!Next
  <2>1. /\ UNCHANGED <<job, config, files>>
        /\ pc[r] \notin {"done", "exited", "killed"} /\ pc'[r] = "exited"
    BY <1>1, <1>4, FailuresAssumption DEF Fails, Go
  <2>. QED  BY <1>2, <2>1 DEF Ended, NormalEnd
<1>5. CASE Finalize
  <2>1. /\ UNCHANGED <<job, config, files>>
        /\ \A r \in Ranks : pc[r] = "finalize" /\ pc'[r] = "done"
    BY <1>5 DEF Finalize
  <2>2. ~ Ended /\ ~ NormalEnd /\ NormalEnd'
    BY <2>1, Sizes DEF Ended, NormalEnd
  <2>3. Whole = Outputs[job] /\ Whole' = Whole
    BY <2>1, AllFinalize, WholeKept
  <2>. QED  BY <2>1, <2>2, <2>3 DEF Promised!Next, Promised!Finish
<1>6. CASE Kill
  <2>1. PICK r \in Ranks : pc[r] = "exited"
    BY <1>6 DEF Kill
  <2>2. pc'[r] = "exited" /\ UNCHANGED <<job, config, files>> /\ ~ Ended
    BY <1>6, <2>1 DEF Kill
  <2>. QED  BY <1>2, <2>2 DEF NormalEnd
<1>7. CASE NextJob
  <2>1. /\ Ended /\ job < Len(Jobs) /\ job' = job + 1 /\ UNCHANGED <<config, files>>
        /\ \A r \in Ranks : pc'[r] = "parse"
    BY <1>7, StartFacts DEF NextJob
  <2>2. ~ Ended' /\ ~ NormalEnd'
    BY <2>1, Sizes DEF Ended, NormalEnd
  <2>3. Whole' \subseteq Outputs[job'] \cap {"save"}
    <3>1. /\ Whole' \subseteq Outputs[job']
          /\ "compress" \in Whole' => files'["compressed"][1] \in {Data(r, 1)' : r \in Ranks}
          /\ "decompress" \in Whole' => files'["decompressed"][1] = Data(0, 1)'
      BY Sizes DEF Whole, Outputs
    <3>2. \A r : Data(r, 1)' # Nothing /\ Data(r, 1)'.job = job + 1
      <4>1. ASSUME NEW r
            PROVE  /\ DOMAIN Data(r, 1)' = {"job", "rank", "buffer"} /\ DOMAIN Nothing = {}
                   /\ Data(r, 1)'.job = job'
        BY DEF Data, Nothing
      <4>. QED  BY <2>1, <4>1
    <3>3. \A kind \in Kinds : files'[kind][1] # Nothing => files'[kind][1].job <= job
      BY <2>1, Sizes DEF FilesPast
    <3>4. job \in Nat /\ ~ (job + 1 <= job)
      BY <1>1
    <3>5. "compress" \notin Whole' /\ "decompress" \notin Whole'
      BY <3>1, <3>2, <3>3, <3>4 DEF Kinds
    <3>6. job' \in 1..Len(Jobs)
      BY <1>1, <2>1, NumJobs
    <3>. QED  BY <3>1, <3>5, <3>6, OutputsAre
  <2>. QED  BY <2>1, <2>2, <2>3 DEF Promised!Next, Promised!NextJob
<1>8. CASE UNCHANGED vars
  <2>1. UNCHANGED <<job, pc, config, files>>
    BY <1>8 DEF vars
  <2>2. Whole' = Whole
    BY <2>1, WholeKept
  <2>. QED  BY <2>1, <2>2 DEF Promised!jvars, NormalEnd, Ended
<1>. QED
  BY <1>3, <1>4, <1>5, <1>6, <1>7, <1>8 DEF Next, JobNext

\* However the ranks share the files, the jobs are those of PressioJobs: complete
\* only with all outputs, not touched after the end, never complete after a failure.
THEOREM JobsAreImplemented == Spec => ImplementsJobs
<1>1. Init => FilesPast
  BY DEF Init, FilesPast, Kinds
<1>2. IInv /\ FilesPast /\ [Next]_vars => FilesPast' /\ [Promised!Next]_(Promised!jvars)
  BY NextPast, JobsNext
<1>. QED  BY <1>1, <1>2, JobsInit, Inductive, PTL DEF Spec, ImplementsJobs, Promised!Spec

-----------------------------------------------------------------------------
(***************************************************************************)
(* Who can go on.                                                          *)
(***************************************************************************)

\* The steps of rank 0 that come after its broadcast.
AfterBroadcast == {"decompress", "open_decompressed", "write_decompressed", "metrics", "finalize"}

\* Either no rank waits for the broadcast or rank 0 comes to it; ranks are killed only
\* where one exited, and leave MPI_Finalize together.
BroadcastInv ==
  /\ \A r \in Ranks : pc[r] = "bcast" => Asked("decompress")
  /\ Asked("decompress") /\ pc[0] \in AfterBroadcast => sent # Nothing

GoneInv ==
  /\ (\E r \in Ranks : pc[r] = "killed") => \E r \in Ranks : pc[r] = "exited"
  /\ (\E r \in Ranks : pc[r] = "done") => NormalEnd

LEMMA NextBroadcast ==
  TypeInv /\ DataInv /\ BroadcastInv /\ [Next]_vars => BroadcastInv'
<1> SUFFICES ASSUME TypeInv, DataInv, BroadcastInv, [Next]_vars PROVE BroadcastInv'
  OBVIOUS
<1>1. pc \in [Ranks -> Steps]
  BY DEF TypeInv
<1>2. ASSUME NEW r \in Ranks, RankNext(r) PROVE BroadcastInv'
  <2>1. job' = job /\ \A q \in Ranks \ {r} : pc'[q] = pc[q]
    BY <1>1, <1>2, RankMoves
  \* A step that neither begins to wait for the broadcast nor passes it.
  <2>2. ASSUME sent' = sent,
               pc'[r] = "bcast" => Asked("decompress"),
               Asked("decompress") /\ pc'[r] \in AfterBroadcast => pc[r] \in AfterBroadcast
        PROVE  BroadcastInv'
    BY <2>1, <2>2, Sizes DEF BroadcastInv, Asked
  <2>3. CASE Parse(r)
    <3>1. Asked("decompress") => NeedsCompressor
      BY DEF Asked, NeedsCompressor
    <3>2. sent' = sent /\ pc'[r] = IF NeedsCompressor THEN "setup" ELSE "finalize"
      BY <1>1, <2>3 DEF Parse, Go, ranks
    <3>. QED  BY <2>2, <3>1, <3>2 DEF AfterBroadcast
  <2>4. CASE GetCompressor(r) \/ LoadConfig(r) \/ SetEarly(r) \/ SetOptions(r)
    <3>1. sent' = sent /\ pc'[r] \in {"load", "early", "options", "save", "check", "exited"}
      BY <1>1, <2>4 DEF GetCompressor, LoadConfig, SetEarly, SetOptions, Go, ranks
    <3>. QED  BY <2>2, <3>1 DEF AfterBroadcast
  <2>5. CASE OpenConfig(r) \/ WriteConfig(r) \/ CheckOptions(r)
    <3>1. sent' = sent /\ pc'[r] \in {"saving", "check", "print"}
      BY <1>1, <2>5 DEF OpenConfig, WriteConfig, CheckOptions, Go, ranks
    <3>. QED  BY <2>2, <3>1 DEF AfterBroadcast
  <2>6. CASE PrintSettings(r) \/ Compress(r)
    <3>1. /\ sent' = sent
          /\ pc'[r] = "bcast" => Asked("decompress")
          /\ pc'[r] = "metrics" => ~ Asked("decompress")
          /\ pc'[r] \in {"bcast", "metrics", "compress", "open_compressed"}
      BY <1>1, <2>6 DEF PrintSettings, Compress, Go
    <3>. QED  BY <2>2, <3>1 DEF AfterBroadcast
  <2>7. ASSUME NEW kind \in Kinds, OpenFile(r, kind) PROVE BroadcastInv'
    <3>1. sent' = sent /\ pc[r] = OpenStep[kind] /\ pc'[r] = WriteStep[kind]
      BY <1>1, <2>7 DEF OpenFile, Go, ranks
    <3>2. \/ pc[r] = "open_compressed" /\ pc'[r] = "write_compressed"
          \/ pc[r] = "open_decompressed" /\ pc'[r] = "write_decompressed"
      BY <3>1, KindSteps
    <3>. QED  BY <2>2, <3>1, <3>2 DEF AfterBroadcast
  <2>8. CASE WriteCompressed(r)
    <3>1. /\ sent' = sent
          /\ \/ pc'[r] = "open_compressed"
             \/ pc'[r] = "bcast" /\ Asked("decompress")
             \/ pc'[r] = "metrics" /\ ~ Asked("decompress")
      BY <1>1, <2>8 DEF WriteCompressed, WriteFile, OpenStep, Go
    <3>. QED  BY <2>2, <3>1 DEF AfterBroadcast
  <2>9. CASE WriteDecompressed(r)
    <3>1. /\ sent' = sent /\ pc[r] = "write_decompressed"
          /\ pc'[r] \in {"open_decompressed", "metrics"}
      BY <1>1, <2>9 DEF WriteDecompressed, WriteFile, OpenStep, WriteStep, Go
    <3>. QED  BY <2>2, <3>1 DEF AfterBroadcast
  <2>10. CASE r = 0 /\ Send
    <3>1. pc[0] = "bcast" /\ pc'[0] = "decompress" /\ sent' = compressed[0]
      BY <1>1, <2>10, Sizes DEF Send, Go
    <3>2. compressed[0] = Own(0)
      BY <3>1, Sizes DEF DataInv, DataAt
    <3>3. Own(0) # Nothing
      <4>1. 1 \in DOMAIN Own(0) /\ DOMAIN Nothing = {}
        BY Sizes DEF Own, Nothing
      <4>. QED  BY <4>1
    <3>. QED  BY <2>1, <2>10, <3>1, <3>2, <3>3 DEF BroadcastInv, Asked
  <2>11. CASE Receive(r)
    <3>1. r # 0 /\ sent' = sent /\ pc'[r] = "decompress"
      BY <1>1, <2>11 DEF Receive, Go
    <3>. QED  BY <2>1, <3>1, Sizes DEF BroadcastInv, Asked
  <2>12. CASE Decompress(r) \/ PrintMetrics(r)
    <3>1. /\ sent' = sent /\ pc[r] \in {"decompress", "metrics"}
          /\ pc'[r] \in {"open_decompressed", "finalize"}
      BY <1>1, <2>12 DEF Decompress, PrintMetrics, Go, ranks
    <3>. QED  BY <2>2, <3>1 DEF AfterBroadcast
  <2>. QED
    BY <1>2, <2>3, <2>4, <2>5, <2>6, <2>7, <2>8, <2>9, <2>10, <2>11, <2>12 DEF RankNext, Kinds
<1>3. ASSUME NEW r \in Ranks, Fails(r) PROVE BroadcastInv'
  <2>1. /\ job' = job /\ sent' = sent /\ pc'[r] = "exited"
        /\ \A q \in Ranks \ {r} : pc'[q] = pc[q]
    BY <1>1, <1>3 DEF Fails, Go, ranks
  <2>. QED  BY <2>1, Sizes DEF BroadcastInv, Asked, AfterBroadcast
<1>4. CASE Finalize \/ Kill
  <2>1. \A q \in Ranks : pc'[q] \in {"done", "exited", "killed"}
    BY <1>4 DEF Finalize, Kill
  <2>. QED  BY <2>1, Sizes DEF BroadcastInv, AfterBroadcast
<1>5. CASE NextJob
  BY <1>5, StartFacts, Sizes DEF NextJob, BroadcastInv, AfterBroadcast
<1>6. CASE UNCHANGED vars
  BY <1>6 DEF vars, ranks, BroadcastInv, Asked
<1>. QED
  BY <1>2, <1>3, <1>4, <1>5, <1>6 DEF Next, JobNext

LEMMA NextGone == TypeInv /\ GoneInv /\ [Next]_vars => GoneInv'
<1> SUFFICES ASSUME TypeInv, GoneInv, [Next]_vars PROVE GoneInv'
  OBVIOUS
<1>1. pc \in [Ranks -> Steps]
  BY DEF TypeInv
<1>2. ASSUME NEW r \in Ranks, RankNext(r) \/ Fails(r) PROVE GoneInv'
  <2>1. /\ pc[r] \notin {"done", "exited", "killed"}
        /\ pc'[r] \notin {"done", "killed"}
        /\ \A q \in Ranks \ {r} : pc'[q] = pc[q]
    BY <1>1, <1>2, RankMoves, RankWorks
  <2>. QED  BY <2>1 DEF GoneInv, NormalEnd
<1>3. CASE Finalize
  BY <1>3 DEF Finalize, GoneInv, NormalEnd
<1>4. CASE Kill
  BY <1>4 DEF Kill, GoneInv
<1>5. CASE NextJob
  BY <1>5, StartFacts DEF NextJob, GoneInv
<1>6. CASE UNCHANGED vars
  BY <1>6 DEF vars, GoneInv, NormalEnd
<1>. QED
  BY <1>2, <1>3, <1>4, <1>5, <1>6 DEF Next, JobNext

\* However many ranks there are and whatever fails: as long as the job has not ended
\* and nobody has exited, some rank waits for nobody, or all of them meet in
\* MPI_Finalize.
THEOREM RanksDoNotWaitForEver ==
  Spec => [](SomeoneGoesOn \/ Ended \/ \E r \in Ranks : pc[r] = "exited")
<1>1. Init => BroadcastInv /\ GoneInv
  BY StartFacts, Sizes DEF Init, BroadcastInv, GoneInv, AfterBroadcast
<1>2. IInv /\ BroadcastInv /\ GoneInv /\ [Next]_vars => BroadcastInv' /\ GoneInv'
  BY NextBroadcast, NextGone DEF IInv
<1>3. IInv /\ BroadcastInv /\ GoneInv
      => SomeoneGoesOn \/ Ended \/ \E r \in Ranks : pc[r] = "exited"
  <2> SUFFICES ASSUME BroadcastInv, GoneInv, ~ Ended, ~ \E r \in Ranks : pc[r] = "exited",
                      ~ SomeoneGoesOn
               PROVE  FALSE
    OBVIOUS
  <2>1. \A r \in Ranks : pc[r] \notin {"done", "exited", "killed"}
    BY DEF GoneInv, NormalEnd, Ended
  <2>2. PICK r \in Ranks : pc[r] # "finalize"
    BY DEF SomeoneGoesOn
  <2>3. pc[r] = "bcast" /\ sent = Nothing
    BY <2>1, <2>2 DEF SomeoneGoesOn, GoesOn
  <2>4. pc[0] = "finalize"
    BY <2>1, Sizes DEF SomeoneGoesOn, GoesOn
  <2>. QED  BY <2>3, <2>4 DEF BroadcastInv, AfterBroadcast
<1>. QED  BY <1>1, <1>2, <1>3, Inductive, PTL DEF Spec

\* What the run checks, where the guards in SomeoneGoesOn are those of the actions.
THEOREM StuckOnlyWhereOneExited ==
  Spec /\ [](SomeoneGoesOn <=> ENABLED JobNext) => []StuckOnlyAfterExit
<1>1. /\ SomeoneGoesOn \/ Ended \/ \E r \in Ranks : pc[r] = "exited"
      /\ SomeoneGoesOn <=> ENABLED JobNext
      => StuckOnlyAfterExit
  BY DEF StuckOnlyAfterExit
<1>. QED  BY <1>1, RanksDoNotWaitForEver, PTL

-----------------------------------------------------------------------------
(***************************************************************************)
(* Nobody goes back.                                                       *)
(***************************************************************************)
\* Where a rank is: its job, the step, a loop that writes files being one, how many
\* files it has written, and whether it has opened the next.
Order ==
  <<{"parse"}, {"setup"}, {"load"}, {"early"}, {"options"}, {"save"}, {"saving"}, {"check"},
    {"print"}, {"compress"}, {"open_compressed", "write_compressed"}, {"bcast"}, {"decompress"},
    {"open_decompressed", "write_decompressed"}, {"metrics"}, {"finalize"},
    {"done", "exited", "killed"}>>

StepNo(step) == CHOOSE n \in DOMAIN Order : step \in Order[n]

Position(r) ==
  <<job, StepNo(pc[r]), written[r],
    IF pc[r] \in {"write_compressed", "write_decompressed"} THEN 1 ELSE 0>>

\* No rank goes back in main, in a loop that writes files or to an earlier job, and
\* every step takes one on: what the launcher does not end, the arguments do.
RanksOnlyAdvance ==
  [][/\ \A r \in Ranks : Advances(Position(r), Position(r)')
     /\ \E r \in Ranks : Position(r)' # Position(r)]_vars

LEMMA StepNumber ==
  ASSUME NEW n \in DOMAIN Order, NEW step \in Order[n]
  PROVE  StepNo(step) = n
<1>1. \A m \in DOMAIN Order : step \in Order[m] => m = n
  BY DEF Order
<1>. QED  BY <1>1 DEF StepNo

LEMMA StepNumbers ==
  /\ StepNo("parse") = 1 /\ StepNo("setup") = 2 /\ StepNo("load") = 3
  /\ StepNo("early") = 4 /\ StepNo("options") = 5 /\ StepNo("save") = 6
  /\ StepNo("saving") = 7 /\ StepNo("check") = 8 /\ StepNo("print") = 9
  /\ StepNo("compress") = 10 /\ StepNo("open_compressed") = 11 /\ StepNo("write_compressed") = 11
  /\ StepNo("bcast") = 12 /\ StepNo("decompress") = 13
  /\ StepNo("open_decompressed") = 14 /\ StepNo("write_decompressed") = 14
  /\ StepNo("metrics") = 15 /\ StepNo("finalize") = 16
  /\ StepNo("done") = 17 /\ StepNo("exited") = 17 /\ StepNo("killed") = 17
<1>1. /\ DOMAIN Order = 1..17
      /\ "parse" \in Order[1] /\ "setup" \in Order[2] /\ "load" \in Order[3] /\ "early" \in Order[4]
      /\ "options" \in Order[5] /\ "save" \in Order[6] /\ "saving" \in Order[7] /\ "check" \in Order[8]
      /\ "print" \in Order[9] /\ "compress" \in Order[10]
      /\ "open_compressed" \in Order[11] /\ "write_compressed" \in Order[11]
      /\ "bcast" \in Order[12] /\ "decompress" \in Order[13]
      /\ "open_decompressed" \in Order[14] /\ "write_decompressed" \in Order[14]
      /\ "metrics" \in Order[15] /\ "finalize" \in Order[16]
      /\ "done" \in Order[17] /\ "exited" \in Order[17] /\ "killed" \in Order[17]
  BY DEF Order
<1>. QED  BY <1>1, StepNumber

\* The positions a rank can have.
PositionsBounded ==
  \A r \in Ranks : Position(r) \in (1..Len(Jobs)) \X (1..17) \X (0..(NumBuffers - 1)) \X (0..1)

LEMMA PositionTypes == TypeInv => PositionsBounded
<1> SUFFICES ASSUME TypeInv, NEW r \in Ranks
             PROVE  Position(r) \in (1..Len(Jobs)) \X (1..17) \X (0..(NumBuffers - 1)) \X (0..1)
  BY DEF PositionsBounded
<1>1. StepNo(pc[r]) \in 1..17
  <2>1. pc[r] \in Steps
    BY DEF TypeInv
  <2>. QED  BY <2>1, StepNumbers DEF Steps
<1>2. job \in 1..Len(Jobs) /\ written[r] \in 0..(NumBuffers - 1)
  BY DEF TypeInv, RanksOK
<1>. QED  BY <1>1, <1>2 DEF Position

\* A rank that advances: what is later about its position.
LEMMA RankForward ==
  ASSUME PositionsBounded, PositionsBounded', NEW r \in Ranks,
         LET p == Position(r)
             q == Position(r)'
         IN  \/ p[1] < q[1]
             \/ p[1] = q[1] /\ p[2] < q[2]
             \/ p[1] = q[1] /\ p[2] = q[2] /\ p[3] < q[3]
             \/ p[1] = q[1] /\ p[2] = q[2] /\ p[3] = q[3] /\ p[4] < q[4]
  PROVE  Later(Position(r), Position(r)') /\ Position(r)' # Position(r)
<1> DEFINE p == Position(r)
           q == Position(r)'
<1>1. /\ p \in (1..Len(Jobs)) \X (1..17) \X (0..(NumBuffers - 1)) \X (0..1)
      /\ q \in (1..Len(Jobs)) \X (1..17) \X (0..(NumBuffers - 1)) \X (0..1)
  BY DEF PositionsBounded
<1>2. /\ DOMAIN p = 1..4
      /\ \A i \in 1..4 : p[i] \in Nat /\ q[i] \in Nat
  <2>. HIDE DEF p, q
  <2>1. \A x : x \in (1..Len(Jobs)) \X (1..17) \X (0..(NumBuffers - 1)) \X (0..1)
                 => /\ DOMAIN x = 1..4
                    /\ x[1] \in Nat /\ x[2] \in Nat /\ x[3] \in Nat /\ x[4] \in Nat
    BY NumJobs, NumBuffersAssumption
  <2>2. \A i \in 1..4 : i = 1 \/ i = 2 \/ i = 3 \/ i = 4
    OBVIOUS
  <2>. QED  BY <1>1, <2>1, <2>2
<1>. HIDE DEF p, q
<1>3. \E n \in 1..4 : p[n] < q[n] /\ \A m \in 1..(n - 1) : p[m] = q[m]
  <2>1. CASE p[1] < q[1]
    <3>. WITNESS 1 \in 1..4
    <3>. QED  BY <2>1
  <2>2. CASE p[1] = q[1] /\ p[2] < q[2]
    <3>. WITNESS 2 \in 1..4
    <3>. QED  BY <2>2
  <2>3. CASE p[1] = q[1] /\ p[2] = q[2] /\ p[3] < q[3]
    <3>. WITNESS 3 \in 1..4
    <3>. QED  BY <2>3
  <2>4. CASE p[1] = q[1] /\ p[2] = q[2] /\ p[3] = q[3] /\ p[4] < q[4]
    <3>. WITNESS 4 \in 1..4
    <3>. QED  BY <2>4
  <2>. QED  BY <2>1, <2>2, <2>3, <2>4 DEF p, q
<1>4. Later(p, q)
  BY <1>2, <1>3 DEF Later
<1>5. q # p
  BY <1>2, <1>3
<1>. QED  BY <1>4, <1>5 DEF p, q

\* One step of a rank takes its position on.
LEMMA RankStep ==
  ASSUME TypeInv, NEW r \in Ranks, RankNext(r) \/ Fails(r)
  PROVE  \/ StepNo(pc[r]) < StepNo(pc'[r])
         \/ StepNo(pc[r]) = StepNo(pc'[r]) /\ written[r] < written'[r]
         \/ /\ StepNo(pc[r]) = StepNo(pc'[r]) /\ written[r] = written'[r]
            /\ pc[r] \notin {"write_compressed", "write_decompressed"}
            /\ pc'[r] \in {"write_compressed", "write_decompressed"}
<1>1. /\ pc \in [Ranks -> Steps] /\ written \in [Ranks -> 0..(NumBuffers - 1)]
  BY DEF TypeInv, RanksOK
<1>2. CASE Fails(r)
  <2>1. pc[r] \in Steps \ {"done", "exited", "killed"} /\ pc'[r] = "exited"
    BY <1>1, <1>2, FailuresAssumption DEF Fails, Go
  <2>. QED  BY <2>1, StepNumbers DEF Steps
<1>3. CASE Parse(r) \/ GetCompressor(r) \/ LoadConfig(r)
  <2>1. \/ pc[r] = "parse" /\ pc'[r] \in {"setup", "finalize"}
        \/ pc[r] = "setup" /\ pc'[r] \in {"load", "early"}
        \/ pc[r] = "load" /\ pc'[r] \in {"early", "exited"}
    BY <1>1, <1>3 DEF Parse, GetCompressor, LoadConfig, Go
  <2>. QED  BY <2>1, StepNumbers
<1>4. CASE SetEarly(r) \/ SetOptions(r) \/ OpenConfig(r) \/ WriteConfig(r) \/ CheckOptions(r)
  <2>1. \/ pc[r] = "early" /\ pc'[r] = "options"
        \/ pc[r] = "options" /\ pc'[r] \in {"save", "check"}
        \/ pc[r] = "save" /\ pc'[r] \in {"saving", "check"}
        \/ pc[r] = "saving" /\ pc'[r] = "check"
        \/ pc[r] = "check" /\ pc'[r] = "print"
    BY <1>1, <1>4 DEF SetEarly, SetOptions, OpenConfig, WriteConfig, CheckOptions, Go
  <2>. QED  BY <2>1, StepNumbers
<1>5. CASE PrintSettings(r) \/ Compress(r) \/ PrintMetrics(r)
  <2>1. \/ pc[r] = "print" /\ pc'[r] \in {"compress", "bcast", "metrics"}
        \/ pc[r] = "compress" /\ pc'[r] = "open_compressed"
        \/ pc[r] = "metrics" /\ pc'[r] = "finalize"
    BY <1>1, <1>5 DEF PrintSettings, Compress, PrintMetrics, Go
  <2>. QED  BY <2>1, StepNumbers
<1>6. CASE (r = 0 /\ Send) \/ Receive(r) \/ Decompress(r)
  <2>1. \/ pc[r] = "bcast" /\ pc'[r] = "decompress"
        \/ pc[r] = "decompress" /\ pc'[r] = "open_decompressed"
    BY <1>1, <1>6 DEF Send, Receive, Decompress, Go
  <2>. QED  BY <2>1, StepNumbers
<1>7. ASSUME NEW kind \in Kinds, OpenFile(r, kind)
      PROVE  /\ StepNo(pc[r]) = StepNo(pc'[r]) /\ written[r] = written'[r]
             /\ pc[r] \notin {"write_compressed", "write_decompressed"}
             /\ pc'[r] \in {"write_compressed", "write_decompressed"}
  <2>1. written' = written /\ pc[r] = OpenStep[kind] /\ pc'[r] = WriteStep[kind]
    BY <1>1, <1>7 DEF OpenFile, Go, ranks
  <2>. QED  BY <2>1, KindSteps, StepNumbers
<1>8. ASSUME NEW kind \in Kinds, NEW data, NEW then, WriteFile(r, kind, data, then),
             StepNo(WriteStep[kind]) < StepNo(then)
      PROVE  \/ StepNo(pc[r]) < StepNo(pc'[r])
             \/ StepNo(pc[r]) = StepNo(pc'[r]) /\ written[r] < written'[r]
  <2>1. CASE LastFile(written[r] + 1)
    <3>1. pc[r] = WriteStep[kind] /\ pc'[r] = then
      BY <1>1, <1>8, <2>1 DEF WriteFile, Go
    <3>. QED  BY <1>8, <3>1
  <2>2. CASE ~ LastFile(written[r] + 1)
    <3>1. pc[r] = WriteStep[kind] /\ pc'[r] = OpenStep[kind] /\ written'[r] = written[r] + 1
      BY <1>1, <1>8, <2>2 DEF WriteFile, Go
    <3>2. StepNo(WriteStep[kind]) = StepNo(OpenStep[kind])
      BY KindSteps, StepNumbers
    <3>3. written[r] < written[r] + 1
      BY <1>1, NumBuffersAssumption
    <3>. QED  BY <3>1, <3>2, <3>3
  <2>. QED  BY <2>1, <2>2
<1>9. CASE WriteCompressed(r)
  <2>1. StepNo(WriteStep["compressed"]) < StepNo(IF Asked("decompress") THEN "bcast" ELSE "metrics")
    BY StepNumbers DEF WriteStep
  <2>. QED  BY <1>8, <1>9, <2>1 DEF WriteCompressed, Kinds
<1>10. CASE WriteDecompressed(r)
  <2>1. StepNo(WriteStep["decompressed"]) < StepNo("metrics")
    BY StepNumbers DEF WriteStep
  <2>. QED  BY <1>8, <1>10, <2>1 DEF WriteDecompressed, Kinds
<1>. QED
  BY <1>2, <1>3, <1>4, <1>5, <1>6, <1>7, <1>9, <1>10 DEF RankNext, Kinds

\* The files of a kind are counted by the rank that writes them.
LEMMA RankCounts ==
  ASSUME TypeInv, NEW r \in Ranks, RankNext(r) \/ Fails(r)
  PROVE  \A q \in Ranks \ {r} : written'[q] = written[q]
<1>1. written \in [Ranks -> 0..(NumBuffers - 1)]
  BY DEF TypeInv, RanksOK
<1>2. CASE WriteCompressed(r) \/ WriteDecompressed(r)
  BY <1>1, <1>2 DEF WriteCompressed, WriteDecompressed, WriteFile
<1>3. CASE ~ (WriteCompressed(r) \/ WriteDecompressed(r))
  BY <1>3 DEF RankNext, Fails, Parse, GetCompressor, LoadConfig, SetEarly, SetOptions, OpenConfig,
     WriteConfig, CheckOptions, PrintSettings, Compress, OpenFile, Send, Receive, Decompress,
     PrintMetrics, ranks
<1>. QED  BY <1>2, <1>3

\* For any number of ranks, buffers and jobs: every step takes a rank on, and none ever
\* goes back, neither in main nor in a loop over the files nor to an earlier job.
THEOREM NobodyGoesBack == Spec => RanksOnlyAdvance
<1> DEFINE Goes ==
             /\ \A r \in Ranks : Advances(Position(r), Position(r)')
             /\ \E r \in Ranks : Position(r)' # Position(r)
<1>1. IInv => PositionsBounded
  BY PositionTypes DEF IInv
<1>2. IInv /\ PositionsBounded /\ PositionsBounded' /\ [Next]_vars => [Goes]_vars
  <2> SUFFICES ASSUME IInv, PositionsBounded, PositionsBounded', Next PROVE Goes
    OBVIOUS
  <2>1. PositionsBounded /\ PositionsBounded' /\ TypeInv
    BY DEF IInv
  <2>2. /\ job \in Nat
        /\ pc \in [Ranks -> Steps]
    BY <2>1 DEF TypeInv
  <2>3. ASSUME NEW r \in Ranks, job' = job, StepNo(pc[r]) < StepNo(pc'[r])
        PROVE  Later(Position(r), Position(r)') /\ Position(r)' # Position(r)
    BY <2>1, <2>3, RankForward DEF Position
  <2>4. ASSUME NEW r \in Ranks, RankNext(r) \/ Fails(r) PROVE Goes
    <3>1. /\ job' = job
          /\ \A q \in Ranks \ {r} : pc'[q] = pc[q] /\ written'[q] = written[q]
      BY <2>1, <2>2, <2>4, RankMoves, RankCounts
    <3>2. \A q \in Ranks \ {r} : Position(q)' = Position(q)
      BY <3>1 DEF Position
    <3>3. Later(Position(r), Position(r)') /\ Position(r)' # Position(r)
      <4>1. \/ Position(r)[2] < Position(r)'[2]
            \/ Position(r)[2] = Position(r)'[2] /\ Position(r)[3] < Position(r)'[3]
            \/ /\ Position(r)[2] = Position(r)'[2] /\ Position(r)[3] = Position(r)'[3]
               /\ Position(r)[4] < Position(r)'[4]
        BY <2>1, <2>4, RankStep DEF Position
      <4>2. Position(r)[1] = Position(r)'[1]
        BY <3>1 DEF Position
      <4>. QED  BY <2>1, <4>1, <4>2, RankForward
    <3>. QED  BY <3>2, <3>3 DEF Advances
  <2>5. CASE Finalize
    <3>1. job' = job /\ \A r \in Ranks : pc[r] = "finalize" /\ pc'[r] = "done"
      BY <2>5 DEF Finalize
    <3>2. \A r \in Ranks : StepNo(pc[r]) < StepNo(pc'[r])
      BY <3>1, StepNumbers
    <3>. QED  BY <2>3, <3>1, <3>2, Sizes DEF Advances
  <2>6. CASE Kill
    <3>1. /\ UNCHANGED <<job, written>>
          /\ \A r \in Ranks : pc'[r] = IF pc[r] = "exited" THEN "exited" ELSE "killed"
      BY <2>6 DEF Kill, ranks
    <3>2. ASSUME NEW r \in Ranks, pc[r] \notin {"done", "exited", "killed"}
          PROVE  StepNo(pc[r]) < StepNo(pc'[r])
      <4>1. pc[r] \in Steps \ {"done", "exited", "killed"} /\ pc'[r] = "killed"
        BY <2>2, <3>1, <3>2
      <4>. QED  BY <4>1, StepNumbers DEF Steps
    <3>3. ASSUME NEW r \in Ranks, pc[r] \in {"done", "exited", "killed"}
          PROVE  Position(r)' = Position(r)
      <4>1. /\ StepNo(pc[r]) = StepNo(pc'[r])
            /\ pc[r] \notin {"write_compressed", "write_decompressed"}
            /\ pc'[r] \notin {"write_compressed", "write_decompressed"}
        BY <3>1, <3>3, StepNumbers
      <4>. QED  BY <3>1, <4>1 DEF Position
    <3>4. \E r \in Ranks : pc[r] \notin {"done", "exited", "killed"}
      BY <2>6 DEF Kill, Ended
    <3>5. ASSUME NEW r \in Ranks, pc[r] \notin {"done", "exited", "killed"}
          PROVE  Later(Position(r), Position(r)') /\ Position(r)' # Position(r)
      BY <2>3, <3>1, <3>2, <3>5
    <3>. QED  BY <3>3, <3>4, <3>5 DEF Advances
  <2>7. CASE NextJob
    <3>1. job < job'
      BY <2>2, <2>7 DEF NextJob
    <3>2. \A r \in Ranks : Position(r)[1] < Position(r)'[1]
      BY <3>1 DEF Position
    <3>3. \A r \in Ranks : Later(Position(r), Position(r)') /\ Position(r)' # Position(r)
      BY <2>1, <3>2, RankForward
    <3>. QED  BY <3>3, Sizes DEF Advances
  <2>. QED
    BY <2>4, <2>5, <2>6, <2>7 DEF Next, JobNext
<1>. QED  BY <1>1, <1>2, Inductive, PTL DEF Spec, RanksOnlyAdvance

\* There are finitely many positions to go on to.
THEOREM PositionsAreBounded == Spec => []PositionsBounded
<1>1. IInv => PositionsBounded
  BY PositionTypes DEF IInv
<1>. QED  BY <1>1, Inductive, PTL

=============================================================================
