----------------------------- MODULE BatchProofs -----------------------------
(***************************************************************************)
(* Theorems about Batch for every command line, any number of datasets,    *)
(* configurations and replicates, any width of int and any failures.       *)
(***************************************************************************)
EXTENDS Batch, DataFacts, TLAPS

Inner == {"replicate", "compress", "decompress", "report"}
InReplicate == {"compress", "decompress", "report"}

(***************************************************************************)
(* The inductive invariant, in five parts.                                 *)
(***************************************************************************)

\* What the first n flags ask of the number of replicates.
AskedBy(n) ==
  LET rs == {k \in 1..n : argv.flags[k].opt = "r"}
  IN  IF rs = {} THEN 1 ELSE Unsigned(argv.flags[Max(rs)].number[1])

\* The provers do not know of a literal that it is in STRING.
Paths == STRING \cup {"datasets.json", "compressors.json", "metrics.json", ""}

Args ==
  [fields : Seq(Nat), datasets : Paths, compressors : Paths, metrics : Paths,
   decompressed_dir : Paths, compressed_dir : Paths, replicats : 0..MaxUnsigned, error_code : Nat]

\* The flags that getopt has returned hold numbers, and the last of them counts.
FlagsInv ==
  /\ argv \in CommandLines
  /\ args \in Args
  /\ optind \in 0..Len(argv.flags)
  /\ \A k \in 1..optind : ~ StoiThrows(argv.flags[k])
  /\ args.replicats = AskedBy(optind)
  /\ pc \notin {"parse", "terminated"} => optind = Len(argv.flags)

\* The loops are at one of their replicates, or between two of them.
PositionInv ==
  /\ pc \in PCs
  /\ d \in 0..NumDatasets /\ c \in 0..NumCompressors /\ i \in MinInt..MaxInt
  /\ pc \in Inner \cup {"configuration"} => d < NumDatasets
  /\ pc \in Inner => c < NumCompressors
  /\ pc = "replicate" => Replicate <= args.replicats
  /\ pc \in InReplicate => Replicate < args.replicats
  /\ pc = "done" => d = NumDatasets

\* Nothing is allocated outside of the loops.
BuffersInv ==
  /\ data \subseteq {"input", "compressed", "decompressed"}
  /\ pc \in {"parse", "setup"} => data = {}
  /\ BuffersFreed

\* A compressor that is released was so by a replicate of this configuration.
CompressorInv ==
  /\ compressor \in {"none", "live", "released"}
  /\ pc \in {"parse", "setup", "dataset", "configuration"} => compressor = "none"
  /\ pc \in Inner => compressor # "none"
  /\ compressor = "released" => \E f \in failed : f[1] = d /\ f[2] = c
  /\ DanglingOnlyAfterFailure

\* The replicates that the loops have left behind.
Past(r) ==
  \/ r[1] < d
  \/ /\ r[1] = d /\ pc \in Inner \cup {"configuration"}
     /\ \/ r[2] < c
        \/ r[2] = c /\ pc \in Inner /\ r[3] < Replicate

Of == {csv[k].of : k \in DOMAIN csv}

\* Each replicate left behind has a row or has failed, and none has both.
RowsInv ==
  /\ IsSequence(csv)
  /\ first \in BOOLEAN
  /\ first => csv = <<>>
  /\ pc \in {"parse", "setup"} => first
  /\ Of \subseteq Replicates /\ failed \subseteq Replicates
  /\ Of \cap failed = {}
  /\ pc # "terminated" => \A r \in Replicates : Past(r) <=> r \in Of \cup failed
  /\ ShortRowEndsProgram

IInv == FlagsInv /\ PositionInv /\ BuffersInv /\ CompressorInv /\ RowsInv

-----------------------------------------------------------------------------
(***************************************************************************)
(* Lemmas about the operators.                                             *)
(***************************************************************************)

\* An int becomes an unsigned int, and zero and the ones above stay what they are.
LEMMA UnsignedFacts ==
  /\ MaxUnsigned \in Nat
  /\ \A n \in Int : Unsigned(n) \in 0..MaxUnsigned
  /\ \A n \in 0..MaxInt : Unsigned(n) = n
  /\ \A n \in MinInt..MaxInt : n < 0 => Unsigned(n) = n + MaxUnsigned + 1
<1> USE MaxIntAssumption DEF MaxUnsigned, MinInt, Unsigned
<1>1. MaxUnsigned \in Nat /\ MaxUnsigned + 1 \in Nat \ {0}
  OBVIOUS
<1>2. \A n \in Int : Unsigned(n) \in 0..MaxUnsigned
  BY <1>1
<1>3. ASSUME NEW n \in 0..MaxInt PROVE Unsigned(n) = n
  BY <1>1
<1>4. ASSUME NEW n \in MinInt..MaxInt, n < 0 PROVE Unsigned(n) = n + MaxUnsigned + 1
  <2> DEFINE w == MaxUnsigned + 1
  <2>1. w \in Nat \ {0} /\ n \in Int /\ n >= -w
    BY <1>1
  <2>2. Unsigned(n) = n % w
    OBVIOUS
  <2> HIDE DEF w
  <2>3. n % w = n + w
    BY <1>4, <2>1
  <2>. QED  BY <1>4, <2>2, <2>3 DEF w
<1>. QED  BY <1>1, <1>2, <1>3, <1>4

\* The counter of the replicates goes up by one also when the int wraps around, as
\* long as it is below a number of replicates.
LEMMA NextUnsigned ==
  ASSUME NEW n \in MinInt..MaxInt, Unsigned(n) < MaxUnsigned,
         NEW m, m = IF n = MaxInt THEN MinInt ELSE n + 1
  PROVE  m \in MinInt..MaxInt /\ Unsigned(m) = Unsigned(n) + 1
<1>1. MaxInt \in Nat /\ MinInt = -MaxInt - 1 /\ MaxUnsigned = 2 * MaxInt + 1
  BY MaxIntAssumption DEF MinInt, MaxUnsigned
<1>2. m \in MinInt..MaxInt
  BY <1>1
<1>3. CASE n = MaxInt
  BY <1>1, <1>2, <1>3, UnsignedFacts
<1>4. CASE n >= 0 /\ n < MaxInt
  <2>1. m = n + 1 /\ n \in 0..MaxInt /\ m \in 0..MaxInt
    BY <1>1, <1>4
  <2>. QED  BY <1>2, <2>1, UnsignedFacts
<1>5. CASE n < 0
  <2>1. Unsigned(n) = n + MaxUnsigned + 1
    BY <1>5, UnsignedFacts
  <2>2. n + 1 < 0 /\ m = n + 1 /\ n \in Int
    BY <1>1, <1>5, <2>1
  <2>. QED  BY <1>1, <1>2, <2>1, <2>2, UnsignedFacts
<1>. QED  BY <1>1, <1>3, <1>4, <1>5

\* The columns that the first report adds are a sequence of metrics.
LEMMA KeyOrderType ==
  ASSUME NEW keys \in SUBSET Nat, IsFiniteSet(keys)
  PROVE  InKeyOrder(keys) \in Seq(Nat)
<1> DEFINE Nth(n) == CHOOSE k \in keys : Cardinality({l \in keys : l < k}) = n - 1
<1>1. Cardinality(keys) \in Nat
  BY FS_CardinalityType
<1>2. ASSUME NEW n \in 1..Cardinality(keys) PROVE Nth(n) \in Nat
  <2>1. n - 1 \in Nat /\ n - 1 < Cardinality(keys)
    BY <1>1
  <2>2. \E k \in keys : Cardinality({l \in keys : l < k}) = n - 1
    BY <2>1, RankedElement
  <2>. QED  BY <2>2
<1>3. InKeyOrder(keys) = [n \in 1..Cardinality(keys) |-> Nth(n)]
  BY DEF InKeyOrder
<1> HIDE DEF Nth
<1>. QED  BY <1>1, <1>2, <1>3

-----------------------------------------------------------------------------
(***************************************************************************)
(* The command line.                                                       *)
(***************************************************************************)

\* The flags are a sequence of records.
LEMMA ArgvFacts ==
  ASSUME FlagsInv
  PROVE  /\ Len(argv.flags) \in Nat
         /\ DOMAIN argv.flags = 1..Len(argv.flags)
         /\ \A k \in 1..Len(argv.flags) :
              argv.flags[k].opt \in STRING /\ argv.flags[k].arg \in STRING
         /\ argv.rest \in Seq(Nat)
<1> DEFINE FlagType == [opt : STRING, arg : STRING, number : Seq(Int)]
<1>1. argv \in [flags : Seq(FlagType), rest : Seq(Nat)]
  BY CommandLinesAssumption DEF FlagsInv
<1>2. \A f \in FlagType : f.opt \in STRING /\ f.arg \in STRING
  OBVIOUS
<1> HIDE DEF FlagType
<1>3. argv.flags \in Seq(FlagType) /\ argv.rest \in Seq(Nat)
  BY <1>1
<1>4. /\ Len(argv.flags) \in Nat
      /\ DOMAIN argv.flags = 1..Len(argv.flags)
      /\ \A k \in 1..Len(argv.flags) : argv.flags[k] \in FlagType
  BY <1>3
<1>. QED  BY <1>2, <1>3, <1>4

\* A flag -r that does not throw holds an int.
LEMMA FlagNumber ==
  ASSUME NEW flag, flag.opt = "r", ~ StoiThrows(flag)
  PROVE  flag.number[1] \in MinInt..MaxInt
<1>1. PICK n \in MinInt..MaxInt : flag.number = <<n>>
  BY DEF StoiThrows
<1>. QED  BY <1>1

\* One more flag asks for its number, if it is -r, and else for what was asked before.
LEMMA AskedStep ==
  ASSUME NEW n \in Nat
  PROVE  AskedBy(n + 1) = IF argv.flags[n + 1].opt = "r"
                          THEN Unsigned(argv.flags[n + 1].number[1]) ELSE AskedBy(n)
<1> DEFINE rs(m) == {k \in 1..m : argv.flags[k].opt = "r"}
<1>1. 1..(n + 1) = 1..n \cup {n + 1}
  OBVIOUS
<1>2. CASE argv.flags[n + 1].opt # "r"
  <2>1. rs(n + 1) = rs(n)
    BY <1>1, <1>2
  <2>2. AskedBy(n + 1) = AskedBy(n)
    <3> DEFINE By(s) == IF s = {} THEN 1 ELSE Unsigned(argv.flags[Max(s)].number[1])
    <3>1. AskedBy(n + 1) = By(rs(n + 1)) /\ AskedBy(n) = By(rs(n))
      BY DEF AskedBy
    <3> HIDE DEF By, rs
    <3>. QED  BY <2>1, <3>1
  <2>. QED  BY <1>2, <2>2
<1>3. CASE argv.flags[n + 1].opt = "r"
  <2>1. n + 1 \in rs(n + 1) /\ rs(n + 1) \subseteq Nat /\ \A k \in rs(n + 1) : k <= n + 1
    BY <1>3
  <2>2. IsFiniteSet(rs(n + 1))
    <3>1. n + 1 \in Nat
      OBVIOUS
    <3> HIDE DEF rs
    <3>. QED  BY <2>1, <3>1, FS_BoundedSetOfNaturals
  <2>3. Max(rs(n + 1)) = n + 1
    <3> HIDE DEF rs
    <3>1. Max(rs(n + 1)) \in rs(n + 1) /\ n + 1 <= Max(rs(n + 1))
      BY <2>1, <2>2, MaxFacts
    <3>2. Max(rs(n + 1)) \in Nat /\ Max(rs(n + 1)) <= n + 1
      BY <2>1, <3>1
    <3>. QED  BY <3>1, <3>2
  <2>4. AskedBy(n + 1) = Unsigned(argv.flags[Max(rs(n + 1))].number[1])
    BY <2>1 DEF AskedBy
  <2> HIDE DEF rs
  <2>. QED  BY <1>3, <2>3, <2>4
<1>. QED  BY <1>2, <1>3

\* A flag changes at most one argument, and the number of replicates only to its own.
LEMMA TakeFlagFacts ==
  ASSUME NEW a \in Args, NEW flag, flag.opt \in STRING, flag.arg \in STRING, ~ StoiThrows(flag)
  PROVE  /\ TakeFlag(a, flag) \in Args
         /\ TakeFlag(a, flag).replicats =
              IF flag.opt = "r" THEN Unsigned(flag.number[1]) ELSE a.replicats
         /\ TakeFlag(a, flag).fields = a.fields
<1>1. DOMAIN Stores = {"d", "c", "m", "w", "W"}
  BY DEF Stores
<1>2. CASE flag.opt = "r"
  <2>1. Unsigned(flag.number[1]) \in 0..MaxUnsigned
    BY <1>2, FlagNumber, UnsignedFacts, MaxIntAssumption DEF MinInt
  <2>2. TakeFlag(a, flag) = [a EXCEPT !.replicats = Unsigned(flag.number[1])]
    BY <1>1, <1>2 DEF TakeFlag
  <2>. QED  BY <1>2, <2>1, <2>2 DEF Args
<1>3. CASE flag.opt \in DOMAIN Stores
  <2>1. TakeFlag(a, flag) = [a EXCEPT ![Stores[flag.opt]] = flag.arg]
    <3>1. flag.opt # "r" /\ flag.opt # "h"
      BY <1>1, <1>3
    <3>. QED  BY <1>3, <3>1 DEF TakeFlag
  <2>2. Stores[flag.opt] \in {"datasets", "compressors", "metrics", "compressed_dir", "decompressed_dir"}
    BY <1>1, <1>3 DEF Stores
  <2>. QED  BY <1>1, <1>3, <2>1, <2>2 DEF Args, Paths
<1>4. CASE flag.opt = "h"
  BY <1>1, <1>4 DEF TakeFlag, Args
<1>5. CASE flag.opt \notin DOMAIN Stores \cup {"r", "h"}
  BY <1>1, <1>5 DEF TakeFlag
<1>. QED  BY <1>2, <1>3, <1>4, <1>5

\* AskedBy only looks at the command line.
LEMMA AskedSame ==
  ASSUME argv' = argv
  PROVE  \A n : AskedBy(n)' = AskedBy(n)
BY DEF AskedBy

\* What the first report does to the arguments.
LEMMA PrintRowArgs ==
  ASSUME FlagsInv, NEW results \in Results, PrintRow(results)
  PROVE  args' \in Args /\ args'.replicats = args.replicats /\ (~ first => args' = args)
<1>1. InKeyOrder(DOMAIN results) \in Seq(Nat)
  BY ResultsAssumption, KeyOrderType
<1> DEFINE columns == InKeyOrder(DOMAIN results)
<1>2. args' = args \/ (first /\ args' = [args EXCEPT !.fields = columns])
  BY DEF PrintRow
<1> HIDE DEF columns
<1>3. columns \in Seq(Nat)
  BY <1>1 DEF columns
<1>. QED  BY <1>2, <1>3 DEF FlagsInv, Args

\* The step that a failure and a report end with.
LEMMA NextReplicateFacts ==
  ASSUME FlagsInv, PositionInv, pc \in InReplicate, NextReplicate
  PROVE  /\ pc' = "replicate" /\ i' \in MinInt..MaxInt
         /\ Replicate' = Replicate + 1 /\ Replicate' <= args.replicats
<1>1. Replicate < args.replicats /\ i \in MinInt..MaxInt /\ args.replicats \in 0..MaxUnsigned
  BY DEF PositionInv, FlagsInv, Args
<1>2. MaxUnsigned \in Nat /\ Unsigned(i) \in 0..MaxUnsigned /\ Unsigned(i) < MaxUnsigned
  <2>1. i \in Int
    BY <1>1, MaxIntAssumption DEF MinInt
  <2>. QED  BY <1>1, <2>1, UnsignedFacts DEF Replicate
<1>3. i' = (IF i = MaxInt THEN MinInt ELSE i + 1) /\ pc' = "replicate"
  BY DEF NextReplicate
<1>4. i' \in MinInt..MaxInt /\ Unsigned(i') = Unsigned(i) + 1
  BY <1>1, <1>2, <1>3, NextUnsigned
<1>. QED  BY <1>1, <1>2, <1>3, <1>4 DEF Replicate

LEMMA NextFlags == IInv /\ [Next]_vars => FlagsInv'
<1> SUFFICES ASSUME IInv, [Next]_vars PROVE FlagsInv'
  OBVIOUS
<1>1. FlagsInv
  BY DEF IInv
<1>2. CASE ParseFlag
  <2> DEFINE flag == argv.flags[optind + 1]
  <2>1. /\ argv' = argv /\ pc = "parse" /\ optind \in Nat /\ optind + 1 \in 1..Len(argv.flags)
        /\ Len(argv.flags) \in Nat
    BY <1>1, <1>2, ArgvFacts DEF ParseFlag, FlagsInv
  <2>2. CASE StoiThrows(flag)
    <3>1. pc' = "terminated" /\ optind' = optind /\ args' = args
      BY <1>2, <2>2 DEF ParseFlag
    <3>. QED  BY <1>1, <2>1, <3>1, AskedSame DEF FlagsInv
  <2>3. CASE ~ StoiThrows(flag)
    <3>1. optind' = optind + 1 /\ args' = TakeFlag(args, flag) /\ pc' = "parse"
      BY <1>2, <2>1, <2>3 DEF ParseFlag
    <3>2. args \in Args /\ flag.opt \in STRING /\ flag.arg \in STRING
      BY <1>1, <2>1, ArgvFacts DEF FlagsInv
    <3>3. /\ args' \in Args
          /\ args'.replicats = IF flag.opt = "r" THEN Unsigned(flag.number[1]) ELSE args.replicats
      BY <2>3, <3>1, <3>2, TakeFlagFacts
    <3>4. args'.replicats = AskedBy(optind + 1)
      BY <1>1, <2>1, <3>3, AskedStep DEF FlagsInv
    <3>5. \A k \in 1..(optind + 1) : ~ StoiThrows(argv.flags[k])
      <4>1. 1..(optind + 1) = 1..optind \cup {optind + 1}
        BY <2>1
      <4>. QED  BY <1>1, <2>3, <4>1 DEF FlagsInv
    <3>6. optind + 1 \in 0..Len(argv.flags)
      BY <2>1
    <3>7. AskedBy(optind)' = AskedBy(optind + 1)
      BY <2>1, <3>1 DEF AskedBy
    <3>. QED  BY <1>1, <2>1, <3>1, <3>3, <3>4, <3>5, <3>6, <3>7 DEF FlagsInv
  <2>. QED  BY <2>2, <2>3
<1>3. CASE ParseRest
  <2>1. argv' = argv /\ optind' = optind /\ optind = Len(argv.flags)
    BY <1>3 DEF ParseRest
  <2>2. args' \in Args /\ args'.replicats = args.replicats
    <3>1. args' = [args EXCEPT !.fields = argv.rest]
      BY <1>3 DEF ParseRest
    <3>. QED  BY <1>1, <3>1, ArgvFacts DEF FlagsInv, Args
  <2>. QED  BY <1>1, <2>1, <2>2, AskedSame DEF FlagsInv
<1>4. CASE Report
  <2>1. argv' = argv /\ optind' = optind /\ pc = "report"
    BY <1>4 DEF Report
  <2>2. args' \in Args /\ args'.replicats = args.replicats
    <3>1. CASE args' = args
      BY <1>1, <3>1 DEF FlagsInv
    <3>2. CASE \E results \in Results : PrintRow(results)
      BY <1>1, <3>2, PrintRowArgs
    <3>. QED  BY <1>4, <3>1, <3>2 DEF Report
  <2>. QED  BY <1>1, <2>1, <2>2, AskedSame DEF FlagsInv
<1>5. CASE ~ (ParseFlag \/ ParseRest \/ Report)
  <2>1. argv' = argv /\ optind' = optind /\ args' = args
    BY <1>5 DEF Next, vars, Setup, LoadDataset, LoadCompressor, LoadThrows, StartReplicate, Compress,
                Decompress, EndConfiguration, EndDataset, Return
  <2>2. pc' = pc \/ pc \notin {"parse", "terminated"}
    BY <1>5 DEF Next, vars, Setup, LoadDataset, LoadCompressor, LoadThrows, StartReplicate, Compress,
                Decompress, EndConfiguration, EndDataset, Return
  <2>. QED  BY <1>1, <2>1, <2>2, AskedSame DEF FlagsInv
<1>. QED  BY <1>2, <1>3, <1>4, <1>5

-----------------------------------------------------------------------------
(***************************************************************************)
(* The loops.                                                              *)
(***************************************************************************)

\* The three ways out of compress and decompress, and the two out of the report.
LEMMA CallFacts ==
  ASSUME Compress \/ Decompress
  PROVE  /\ pc \in {"compress", "decompress"}
         /\ UNCHANGED <<argv, optind, args, d, c, first, csv>>
         /\ \/ /\ pc' = IF pc = "compress" THEN "decompress" ELSE "report"
               /\ UNCHANGED <<i, compressor, data, failed>>
            \/ Fails
            \/ Crash
BY DEF Compress, Decompress, Succeeds

LEMMA ReportFacts ==
  ASSUME Report
  PROVE  /\ pc = "report"
         /\ UNCHANGED <<argv, optind, d, c, compressor, failed>>
         /\ \/ /\ \E results \in Results : PrintRow(results)
               /\ \/ NextReplicate /\ FreeBuffers
                  \/ pc' = "terminated" /\ UNCHANGED <<i, data>>
            \/ Crash /\ UNCHANGED <<args, first, csv>>
<1>2. ASSUME NEW results \in Results, PrintRow(results)
      PROVE  /\ UNCHANGED <<compressor, failed>>
             /\ \/ NextReplicate /\ FreeBuffers
                \/ pc' = "terminated" /\ UNCHANGED <<i, data>>
  BY <1>2 DEF PrintRow
<1>3. pc = "report" /\ UNCHANGED <<argv, optind, d, c>>
  BY DEF Report
<1>4. (Crash /\ UNCHANGED <<args, first, csv>>) \/ \E results \in Results : PrintRow(results)
  BY DEF Report
<1>5. Crash => UNCHANGED <<compressor, failed>>
  BY DEF Crash
<1>. QED  BY <1>2, <1>3, <1>4, <1>5

LEMMA NextPosition == IInv /\ [Next]_vars => PositionInv'
<1> SUFFICES ASSUME IInv, [Next]_vars PROVE PositionInv'
  OBVIOUS
<1>1. /\ FlagsInv /\ PositionInv
      /\ NumDatasets \in Nat /\ NumCompressors \in Nat /\ MaxInt \in Nat
      /\ args.replicats \in Nat
  BY SizesAssumption, MaxIntAssumption, UnsignedFacts DEF IInv, FlagsInv, Args
<1>2. CASE ParseFlag
  BY <1>1, <1>2 DEF ParseFlag, PositionInv, PCs, Inner, InReplicate, Replicate
<1>3. CASE ParseRest
  BY <1>1, <1>3 DEF ParseRest, PositionInv, PCs, Inner, InReplicate, Replicate
<1>4. CASE Setup
  BY <1>1, <1>4 DEF Setup, PositionInv, PCs, Inner, InReplicate, Replicate
<1>5. CASE LoadDataset
  BY <1>1, <1>5 DEF LoadDataset, PositionInv, PCs, Inner, InReplicate, Replicate
<1>6. CASE LoadCompressor
  <2>1. i' = 0 /\ Replicate' = 0 /\ 0 \in MinInt..MaxInt
    BY <1>1, <1>6, UnsignedFacts DEF LoadCompressor, Replicate, MinInt
  <2>. QED  BY <1>1, <1>6, <2>1 DEF LoadCompressor, PositionInv, PCs, Inner, InReplicate
<1>7. CASE LoadThrows
  BY <1>1, <1>7 DEF LoadThrows, PositionInv, PCs, Inner, InReplicate, Replicate
<1>8. CASE StartReplicate
  BY <1>1, <1>8 DEF StartReplicate, PositionInv, PCs, Inner, InReplicate, Replicate
<1>9. CASE Compress \/ Decompress
  <2>1. pc \in {"compress", "decompress"} /\ UNCHANGED <<args, d, c>>
    BY <1>9, CallFacts
  <2>2. CASE Fails
    <3>1. /\ pc' = "replicate" /\ i' \in MinInt..MaxInt /\ Replicate' <= args.replicats
      BY <1>1, <2>1, <2>2, NextReplicateFacts DEF Fails, InReplicate
    <3>. QED  BY <1>1, <2>1, <3>1 DEF PositionInv, PCs, Inner, InReplicate
  <2>3. CASE ~ Fails
    <3>1. i' = i /\ pc' \in {"decompress", "report", "terminated"}
      BY <1>9, <2>3, CallFacts DEF Crash
    <3>. QED  BY <1>1, <2>1, <3>1 DEF PositionInv, PCs, Inner, InReplicate, Replicate
  <2>. QED  BY <2>2, <2>3
<1>10. CASE Report
  <2>1. pc = "report" /\ UNCHANGED <<d, c>>
    BY <1>10, ReportFacts
  <2>2. args'.replicats = args.replicats
    BY <1>1, <1>10, ReportFacts, PrintRowArgs
  <2>3. CASE NextReplicate
    <3>1. /\ pc' = "replicate" /\ i' \in MinInt..MaxInt /\ Replicate' <= args.replicats
      BY <1>1, <2>1, <2>3, NextReplicateFacts DEF InReplicate
    <3>. QED  BY <1>1, <2>1, <2>2, <3>1 DEF PositionInv, PCs, Inner, InReplicate
  <2>4. CASE ~ NextReplicate
    <3>1. i' = i /\ pc' = "terminated"
      BY <1>10, <2>4, ReportFacts DEF Crash
    <3>. QED  BY <1>1, <2>1, <3>1 DEF PositionInv, PCs, Inner, InReplicate, Replicate
  <2>. QED  BY <2>3, <2>4
<1>11. CASE EndConfiguration
  BY <1>1, <1>11 DEF EndConfiguration, PositionInv, PCs, Inner, InReplicate, Replicate
<1>12. CASE EndDataset
  BY <1>1, <1>12 DEF EndDataset, PositionInv, PCs, Inner, InReplicate, Replicate
<1>13. CASE Return
  BY <1>1, <1>13 DEF Return, PositionInv, PCs, Inner, InReplicate, Replicate
<1>14. CASE UNCHANGED vars
  BY <1>1, <1>14 DEF vars, PositionInv, Replicate
<1>. QED  BY <1>2, <1>3, <1>4, <1>5, <1>6, <1>7, <1>8, <1>9, <1>10, <1>11, <1>12, <1>13, <1>14 DEF Next

LEMMA NextBuffers == IInv /\ [Next]_vars => BuffersInv'
<1> SUFFICES ASSUME IInv, [Next]_vars PROVE BuffersInv'
  OBVIOUS
<1>1. BuffersInv /\ pc \in PCs
  BY DEF IInv, PositionInv
<1> USE <1>1 DEF BuffersInv, BuffersFreed, PCs
<1>2. CASE Compress \/ Decompress
  <2>1. pc \in {"compress", "decompress"}
    BY <1>2, CallFacts
  <2>2. CASE Fails
    BY <2>2 DEF Fails, FreeBuffers, NextReplicate
  <2>3. CASE ~ Fails
    BY <1>2, <2>3, CallFacts DEF Crash
  <2>. QED  BY <2>2, <2>3
<1>3. CASE Report
  <2>1. CASE NextReplicate /\ FreeBuffers
    BY <2>1 DEF NextReplicate, FreeBuffers
  <2>2. CASE ~ (NextReplicate /\ FreeBuffers)
    BY <1>3, <2>2, ReportFacts DEF Crash
  <2>. QED  BY <2>1, <2>2
<1>4. CASE StartReplicate
  BY <1>4 DEF StartReplicate
<1>5. CASE LoadDataset
  BY <1>5 DEF LoadDataset
<1>6. CASE EndDataset
  BY <1>6 DEF EndDataset
<1>7. CASE ParseFlag \/ ParseRest \/ Setup \/ LoadCompressor \/ LoadThrows \/ EndConfiguration \/ Return
  BY <1>7 DEF ParseFlag, ParseRest, Setup, LoadCompressor, LoadThrows, EndConfiguration, Return
<1>8. CASE UNCHANGED vars
  BY <1>8 DEF vars
<1>. QED  BY <1>2, <1>3, <1>4, <1>5, <1>6, <1>7, <1>8 DEF Next

\* A call on the compressor is on a live one, or after a failure of its configuration.
LEMMA UseFacts ==
  ASSUME CompressorInv, pc \in Inner, Use
  PROVE  \A r \in dangling' : \E f \in failed : f[1] = r[1] /\ f[2] = r[2]
<1>1. compressor = "live" \/ compressor = "released"
  BY DEF CompressorInv
<1>2. CASE compressor = "live"
  BY <1>2 DEF Use, CompressorInv, DanglingOnlyAfterFailure
<1>3. CASE compressor = "released"
  <2>1. dangling' = dangling \cup {This} /\ This[1] = d /\ This[2] = c
    BY <1>3 DEF Use, This
  <2>2. \E f \in failed : f[1] = d /\ f[2] = c
    BY <1>3 DEF CompressorInv
  <2>3. ASSUME NEW r \in dangling' PROVE \E f \in failed : f[1] = r[1] /\ f[2] = r[2]
    <3>1. r \in dangling \/ r = This
      BY <2>1
    <3>2. CASE r \in dangling
      BY <3>2 DEF CompressorInv, DanglingOnlyAfterFailure
    <3>3. CASE r = This
      BY <2>1, <2>2, <3>3
    <3>. QED  BY <3>1, <3>2, <3>3
  <2>. QED  BY <2>3
<1>. QED  BY <1>1, <1>2, <1>3

LEMMA NextCompressor == IInv /\ [Next]_vars => CompressorInv'
<1> SUFFICES ASSUME IInv, [Next]_vars PROVE CompressorInv'
  OBVIOUS
<1>1. CompressorInv /\ pc \in PCs
  BY DEF IInv, PositionInv
<1>2. CASE Compress \/ Decompress
  <2>1. pc \in {"compress", "decompress"} /\ d' = d /\ c' = c /\ Use
    BY <1>2, CallFacts DEF Compress, Decompress
  <2>2. \A r \in dangling' : \E f \in failed : f[1] = r[1] /\ f[2] = r[2]
    BY <1>1, <2>1, UseFacts DEF Inner
  <2>3. CASE Fails
    <3>1. compressor' = "released" /\ failed' = failed \cup {This} /\ pc' = "replicate"
      BY <2>3 DEF Fails, NextReplicate
    <3>2. This \in failed' /\ This[1] = d /\ This[2] = c
      BY <3>1 DEF This
    <3>3. DanglingOnlyAfterFailure'
      BY <2>2, <3>1 DEF DanglingOnlyAfterFailure
    <3>. QED  BY <2>1, <3>1, <3>2, <3>3 DEF CompressorInv
  <2>4. CASE ~ Fails
    <3>1. compressor' = compressor /\ failed' = failed /\ pc' \in {"decompress", "report", "terminated"}
      BY <1>2, <2>4, CallFacts DEF Crash
    <3>2. DanglingOnlyAfterFailure'
      BY <2>2, <3>1 DEF DanglingOnlyAfterFailure
    <3>. QED  BY <1>1, <2>1, <3>1, <3>2 DEF CompressorInv, Inner
  <2>. QED  BY <2>3, <2>4
<1>3. CASE Report
  <2>1. /\ pc = "report" /\ UNCHANGED <<d, c, compressor, failed>> /\ Use
        /\ pc' \in {"replicate", "terminated"}
    BY <1>3, ReportFacts DEF Report, Crash, NextReplicate
  <2>2. DanglingOnlyAfterFailure'
    BY <1>1, <2>1, UseFacts DEF Inner, DanglingOnlyAfterFailure
  <2>. QED  BY <1>1, <2>1, <2>2 DEF CompressorInv, Inner
<1>4. CASE EndConfiguration
  <2>1. /\ pc = "replicate" /\ Use /\ failed' = failed /\ d' = d
        /\ \/ pc' = "configuration" /\ compressor' = "none"
           \/ pc' = "terminated" /\ compressor' = compressor /\ c' = c
    BY <1>4 DEF EndConfiguration, Use
  <2>2. DanglingOnlyAfterFailure'
    BY <1>1, <2>1, UseFacts DEF Inner, DanglingOnlyAfterFailure
  <2>. QED  BY <1>1, <2>1, <2>2 DEF CompressorInv, Inner
<1>5. CASE LoadCompressor
  BY <1>1, <1>5 DEF LoadCompressor, CompressorInv, DanglingOnlyAfterFailure, Inner
<1>6. CASE ParseFlag \/ ParseRest \/ Setup \/ LoadDataset \/ LoadThrows \/ EndDataset \/ Return
  <2>1. /\ UNCHANGED <<compressor, failed, dangling>> /\ pc \in PCs \ Inner
        /\ pc' \in PCs \ Inner /\ pc # "terminated" /\ pc # "done"
    BY <1>6 DEF ParseFlag, ParseRest, Setup, LoadDataset, LoadThrows, EndDataset, Return, PCs, Inner
  <2>2. compressor = "none"
    BY <1>1, <2>1 DEF CompressorInv, PCs, Inner
  <2>3. DanglingOnlyAfterFailure'
    BY <1>1, <2>1 DEF CompressorInv, DanglingOnlyAfterFailure
  <2>. QED  BY <2>1, <2>2, <2>3 DEF CompressorInv
<1>7. CASE StartReplicate
  <2>1. /\ UNCHANGED <<compressor, failed, dangling, d, c>>
        /\ pc = "replicate" /\ pc' \in {"compress", "terminated"}
    BY <1>7 DEF StartReplicate
  <2>. QED  BY <1>1, <2>1 DEF CompressorInv, DanglingOnlyAfterFailure, Inner
<1>8. CASE UNCHANGED vars
  BY <1>1, <1>8 DEF vars, CompressorInv, DanglingOnlyAfterFailure
<1>. QED  BY <1>2, <1>3, <1>4, <1>5, <1>6, <1>7, <1>8 DEF Next

-----------------------------------------------------------------------------
(***************************************************************************)
(* The rows.                                                               *)
(***************************************************************************)

\* The experiment is fixed by the command line.
LEMMA ReplicatesSame ==
  ASSUME argv' = argv
  PROVE  Replicates' = Replicates
BY DEF Replicates, ParseThrows, Asked

\* After parse_args the experiment is the product of the three loop bounds.
LEMMA ReplicatesFacts ==
  ASSUME FlagsInv, pc \notin {"parse", "terminated"}
  PROVE  /\ args.replicats \in Nat
         /\ Replicates = (0..(NumDatasets - 1)) \X (0..(NumCompressors - 1)) \X (0..(args.replicats - 1))
<1>1. optind = Len(argv.flags) /\ DOMAIN argv.flags = 1..Len(argv.flags)
  BY ArgvFacts DEF FlagsInv
<1>2. ~ ParseThrows
  BY <1>1 DEF FlagsInv, ParseThrows
<1>3. Asked = AskedBy(optind)
  BY <1>1 DEF Asked, AskedBy
<1>4. Asked = args.replicats /\ args.replicats \in Nat
  <2>1. args.replicats = AskedBy(optind) /\ args.replicats \in 0..MaxUnsigned
    BY DEF FlagsInv, Args
  <2>. QED  BY <1>3, <2>1, UnsignedFacts
<1>. QED  BY <1>2, <1>4 DEF Replicates

\* The replicate that runs is one of the experiment, and the loops have not left it.
LEMMA ThisFacts ==
  ASSUME FlagsInv, PositionInv, pc \in InReplicate
  PROVE  This \in Replicates /\ ~ Past(This)
<1>1. d \in 0..(NumDatasets - 1) /\ c \in 0..(NumCompressors - 1) /\ Replicate \in 0..(args.replicats - 1)
  <2>1. Replicate \in Nat
    <3>1. i \in Int
      BY MaxIntAssumption DEF PositionInv, MinInt
    <3>. QED  BY <3>1, UnsignedFacts DEF Replicate
  <2>2. args.replicats \in Nat
    BY ReplicatesFacts DEF InReplicate
  <2>3. /\ d \in 0..NumDatasets /\ d < NumDatasets /\ c \in 0..NumCompressors /\ c < NumCompressors
        /\ Replicate < args.replicats
    BY DEF PositionInv, InReplicate, Inner
  <2>. QED  BY <2>1, <2>2, <2>3, SizesAssumption
<1>2. Replicates = (0..(NumDatasets - 1)) \X (0..(NumCompressors - 1)) \X (0..(args.replicats - 1))
  BY ReplicatesFacts DEF InReplicate
<1>3. This = <<d, c, Replicate>>
  BY DEF This
<1>. QED  BY <1>1, <1>2, <1>3, SizesAssumption DEF Past

\* Moving on from a replicate leaves behind exactly that one.
LEMMA PastNext ==
  ASSUME FlagsInv, PositionInv, pc \in InReplicate, NextReplicate, d' = d, c' = c
  PROVE  \A r \in Replicates : Past(r)' <=> Past(r) \/ r = This
<1>1. pc' = "replicate" /\ Replicate' = Replicate + 1
  BY NextReplicateFacts
<1>2. d \in Nat /\ c \in Nat /\ Replicate \in Nat
  <2>1. i \in Int
    BY MaxIntAssumption DEF PositionInv, MinInt
  <2>. QED  BY <2>1, UnsignedFacts, SizesAssumption DEF Replicate, PositionInv
<1>3. ASSUME NEW r \in Replicates
      PROVE  /\ r[1] \in Nat /\ r[2] \in Nat /\ r[3] \in Nat
             /\ r = This <=> r[1] = d /\ r[2] = c /\ r[3] = Replicate
  <2>1. r \in (0..(NumDatasets - 1)) \X (0..(NumCompressors - 1)) \X (0..(args.replicats - 1))
    BY <1>3, ReplicatesFacts DEF InReplicate
  <2>. QED  BY <2>1, SizesAssumption, ReplicatesFacts DEF This, InReplicate
<1>4. ASSUME NEW r \in Replicates
      PROVE  Past(r)' <=> r[1] < d \/ (r[1] = d /\ (r[2] < c \/ (r[2] = c /\ r[3] < Replicate + 1)))
  BY <1>1 DEF Past, Inner
<1>5. ASSUME NEW r \in Replicates
      PROVE  Past(r) <=> r[1] < d \/ (r[1] = d /\ (r[2] < c \/ (r[2] = c /\ r[3] < Replicate)))
  BY DEF Past, Inner, InReplicate
<1>. QED  BY <1>2, <1>3, <1>4, <1>5

\* What a report adds to the rows.
LEMMA PrintRowFacts ==
  ASSUME FlagsInv, RowsInv, pc = "report", NEW results \in Results, PrintRow(results)
  PROVE  /\ IsSequence(csv)' /\ first' = FALSE /\ csv' # <<>>
         /\ DOMAIN csv' = DOMAIN csv \cup {Len(csv) + 1} /\ Len(csv) + 1 \notin DOMAIN csv
         /\ \A k \in DOMAIN csv : csv'[k] = csv[k] /\ Complete(csv'[k].row, fields')
         /\ csv'[Len(csv) + 1].of = This
         /\ Complete(csv'[Len(csv) + 1].row, fields') <=> pc' # "terminated"
         /\ Of' = Of \cup {This}
         /\ ShortRowEndsProgram'
<1> DEFINE options == [k \in DOMAIN results |-> [type |-> results[k], value |-> <<This, k>>]]
           columns == fields'
           new == [of |-> This, row |-> CsvRow(<<d, c>>, options, columns)]
           last == Len(csv) + 1
<1>1. /\ first' = FALSE /\ csv' = Append(csv, new)
      /\ IF Throws(options, columns) THEN pc' = "terminated" ELSE pc' = "replicate"
  BY DEF PrintRow, NextReplicate
<1>2. new.of = This /\ (Complete(new.row, columns) <=> ~ Throws(options, columns))
  <2>1. new.row = CsvRow(<<d, c>>, options, columns) /\ new.of = This
    OBVIOUS
  <2> HIDE DEF new, options, columns
  <2>2. DOMAIN CsvRow(<<d, c>>, options, columns).cells = Reached(options, columns)
    BY DEF CsvRow
  <2>. QED  BY <2>1, <2>2 DEF Complete, Throws
<1> HIDE DEF new, options
<1>3. IsSequence(csv)
  BY DEF RowsInv
<1>4. /\ IsSequence(csv') /\ DOMAIN csv' = DOMAIN csv \cup {last} /\ Len(csv') = last
      /\ last \notin DOMAIN csv
      /\ \A k \in DOMAIN csv : csv'[k] = csv[k]
      /\ csv'[last] = new
  BY <1>1, <1>3, AppendFacts
<1>5. IsSequence(csv)'
  BY <1>4 DEF IsSequence
<1>6. csv' # <<>>
  BY <1>4
<1>7. ASSUME NEW k \in DOMAIN csv PROVE Complete(csv'[k].row, columns)
  <2>1. ~ first
    BY <1>7 DEF RowsInv
  <2>2. columns = fields
    <3>1. args' = args
      BY <2>1, PrintRowArgs
    <3>. QED  BY <3>1 DEF fields
  <2>3. Complete(csv[k].row, fields)
    BY <1>7 DEF RowsInv, ShortRowEndsProgram
  <2>. QED  BY <1>4, <2>2, <2>3
<1>8. csv'[last].of = This /\ (Complete(csv'[last].row, columns) <=> pc' # "terminated")
  BY <1>1, <1>2, <1>4
<1>9. Of' = Of \cup {This}
  BY <1>4, <1>8 DEF Of
<1>10. ShortRowEndsProgram'
  BY <1>4, <1>7, <1>8 DEF ShortRowEndsProgram
<1>. QED  BY <1>1, <1>4, <1>5, <1>6, <1>7, <1>8, <1>9, <1>10

\* A step that prints nothing, fails nothing and leaves no replicate behind.
LEMMA RowsKept ==
  ASSUME RowsInv, UNCHANGED <<argv, csv, first, failed>>, pc # "terminated",
         fields' = fields \/ first,
         pc' \in {"parse", "setup"} => pc \in {"parse", "setup"},
         pc' # "terminated" => \A r \in Replicates : Past(r)' <=> Past(r)
  PROVE  RowsInv'
<1>1. Replicates' = Replicates /\ Of' = Of
  BY ReplicatesSame DEF Of
<1>2. pc' # "terminated" => \A r \in Replicates' : Past(r)' <=> r \in Of' \cup failed'
  BY <1>1 DEF RowsInv
<1>3. ShortRowEndsProgram'
  <2>1. CASE first
    BY <2>1 DEF RowsInv, ShortRowEndsProgram
  <2>2. CASE ~ first
    BY <2>2 DEF RowsInv, ShortRowEndsProgram
  <2>. QED  BY <2>1, <2>2 DEF RowsInv
<1>4. IsSequence(csv)'
  BY DEF RowsInv, IsSequence
<1>. QED  BY <1>1, <1>2, <1>3, <1>4 DEF RowsInv

\* No step but a failure and a report leaves a replicate behind.
LEMMA PastKept ==
  ASSUME FlagsInv, PositionInv, UNCHANGED d,
         \/ pc \in PCs \ (Inner \cup {"configuration"}) /\ pc' \in PCs \ (Inner \cup {"configuration"})
         \/ LoadDataset
         \/ LoadCompressor
         \/ pc \in Inner /\ pc' \in Inner /\ UNCHANGED <<c, i>>
         \/ EndConfiguration /\ pc' = "configuration"
  PROVE  \A r \in Replicates : Past(r)' <=> Past(r)
<1>1. CASE pc \in PCs \ (Inner \cup {"configuration"}) /\ pc' \in PCs \ (Inner \cup {"configuration"})
  BY <1>1 DEF Past
<1>2. CASE pc \in Inner /\ pc' \in Inner /\ UNCHANGED <<c, i>>
  BY <1>2 DEF Past, Replicate
<1>3. CASE /\ pc \notin {"parse", "terminated"}
           /\ LoadDataset \/ LoadCompressor \/ (EndConfiguration /\ pc' = "configuration")
  <2>1. ASSUME NEW r \in Replicates
        PROVE  /\ r[1] \in Nat /\ r[2] \in Nat /\ r[3] \in Nat
               /\ r[3] < args.replicats
    BY <1>3, ReplicatesFacts, SizesAssumption
  <2>2. d \in Nat /\ c \in Nat
    BY SizesAssumption DEF PositionInv
  <2>3. CASE LoadDataset
    <3>1. pc = "dataset" /\ pc' = "configuration" /\ c' = 0
      BY <2>3 DEF LoadDataset
    <3>. QED  BY <2>1, <2>2, <3>1 DEF Past, Inner
  <2>4. CASE LoadCompressor
    <3>1. pc = "configuration" /\ pc' = "replicate" /\ c' = c /\ Replicate' = 0
      BY <2>4, UnsignedFacts, MaxIntAssumption DEF LoadCompressor, Replicate
    <3>. QED  BY <2>1, <2>2, <3>1 DEF Past, Inner
  <2>5. CASE EndConfiguration /\ pc' = "configuration"
    <3>1. pc = "replicate" /\ pc' = "configuration" /\ c' = c + 1 /\ Replicate >= args.replicats
      BY <2>5 DEF EndConfiguration
    <3>2. Replicate \in Nat /\ args.replicats \in Nat
      <4>1. i \in Int
        BY MaxIntAssumption DEF PositionInv, MinInt
      <4>. QED  BY <1>3, <4>1, UnsignedFacts, ReplicatesFacts DEF Replicate
    <3>3. \A r \in Replicates : r[3] < Replicate /\ (r[2] < c + 1 <=> r[2] < c \/ r[2] = c)
      BY <2>1, <2>2, <3>1, <3>2
    <3>4. \A r \in Replicates : Past(r)' <=> r[1] < d \/ (r[1] = d /\ r[2] < c + 1)
      BY <3>1 DEF Past, Inner
    <3>5. \A r \in Replicates :
            Past(r) <=> r[1] < d \/ (r[1] = d /\ (r[2] < c \/ (r[2] = c /\ r[3] < Replicate)))
      BY <3>1 DEF Past, Inner
    <3>. QED  BY <3>3, <3>4, <3>5
  <2>. QED  BY <1>3, <2>3, <2>4, <2>5
<1>4. LoadDataset \/ LoadCompressor \/ EndConfiguration => pc \notin {"parse", "terminated"}
  BY DEF LoadDataset, LoadCompressor, EndConfiguration
<1>. QED  BY <1>1, <1>2, <1>3, <1>4

LEMMA NextRows == IInv /\ [Next]_vars => RowsInv'
<1> SUFFICES ASSUME IInv, [Next]_vars PROVE RowsInv'
  OBVIOUS
<1>1. FlagsInv /\ PositionInv /\ RowsInv /\ pc \in PCs
  BY DEF IInv, PositionInv
<1>2. CASE Compress \/ Decompress
  <2>1. pc \in {"compress", "decompress"} /\ UNCHANGED <<argv, args, d, c, first, csv>>
    BY <1>2, CallFacts
  <2>2. CASE Fails
    <3>1. NextReplicate /\ failed' = failed \cup {This} /\ pc' = "replicate"
      BY <2>2 DEF Fails, NextReplicate
    <3>2. \A r \in Replicates : Past(r)' <=> Past(r) \/ r = This
      BY <1>1, <2>1, <3>1, PastNext DEF InReplicate
    <3>3. This \in Replicates /\ ~ Past(This)
      BY <1>1, <2>1, ThisFacts DEF InReplicate
    <3>4. Replicates' = Replicates /\ Of' = Of
      BY <2>1, ReplicatesSame DEF Of
    <3>5. \A r \in Replicates : Past(r) <=> r \in Of \cup failed
      BY <1>1, <2>1 DEF RowsInv
    <3>6. This \notin Of
      BY <3>3, <3>5
    <3>7. /\ failed' \subseteq Replicates /\ Of \cap failed' = {} /\ Of \subseteq Replicates
      BY <1>1, <3>1, <3>3, <3>6 DEF RowsInv
    <3>8. \A r \in Replicates : Past(r)' <=> r \in Of \cup failed'
      BY <3>1, <3>2, <3>5
    <3>9. ShortRowEndsProgram'
      BY <1>1, <2>1 DEF RowsInv, ShortRowEndsProgram, fields
    <3>10. IsSequence(csv)' /\ (first => csv = <<>>) /\ first \in BOOLEAN
      BY <1>1, <2>1 DEF RowsInv, IsSequence
    <3>. QED  BY <2>1, <3>1, <3>4, <3>7, <3>8, <3>9, <3>10 DEF RowsInv
  <2>3. CASE ~ Fails
    <3>1. UNCHANGED <<i, failed>> /\ pc' \in {"decompress", "report", "terminated"}
      BY <1>2, <2>3, CallFacts DEF Crash
    <3>2. pc' # "terminated" => \A r \in Replicates : Past(r)' <=> Past(r)
      BY <1>1, <2>1, <3>1, PastKept DEF Inner
    <3>3. fields' = fields
      BY <2>1 DEF fields
    <3>. QED  BY <1>1, <2>1, <3>1, <3>2, <3>3, RowsKept
  <2>. QED  BY <2>2, <2>3
<1>3. CASE Report
  <2>1. /\ pc = "report" /\ UNCHANGED <<argv, d, c, failed>>
        /\ pc' \in {"replicate", "terminated"}
    BY <1>3, ReportFacts DEF NextReplicate, Crash
  <2>2. ASSUME NEW results \in Results, PrintRow(results) PROVE RowsInv'
    <3>1. /\ IsSequence(csv)' /\ first' = FALSE
          /\ Of' = Of \cup {This}
          /\ ShortRowEndsProgram'
      BY <1>1, <2>1, <2>2, PrintRowFacts
    <3>2. This \in Replicates /\ ~ Past(This)
      BY <1>1, <2>1, ThisFacts DEF InReplicate
    <3>3. Replicates' = Replicates
      BY <2>1, ReplicatesSame
    <3>4. \A r \in Replicates : Past(r) <=> r \in Of \cup failed
      BY <1>1, <2>1 DEF RowsInv
    <3>5. Of' \subseteq Replicates /\ failed \subseteq Replicates /\ Of' \cap failed = {}
      BY <1>1, <3>1, <3>2, <3>4 DEF RowsInv
    <3>6. ASSUME pc' # "terminated" PROVE \A r \in Replicates : Past(r)' <=> r \in Of' \cup failed
      <4>1. NextReplicate
        BY <2>2, <3>6 DEF PrintRow
      <4>2. \A r \in Replicates : Past(r)' <=> Past(r) \/ r = This
        BY <1>1, <2>1, <4>1, PastNext DEF InReplicate
      <4>. QED  BY <3>1, <3>4, <4>2
    <3>. QED  BY <2>1, <3>1, <3>3, <3>5, <3>6 DEF RowsInv
  <2>3. CASE Crash /\ UNCHANGED <<args, first, csv>>
    <3>1. pc' = "terminated" /\ fields' = fields
      BY <2>3 DEF Crash, fields
    <3>. QED  BY <1>1, <2>1, <2>3, <3>1, RowsKept
  <2>. QED  BY <1>3, <2>2, <2>3 DEF Report
<1>4. CASE ParseFlag \/ ParseRest
  <2>1. /\ UNCHANGED <<argv, csv, first, failed, d>> /\ pc = "parse"
        /\ pc' \in {"parse", "setup", "terminated"}
    BY <1>4 DEF ParseFlag, ParseRest
  <2>2. first
    BY <1>1, <2>1 DEF RowsInv
  <2>3. pc' # "terminated" => \A r \in Replicates : Past(r)' <=> Past(r)
    BY <1>1, <2>1, PastKept DEF Inner, PCs
  <2>. QED  BY <1>1, <2>1, <2>2, <2>3, RowsKept
<1>5. CASE Setup \/ LoadDataset \/ LoadCompressor \/ LoadThrows \/ StartReplicate \/ EndConfiguration \/ Return
  <2>1. /\ UNCHANGED <<argv, args, csv, first, failed, d>> /\ pc # "terminated"
        /\ pc' \notin {"parse", "setup"}
    BY <1>5 DEF Setup, LoadDataset, LoadCompressor, LoadThrows, StartReplicate, EndConfiguration, Return
  <2>2. fields' = fields
    BY <2>1 DEF fields
  <2>3. CASE Setup \/ LoadThrows \/ Return
    <3>1. pc' = "terminated" \/ (pc \in {"setup", "dataset"} /\ pc' \in {"dataset", "done"})
      BY <2>3 DEF Setup, LoadThrows, Return
    <3>2. pc' # "terminated" => \A r \in Replicates : Past(r)' <=> Past(r)
      BY <1>1, <2>1, <3>1, PastKept DEF Inner, PCs
    <3>. QED  BY <1>1, <2>1, <2>2, <3>2, RowsKept
  <2>4. CASE StartReplicate
    <3>1. pc = "replicate" /\ pc' \in {"compress", "terminated"} /\ UNCHANGED <<c, i>>
      BY <2>4 DEF StartReplicate
    <3>2. pc' # "terminated" => \A r \in Replicates : Past(r)' <=> Past(r)
      BY <1>1, <2>1, <3>1, PastKept DEF Inner
    <3>. QED  BY <1>1, <2>1, <2>2, <3>2, RowsKept
  <2>5. CASE LoadDataset \/ LoadCompressor
    <3>1. \A r \in Replicates : Past(r)' <=> Past(r)
      BY <1>1, <2>1, <2>5, PastKept
    <3>. QED  BY <1>1, <2>1, <2>2, <3>1, RowsKept
  <2>6. CASE EndConfiguration
    <3>1. pc' \in {"configuration", "terminated"}
      BY <2>6 DEF EndConfiguration
    <3>2. pc' # "terminated" => \A r \in Replicates : Past(r)' <=> Past(r)
      BY <1>1, <2>1, <2>6, <3>1, PastKept
    <3>. QED  BY <1>1, <2>1, <2>2, <3>2, RowsKept
  <2>. QED  BY <1>5, <2>3, <2>4, <2>5, <2>6
<1>6. CASE EndDataset
  <2>1. /\ UNCHANGED <<argv, args, csv, first, failed>> /\ d' = d + 1 /\ c = NumCompressors
        /\ pc = "configuration" /\ pc' = "dataset"
    BY <1>6 DEF EndDataset
  <2>2. fields' = fields
    BY <2>1 DEF fields
  <2>3. ASSUME NEW r \in Replicates PROVE Past(r)' <=> Past(r)
    <3>1. r \in (0..(NumDatasets - 1)) \X (0..(NumCompressors - 1)) \X (0..(args.replicats - 1))
      BY <1>1, <2>1, <2>3, ReplicatesFacts
    <3>2. r[1] \in Nat /\ r[2] \in Nat /\ r[2] < c
      BY <2>1, <3>1, SizesAssumption
    <3>3. d \in Nat
      BY <1>1, SizesAssumption DEF PositionInv
    <3>4. (Past(r)' <=> r[1] < d + 1) /\ (Past(r) <=> r[1] < d \/ r[1] = d)
      BY <2>1, <3>2 DEF Past, Inner
    <3>. QED  BY <3>2, <3>3, <3>4
  <2>. QED  BY <1>1, <2>1, <2>2, <2>3, RowsKept
<1>7. CASE UNCHANGED vars
  <2>1. UNCHANGED <<argv, csv, first, failed, pc, d, c, i, args>>
    BY <1>7 DEF vars
  <2>2. Replicates' = Replicates /\ Of' = Of
    BY <2>1, ReplicatesSame DEF Of
  <2>3. \A r : Past(r)' <=> Past(r)
    BY <2>1 DEF Past, Replicate
  <2>4. ShortRowEndsProgram' /\ IsSequence(csv)'
    BY <1>1, <2>1 DEF RowsInv, ShortRowEndsProgram, IsSequence, fields
  <2>. QED  BY <1>1, <2>1, <2>2, <2>3, <2>4 DEF RowsInv
<1>. QED  BY <1>2, <1>3, <1>4, <1>5, <1>6, <1>7 DEF Next

LEMMA DefaultsType == Defaults \in Args /\ Defaults.replicats = 1
<1>1. 1 \in 0..MaxUnsigned
  BY MaxIntAssumption DEF MaxUnsigned
<1>. QED  BY <1>1 DEF Defaults, Args, Paths

LEMMA InitIInv == Init => IInv
<1> SUFFICES ASSUME Init PROVE IInv
  OBVIOUS
<1> USE DEF Init
<1>1. FlagsInv
  <2>1. Defaults \in Args /\ Defaults.replicats = 1
    BY DefaultsType
  <2>2. 1..0 = {}
    OBVIOUS
  <2>3. AskedBy(0) = 1
    BY <2>2 DEF AskedBy
  <2>4. Len(argv.flags) \in Nat
    <3>1. argv \in [flags : Seq([opt : STRING, arg : STRING, number : Seq(Int)]), rest : Seq(Nat)]
      BY CommandLinesAssumption
    <3>. QED  BY <3>1
  <2>. QED  BY <2>1, <2>2, <2>3, <2>4 DEF FlagsInv
<1>2. PositionInv
  BY SizesAssumption, MaxIntAssumption DEF PositionInv, PCs, Inner, InReplicate, MinInt
<1>3. BuffersInv /\ CompressorInv
  BY DEF BuffersInv, BuffersFreed, CompressorInv, DanglingOnlyAfterFailure, Inner
<1>4. RowsInv
  <2>1. Of = {} /\ IsSequence(csv) /\ ShortRowEndsProgram
    BY DEF Of, IsSequence, ShortRowEndsProgram
  <2>2. \A r \in Replicates : ~ Past(r)
    <3>1. \A r \in Replicates : r[1] \in Nat
      BY SizesAssumption DEF Replicates
    <3>. QED  BY <3>1 DEF Past, Inner
  <2>. QED  BY <2>1, <2>2 DEF RowsInv
<1>. QED  BY <1>1, <1>2, <1>3, <1>4 DEF IInv

LEMMA Invariance == Spec => []IInv
<1>1. IInv /\ [Next]_vars => IInv'
  BY NextFlags, NextPosition, NextBuffers, NextCompressor, NextRows DEF IInv
<1>. QED  BY <1>1, InitIInv, PTL DEF Spec

-----------------------------------------------------------------------------
(***************************************************************************)
(* The theorems.                                                           *)
(***************************************************************************)

\* Type correctness: the loops stay within their bounds, and every row and every
\* failure is of a replicate that was asked for.
THEOREM TypeCorrect == Spec => []TypeOK
<1>1. IInv => TypeOK
  <2> SUFFICES ASSUME IInv PROVE TypeOK
    OBVIOUS
  <2>1. \A k \in DOMAIN csv : csv[k].of \in Replicates
    BY DEF IInv, RowsInv, Of
  <2>. QED  BY <2>1 DEF IInv, FlagsInv, PositionInv, BuffersInv, CompressorInv, RowsInv, TypeOK, Args, fields
<1>. QED  BY <1>1, Invariance, PTL

\* No branch of a replicate leaves a buffer behind.
THEOREM NothingLeaks == Spec => []BuffersFreed
<1>1. IInv => BuffersFreed
  BY DEF IInv, BuffersInv
<1>. QED  BY <1>1, Invariance, PTL

\* Every use of a released compressor follows a failure of its configuration.
THEOREM DanglesOnlyAfterFailure == Spec => []DanglingOnlyAfterFailure
<1>1. IInv => DanglingOnlyAfterFailure
  BY DEF IInv, CompressorInv
<1>. QED  BY <1>1, Invariance, PTL

\* A row without all of its cells is the last, and ends the program.
THEOREM RowsAreWhole == Spec => []ShortRowEndsProgram
<1>1. IInv => ShortRowEndsProgram
  BY DEF IInv, RowsInv
<1>. QED  BY <1>1, Invariance, PTL

\* When main returns the loops have left every replicate behind.
LEMMA AllPast == IInv /\ pc = "done" => Of = Replicates \ failed
<1> SUFFICES ASSUME IInv, pc = "done" PROVE Of = Replicates \ failed
  OBVIOUS
<1>1. FlagsInv /\ PositionInv /\ RowsInv /\ d = NumDatasets
  BY DEF IInv, PositionInv
<1>2. ASSUME NEW r \in Replicates PROVE Past(r)
  <2>1. r \in (0..(NumDatasets - 1)) \X (0..(NumCompressors - 1)) \X (0..(args.replicats - 1))
    BY <1>1, <1>2, ReplicatesFacts
  <2>. QED  BY <1>1, <2>1, SizesAssumption DEF Past
<1>. QED  BY <1>1, <1>2 DEF RowsInv

\* A program that returns has printed the replicates that did not fail, for any -r.
THEOREM SuccessesAreReported == Spec => []RowsAreSuccesses
<1>1. IInv => RowsAreSuccesses
  BY AllPast DEF RowsAreSuccesses, Of
<1>. QED  BY <1>1, Invariance, PTL

-----------------------------------------------------------------------------
(***************************************************************************)
(* main does not loop for ever: it goes on, and never goes back.           *)
(***************************************************************************)

\* The guards of the steps that do not fail; ENABLED Next is their disjunction.
MainGoesOn ==
  \/ pc = "parse" /\ (optind < Len(argv.flags) \/ optind = Len(argv.flags))
  \/ pc = "dataset" /\ (d < NumDatasets \/ d = NumDatasets)
  \/ pc = "configuration" /\ (c < NumCompressors \/ c = NumCompressors)
  \/ pc = "replicate" /\ (Replicate < args.replicats \/ Replicate >= args.replicats)
  \/ pc \in {"setup", "compress", "decompress", "report"}

PositionBounded ==
  Position \in
    (0..3) \X (0..Len(argv.flags)) \X (0..NumDatasets) \X (0..(NumCompressors + 1))
      \X (0..(MaxUnsigned + 1)) \X (0..3)

LEMMA PositionType ==
  ASSUME FlagsInv, PositionInv
  PROVE  /\ PositionBounded
         /\ DOMAIN Position = 1..6
         /\ d \in Nat /\ c \in Nat /\ optind \in Nat /\ Replicate \in Nat
<1>1. i \in Int /\ Replicate \in 0..MaxUnsigned /\ MaxUnsigned \in Nat
  BY MaxIntAssumption, UnsignedFacts DEF PositionInv, MinInt, Replicate
<1>2. d \in 0..NumDatasets /\ c \in 0..NumCompressors /\ optind \in 0..Len(argv.flags)
  BY DEF PositionInv, FlagsInv
<1>3. NumDatasets \in Nat /\ NumCompressors \in Nat /\ Len(argv.flags) \in Nat
  BY SizesAssumption, ArgvFacts
<1>4. Position[1] \in 0..3 /\ Position[6] \in 0..3
  BY DEF Position
<1>5. Position[4] \in 0..(NumCompressors + 1)
  BY <1>2, <1>3 DEF Position
<1>6. Position[5] \in 0..(MaxUnsigned + 1)
  BY <1>1 DEF Position
<1>7. PositionBounded
  BY <1>2, <1>4, <1>5, <1>6 DEF Position, PositionBounded
<1>8. DOMAIN Position = 1..6
  BY DEF Position
<1>. QED  BY <1>1, <1>2, <1>3, <1>7, <1>8

LEMMA NextAdvances ==
  ASSUME IInv, Next
  PROVE  Later(Position, Position')
<1> DEFINE p == Position
           q == Position'
<1>1. /\ FlagsInv /\ PositionInv /\ pc \in PCs
      /\ DOMAIN p = 1..6
      /\ d \in Nat /\ c \in Nat /\ optind \in Nat /\ Replicate \in Nat
  BY PositionType DEF IInv, PositionInv
<1>2. ASSUME p[1] < q[1] PROVE Later(p, q)
  <2>1. 1 \in DOMAIN p /\ 1..(1 - 1) = {}
    BY <1>1
  <2> HIDE DEF p, q
  <2>. QED  BY <1>2, <2>1, LaterAt
<1>3. ASSUME p[1] = q[1], p[2] < q[2] PROVE Later(p, q)
  <2>1. 2 \in DOMAIN p /\ 1..(2 - 1) = {1}
    BY <1>1
  <2> HIDE DEF p, q
  <2>. QED  BY <1>3, <2>1, LaterAt
<1>4. ASSUME p[1] = q[1], p[2] = q[2], p[3] < q[3] PROVE Later(p, q)
  <2>1. 3 \in DOMAIN p /\ 1..(3 - 1) = {1, 2}
    BY <1>1
  <2> HIDE DEF p, q
  <2>. QED  BY <1>4, <2>1, LaterAt
<1>5. ASSUME p[1] = q[1], p[2] = q[2], p[3] = q[3], p[4] < q[4] PROVE Later(p, q)
  <2>1. 4 \in DOMAIN p /\ 1..(4 - 1) = {1, 2, 3}
    BY <1>1
  <2> HIDE DEF p, q
  <2>. QED  BY <1>5, <2>1, LaterAt
<1>6. ASSUME p[1] = q[1], p[2] = q[2], p[3] = q[3], p[4] = q[4], p[5] < q[5] PROVE Later(p, q)
  <2>1. 5 \in DOMAIN p /\ 1..(5 - 1) = {1, 2, 3, 4}
    BY <1>1
  <2> HIDE DEF p, q
  <2>. QED  BY <1>6, <2>1, LaterAt
<1>7. ASSUME p[1] = q[1], p[2] = q[2], p[3] = q[3], p[4] = q[4], p[5] = q[5], p[6] < q[6]
      PROVE  Later(p, q)
  <2>1. 6 \in DOMAIN p /\ 1..(6 - 1) = {1, 2, 3, 4, 5}
    BY <1>1
  <2> HIDE DEF p, q
  <2>. QED  BY <1>7, <2>1, LaterAt
\* The program ends.
<1>8. ASSUME pc \notin {"done", "terminated"}, pc' \in {"done", "terminated"} PROVE Later(p, q)
  <2>1. p[1] < q[1]
    BY <1>8 DEF Position
  <2>. QED  BY <1>2, <2>1
\* The next replicate of the same configuration.
<1>9. ASSUME pc \in InReplicate, NextReplicate, UNCHANGED <<optind, d, c>> PROVE Later(p, q)
  <2>1. pc' = "replicate" /\ Replicate' = Replicate + 1
    BY <1>1, <1>9, NextReplicateFacts
  <2>2. p[1] = 2 /\ p[2] = optind /\ p[3] = d /\ p[4] = c + 1 /\ p[5] = Replicate + 1
    BY <1>9 DEF Position, InReplicate
  <2>3. q[1] = 2 /\ q[2] = optind /\ q[3] = d /\ q[4] = c + 1 /\ q[5] = Replicate + 1 + 1
    BY <1>9, <2>1 DEF Position
  <2>. QED  BY <1>1, <1>6, <2>2, <2>3
\* The next step of the same replicate.
<1>10. ASSUME UNCHANGED <<optind, d, c, i>>,
              \/ pc = "replicate" /\ pc' = "compress"
              \/ pc = "compress" /\ pc' = "decompress"
              \/ pc = "decompress" /\ pc' = "report"
       PROVE  Later(p, q)
  <2>1. p[1] = 2 /\ p[2] = optind /\ p[3] = d /\ p[4] = c + 1 /\ p[5] = Replicate + 1
    BY <1>10 DEF Position
  <2>2. q[1] = 2 /\ q[2] = optind /\ q[3] = d /\ q[4] = c + 1 /\ q[5] = Replicate + 1
    BY <1>10 DEF Position, Replicate
  <2>3. p[6] < q[6]
    BY <1>10 DEF Position
  <2>. QED  BY <1>7, <2>1, <2>2, <2>3
<1>11. CASE ParseFlag
  <2>1. CASE pc' = "terminated"
    BY <1>8, <1>11, <2>1 DEF ParseFlag
  <2>2. CASE pc' # "terminated"
    <3>1. pc = "parse" /\ pc' = "parse" /\ optind' = optind + 1
      BY <1>11, <2>2 DEF ParseFlag
    <3>2. p[1] = q[1] /\ p[2] = optind /\ q[2] = optind + 1
      BY <3>1 DEF Position
    <3>. QED  BY <1>1, <1>3, <3>2
  <2>. QED  BY <2>1, <2>2
<1>12. CASE ParseRest \/ Setup
  <2>1. \/ pc = "parse" /\ pc' = "setup"
        \/ pc = "setup" /\ pc' \in {"dataset", "terminated"}
    BY <1>12 DEF ParseRest, Setup
  <2>2. p[1] < q[1]
    BY <2>1 DEF Position
  <2>. QED  BY <1>2, <2>2
<1>13. CASE LoadDataset
  <2>1. pc = "dataset" /\ pc' = "configuration" /\ c' = 0 /\ UNCHANGED <<optind, d>>
    BY <1>13 DEF LoadDataset
  <2>2. p[1] = q[1] /\ p[2] = q[2] /\ p[3] = q[3] /\ p[4] = 0 /\ q[4] = 1
    BY <2>1 DEF Position
  <2>. QED  BY <1>5, <2>2
<1>14. CASE LoadCompressor
  <2>1. pc = "configuration" /\ pc' = "replicate" /\ i' = 0 /\ UNCHANGED <<optind, d, c>>
    BY <1>14 DEF LoadCompressor
  <2>2. Replicate' = 0
    BY <2>1, UnsignedFacts, MaxIntAssumption DEF Replicate
  <2>3. /\ p[1] = q[1] /\ p[2] = q[2] /\ p[3] = q[3] /\ p[4] = q[4]
        /\ p[5] = 0 /\ q[5] = 1
    BY <2>1, <2>2 DEF Position
  <2>. QED  BY <1>6, <2>3
<1>15. CASE LoadThrows \/ Return
  BY <1>8, <1>15 DEF LoadThrows, Return
<1>16. CASE StartReplicate
  <2>1. pc = "replicate" /\ pc' \in {"compress", "terminated"} /\ UNCHANGED <<optind, d, c, i>>
    BY <1>16 DEF StartReplicate
  <2>. QED  BY <1>8, <1>10, <2>1
<1>17. CASE Compress \/ Decompress
  <2>1. pc \in {"compress", "decompress"} /\ UNCHANGED <<optind, d, c>>
    BY <1>17, CallFacts
  <2>2. \/ pc' = (IF pc = "compress" THEN "decompress" ELSE "report") /\ UNCHANGED i
        \/ NextReplicate
        \/ pc' = "terminated"
    BY <1>17, CallFacts DEF Fails, Crash
  <2>3. CASE NextReplicate
    BY <1>9, <2>1, <2>3 DEF InReplicate
  <2>. QED  BY <1>8, <1>10, <2>1, <2>2, <2>3
<1>18. CASE Report
  <2>1. pc = "report" /\ UNCHANGED <<optind, d, c>>
    BY <1>18, ReportFacts
  <2>2. NextReplicate \/ pc' = "terminated"
    BY <1>18, ReportFacts DEF Crash
  <2>. QED  BY <1>8, <1>9, <2>1, <2>2 DEF InReplicate
<1>19. CASE EndConfiguration
  <2>1. /\ pc = "replicate" /\ UNCHANGED <<optind, d>>
        /\ pc' = "terminated" \/ (pc' = "configuration" /\ c' = c + 1)
    BY <1>19 DEF EndConfiguration
  <2>2. CASE pc' = "configuration" /\ c' = c + 1
    <3>1. /\ p[1] = q[1] /\ p[2] = q[2] /\ p[3] = q[3]
          /\ p[4] = c + 1 /\ q[4] = c + 1 + 1
      BY <2>1, <2>2 DEF Position
    <3>. QED  BY <1>1, <1>5, <3>1
  <2>. QED  BY <1>8, <2>1, <2>2
<1>20. CASE EndDataset
  <2>1. pc = "configuration" /\ pc' = "dataset" /\ d' = d + 1 /\ UNCHANGED optind
    BY <1>20 DEF EndDataset
  <2>2. p[1] = q[1] /\ p[2] = q[2] /\ p[3] = d /\ q[3] = d + 1
    BY <2>1 DEF Position
  <2>. QED  BY <1>1, <1>4, <2>2
<1>. QED
  BY <1>11, <1>12, <1>13, <1>14, <1>15, <1>16, <1>17, <1>18, <1>19, <1>20 DEF Next

\* The loops never go back, for any -r and any width of int.
THEOREM MainNeverGoesBack == Spec => LoopsOnlyAdvance
<1>1. IInv /\ [Next]_vars => [Later(Position, Position')]_vars
  BY NextAdvances
<1>. QED  BY <1>1, Invariance, PTL DEF Spec, LoopsOnlyAdvance

\* main has a next step until it has ended, and its positions are bounded: the loops end
\* at their bounds and never skip them, so with weak fairness of Next the program ends.
THEOREM MainGoesOnUntilItEnds ==
  Spec => [](PositionBounded /\ (MainGoesOn \/ pc \in {"done", "terminated"}))
<1>1. IInv => PositionBounded /\ (MainGoesOn \/ pc \in {"done", "terminated"})
  <2> SUFFICES ASSUME IInv PROVE PositionBounded /\ (MainGoesOn \/ pc \in {"done", "terminated"})
    OBVIOUS
  <2>1. FlagsInv /\ PositionInv
    BY DEF IInv
  <2>2. /\ d \in 0..NumDatasets /\ c \in 0..NumCompressors /\ optind \in 0..Len(argv.flags)
        /\ NumDatasets \in Nat /\ NumCompressors \in Nat /\ Len(argv.flags) \in Nat
        /\ pc \in PCs
    BY <2>1, SizesAssumption, ArgvFacts DEF PositionInv, FlagsInv
  <2>3. Replicate \in Nat /\ args.replicats \in Nat
    BY <2>1, PositionType, UnsignedFacts DEF FlagsInv, Args
  <2>4. MainGoesOn \/ pc \in {"done", "terminated"}
    BY <2>2, <2>3 DEF MainGoesOn, PCs
  <2>. QED  BY <2>1, <2>4, PositionType
<1>. QED  BY <1>1, Invariance, PTL

-----------------------------------------------------------------------------
(***************************************************************************)
(* The refinement of BatchRows: a row is a Report, a failure is the Skip   *)
(* of the replicate, Return is the End, and every other step leaves the    *)
(* rows and the failures alone.                                            *)
(***************************************************************************)
LEMMA RowsInit == Init => Rows!Init
BY DEF Init, Rows!Init, Printed

\* The replicates taken are those with a row and those that failed, and between two
\* steps every row that was printed is whole.
LEMMA TakenFacts ==
  ASSUME RowsInv
  PROVE  /\ Rows!Taken = Of \cup failed
         /\ pc \notin {"terminated", "done"} => Rows!Goes
<1>1. Rows!Taken = Of \cup failed
  BY DEF Printed, Of, Rows!Taken
<1>2. pc # "terminated" => \A k \in DOMAIN Printed : Printed[k].whole
  BY DEF RowsInv, ShortRowEndsProgram, Printed
<1>. QED  BY <1>1, <1>2 DEF Rows!Goes

\* A replicate that was taken comes before the one that runs.
LEMMA ThisIsNext ==
  ASSUME IInv, pc \in InReplicate
  PROVE  /\ This \in Replicates /\ Rows!Goes
         /\ This \notin Rows!Taken /\ \A r \in Rows!Taken : Later(r, This)
<1>1. FlagsInv /\ PositionInv /\ RowsInv /\ pc \notin {"parse", "terminated", "done"}
  BY DEF IInv, InReplicate
<1>2. This \in Replicates /\ ~ Past(This)
  BY <1>1, ThisFacts
<1>3. Rows!Taken = Of \cup failed /\ Rows!Goes
  BY <1>1, TakenFacts
<1>4. This \notin Rows!Taken
  BY <1>1, <1>2, <1>3 DEF RowsInv
<1>5. ASSUME NEW r \in Rows!Taken PROVE Later(r, This)
  <2>1. r \in Replicates /\ Past(r)
    BY <1>1, <1>3, <1>5 DEF RowsInv
  <2>2. Replicates = (0..(NumDatasets - 1)) \X (0..(NumCompressors - 1)) \X (0..(args.replicats - 1))
    BY <1>1, ReplicatesFacts
  <2>3. /\ r = <<r[1], r[2], r[3]>> /\ r[1] \in Nat /\ r[2] \in Nat /\ r[3] \in Nat
        /\ This = <<d, c, Replicate>> /\ d \in Nat /\ c \in Nat /\ Replicate \in Nat
    <3>1. args.replicats \in Nat
      BY <1>1, ReplicatesFacts
    <3>2. This = <<d, c, Replicate>>
      BY DEF This
    <3>3. d \in 0..(NumDatasets - 1) /\ c \in 0..(NumCompressors - 1) /\ Replicate \in 0..(args.replicats - 1)
      BY <1>2, <2>2, <3>2
    <3>. QED  BY <2>1, <2>2, <3>1, <3>2, <3>3, SizesAssumption
  <2>4. r[1] < d \/ (r[1] = d /\ (r[2] < c \/ (r[2] = c /\ r[3] < Replicate)))
    BY <2>1 DEF Past
  <2>5. Later(<<r[1], r[2], r[3]>>, <<d, c, Replicate>>)
    BY <2>3, <2>4, LaterTriple
  <2>. QED  BY <2>3, <2>5
<1>. QED  BY <1>2, <1>3, <1>4, <1>5

LEMMA RowsReport ==
  ASSUME IInv, Report
  PROVE  Rows!Next \/ UNCHANGED Rows!rvars
<1>1. /\ FlagsInv /\ RowsInv
      /\ pc = "report" /\ pc' \in {"replicate", "terminated"} /\ argv' = argv /\ failed' = failed
  BY ReportFacts DEF IInv, NextReplicate, Crash
<1>2. Replicates' = Replicates
  BY <1>1, ReplicatesSame
<1>3. CASE UNCHANGED <<args, csv>>
  <2>1. UNCHANGED Printed
    BY <1>3 DEF Printed, fields
  <2>. QED  BY <1>1, <1>2, <2>1 DEF Rows!rvars
<1>4. ASSUME NEW results \in Results, PrintRow(results) PROVE Rows!Next \/ UNCHANGED Rows!rvars
  <2> DEFINE last == Len(csv) + 1
             whole == Complete(csv'[last].row, fields')
  <2>1. /\ IsSequence(csv)' /\ DOMAIN csv' = DOMAIN csv \cup {last} /\ last \notin DOMAIN csv
        /\ \A k \in DOMAIN csv : csv'[k] = csv[k] /\ Complete(csv'[k].row, fields')
        /\ csv'[last].of = This
    BY <1>1, <1>4, PrintRowFacts
  <2>2. \A k \in DOMAIN csv : Complete(csv[k].row, fields)
    BY <1>1 DEF RowsInv, ShortRowEndsProgram
  <2>3. Printed' = Append(Printed, [task |-> This, whole |-> whole])
    <3>1. Len(csv) \in Nat /\ DOMAIN csv = 1..Len(csv)
      BY <1>1 DEF RowsInv, IsSequence
    <3>2. DOMAIN csv' = 1..(Len(csv) + 1)
      BY <2>1, <3>1
    <3>3. /\ Printed = [k \in 1..Len(csv) |-> Printed[k]]
          /\ Printed' = [k \in 1..(Len(csv) + 1) |-> Printed'[k]]
      BY <3>1, <3>2 DEF Printed
    <3>4. /\ IsSequence(Printed) /\ Len(Printed) = Len(csv)
          /\ IsSequence(Printed') /\ Len(Printed') = Len(csv) + 1
      BY <3>1, <3>3, SequenceOfNumbers
    <3>5. /\ \A k \in 1..Len(csv) : Printed'[k] = Printed[k]
          /\ Printed'[Len(csv) + 1] = [task |-> This, whole |-> whole]
      <4>1. \A k \in 1..Len(csv) : /\ Printed'[k] = [task |-> csv'[k].of, whole |-> TRUE]
                                   /\ Printed[k] = [task |-> csv[k].of, whole |-> TRUE]
        BY <2>1, <2>2, <3>1 DEF Printed, Complete
      <4>. QED  BY <2>1, <3>1, <4>1 DEF Printed
    <3>. QED  BY <3>4, <3>5, IsAppend
  <2>4. whole \in BOOLEAN
    BY DEF Complete
  <2> HIDE DEF whole
  <2>5. /\ This \in Replicates /\ Rows!Goes
        /\ This \notin Rows!Taken /\ \A r \in Rows!Taken : Later(r, This)
    BY <1>1, ThisIsNext DEF InReplicate
  <2>6. Rows!Report(This, whole)
    BY <1>1, <1>2, <2>3, <2>5 DEF Rows!Report
  <2>. QED  BY <2>4, <2>5, <2>6 DEF Rows!Next
<1>. QED  BY <1>3, <1>4 DEF Report

LEMMA RowsCall ==
  ASSUME IInv, Compress \/ Decompress
  PROVE  Rows!Next \/ UNCHANGED Rows!rvars
<1>1. /\ pc \in InReplicate /\ pc # "done" /\ UNCHANGED <<argv, args, csv>>
      /\ pc' # "done" /\ (failed' = failed \/ failed' = failed \cup {This})
  BY CallFacts DEF InReplicate, Fails, Crash, NextReplicate
<1>2. UNCHANGED <<Replicates, Printed>>
  BY <1>1, ReplicatesSame DEF Printed, fields
<1>3. CASE failed' = failed
  BY <1>1, <1>2, <1>3 DEF Rows!rvars
<1>4. CASE failed' = failed \cup {This}
  <2>1. /\ This \in Replicates /\ Rows!Goes
        /\ This \notin Rows!Taken /\ \A r \in Rows!Taken : Later(r, This)
    BY <1>1, ThisIsNext
  <2>2. Rows!Skip(This)
    BY <1>1, <1>2, <1>4, <2>1 DEF Rows!Skip
  <2>. QED  BY <2>1, <2>2 DEF Rows!Next
<1>. QED  BY <1>1, <1>3, <1>4

LEMMA RowsReturn ==
  ASSUME IInv, IInv', Return
  PROVE  Rows!Next
<1>1. /\ pc = "dataset" /\ pc' = "done"
      /\ UNCHANGED <<argv, args, csv, failed>>
  BY DEF Return
<1>2. UNCHANGED <<Replicates, Printed, Of>>
  BY <1>1, ReplicatesSame DEF Printed, Of, fields
<1>3. Rows!Taken = Of \cup failed /\ Rows!Goes /\ failed \subseteq Replicates
  BY <1>1, TakenFacts DEF IInv, RowsInv
<1>4. Of = Replicates \ failed
  <2>1. (IInv /\ pc = "done" => Of = Replicates \ failed)'
    BY AllPast, PTL
  <2>. QED  BY <1>1, <1>2, <2>1
<1>5. Rows!End
  BY <1>1, <1>2, <1>3, <1>4 DEF Rows!End
<1>. QED  BY <1>5 DEF Rows!Next

LEMMA RowsNext == IInv /\ IInv' /\ [Next]_vars => [Rows!Next]_(Rows!rvars)
<1> SUFFICES ASSUME IInv, IInv', [Next]_vars PROVE Rows!Next \/ UNCHANGED Rows!rvars
  OBVIOUS
<1>1. CASE Report
  BY <1>1, RowsReport
<1>2. CASE Return
  BY <1>2, RowsReturn
<1>3. CASE Compress \/ Decompress
  BY <1>3, RowsCall
<1>4. CASE UNCHANGED vars
  <2>1. UNCHANGED <<argv, args, csv, failed, pc>>
    BY <1>4 DEF vars
  <2>2. UNCHANGED <<Replicates, Printed>>
    BY <2>1, ReplicatesSame DEF Printed, fields
  <2>. QED  BY <2>1, <2>2 DEF Rows!rvars
<1>5. CASE Next /\ ~ Report /\ ~ Return /\ ~ Compress /\ ~ Decompress
  <2>1. /\ UNCHANGED <<argv, csv, failed>> /\ pc # "done" /\ pc' # "done"
        /\ args' = args \/ pc = "parse"
    BY <1>5 DEF Next, ParseFlag, ParseRest, Setup, LoadDataset, LoadCompressor, LoadThrows,
                StartReplicate, EndConfiguration, EndDataset
  <2>2. Replicates' = Replicates
    BY <2>1, ReplicatesSame
  <2>3. UNCHANGED Printed
    <3>1. CASE args' = args
      BY <2>1, <3>1 DEF Printed, fields
    <3>2. CASE pc = "parse"
      <4>1. csv = <<>>
        BY <3>2 DEF IInv, RowsInv
      <4>. QED  BY <2>1, <4>1 DEF Printed
    <3>. QED  BY <2>1, <3>1, <3>2
  <2>. QED  BY <2>1, <2>2, <2>3 DEF Rows!rvars
<1>. QED  BY <1>1, <1>2, <1>3, <1>4, <1>5

\* Loops and buffers hidden, each replicate has one row or failed once, in the order
\* of the loops, nothing follows a short row, and main returns when none is left.
THEOREM RefinesRows == Spec => ImplementsRowsInOrder
<1>1. IInv /\ IInv' /\ [Next]_vars => [Rows!Next]_(Rows!rvars)
  BY RowsNext
<1>2. Spec => Init /\ [][Next]_vars
  BY PTL DEF Spec
<1>. QED  BY <1>1, <1>2, RowsInit, Invariance, PTL DEF ImplementsRowsInOrder, Rows!Spec

=============================================================================
