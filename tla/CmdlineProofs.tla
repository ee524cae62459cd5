---------------------------- MODULE CmdlineProofs ----------------------------
(***************************************************************************)
(* Theorems about Cmdline for any flags, in any number and order, and any  *)
(* IO plugins.                                                             *)
(***************************************************************************)
EXTENDS Cmdline, DataFacts, TLAPS

(***************************************************************************)
(* Sequences of flags: the buffer of each flag, and the flags of a table,  *)
(* or those that give a key, that are about one direction of one buffer.   *)
(***************************************************************************)
Starts(s, k) == Cardinality({l \in 1..k : s[l].opt = "p"})

Gives(s, table, dir, buffer) ==
  {k \in DOMAIN s : /\ Starts(s, k) + 1 = buffer
                    /\ s[k].opt \in DOMAIN table
                    /\ table[s[k].opt] = dir}

GivesKey(s, key, dir, buffer) ==
  {k \in Gives(s, OptionFlags, dir, buffer) : s[k].arg = key}
  \cup (IF key = "io:path" THEN Gives(s, PathFlags, dir, buffer) ELSE {})
  \cup (IF key = "hdf5:dataset" THEN Gives(s, DatasetFlags, dir, buffer) ELSE {})

GivesEarly(s, key, dir, buffer) == {k \in Gives(s, EarlyFlags, dir, buffer) : s[k].arg = key}

LEMMA FlagsForIsGives ==
  ASSUME NEW table, NEW dir, NEW buffer
  PROVE  FlagsFor(table, dir, buffer) = Gives(given, table, dir, buffer)
BY DEF FlagsFor, Gives, Starts

LEMMA KeyFlagsAreGiven ==
  ASSUME NEW key, NEW dir, NEW buffer
  PROVE  /\ KeyFlags(key, dir, buffer) = GivesKey(given, key, dir, buffer)
         /\ EarlyKeyFlags(key, dir, buffer) = GivesEarly(given, key, dir, buffer)
BY FlagsForIsGives DEF KeyFlags, EarlyKeyFlags, GivesKey, GivesEarly

-----------------------------------------------------------------------------
(***************************************************************************)
(* The inductive invariant, in six parts.                                 *)
(***************************************************************************)
Names == {f.arg : f \in Flags} \cup {None, "by_extension", "posix", "hdf5"}

Options == [Keys -> Seq(Nat)]

Builder == [format : Names, options : Options, early : Options]

TypeInv ==
  /\ TypeOK
  /\ builders \in [Directions -> Seq(Builder)]
  /\ files \in [Directions -> Seq(Options)]

\* -p starts a buffer in each direction.
BuffersInv == \A dir \in Directions : Len(builders[dir]) = Count("p") + 1

\* The multimaps of a builder hold the flags about it, of each key in their order.
OptionsInv ==
  \A dir \in Directions : \A buffer \in DOMAIN builders[dir] : \A key \in Keys :
    /\ InOrder(builders[dir][buffer].options[key], GivesKey(given, key, dir, buffer))
    /\ InOrder(builders[dir][buffer].early[key], GivesEarly(given, key, dir, buffer))

\* The files are made one after the other, in the order of the program counter.
FilesInv ==
  /\ pc = "flags" => \A dir \in Directions : files[dir] = <<>>
  /\ pc \in {"outputs", "returned"} => Len(files["input"]) = Len(builders["input"])
  /\ pc = "returned" => \A dir \in Directions : Len(files[dir]) = Len(builders[dir])
  /\ pc # "failure" /\ NeedsInput => inputs = Len(files["input"])

\* Each of them was made from the builder of its buffer.
MadeInv ==
  \A dir \in Directions : \A k \in DOMAIN files[dir] :
    Makes(builders[dir][k]) /\ files[dir][k] = Made(builders[dir][k])

IInv == TypeInv /\ BuffersInv /\ OptionsInv /\ FilesInv /\ MadeInv /\ FormatIsAsAsked

-----------------------------------------------------------------------------
(***************************************************************************)
(* What a flag does to the builders.                                       *)
(***************************************************************************)

\* The format of the last buffer of a direction after a flag.
NewFormat(dir, f, old) ==
  CASE f.opt \in DOMAIN FormatFlags /\ FormatFlags[f.opt] = dir -> f.arg
    [] f.opt \in DOMAIN PathFlags /\ PathFlags[f.opt] = dir ->
         IF old = None THEN PathFormat(dir) ELSE old
    [] f.opt \in DOMAIN DatasetFlags /\ DatasetFlags[f.opt] = dir ->
         IF old \in {None, PathFormat(dir)} THEN "hdf5" ELSE old
    [] OTHER -> old

\* The flag gives the key to the last buffer of a direction.
NewKey(dir, f, key) ==
  \/ f.opt \in DOMAIN OptionFlags /\ OptionFlags[f.opt] = dir /\ f.arg = key
  \/ f.opt \in DOMAIN PathFlags /\ PathFlags[f.opt] = dir /\ key = "io:path"
  \/ f.opt \in DOMAIN DatasetFlags /\ DatasetFlags[f.opt] = dir /\ key = "hdf5:dataset"

NewEarly(dir, f, key) == f.opt \in DOMAIN EarlyFlags /\ EarlyFlags[f.opt] = dir /\ f.arg = key

\* A flag makes the builder new of the last builder old of a direction.
Becomes(dir, f, old, new) ==
  /\ new.format = NewFormat(dir, f, old.format)
  /\ \A key \in Keys :
       /\ new.options[key] = IF NewKey(dir, f, key)
                             THEN Append(old.options[key], Len(given) + 1) ELSE old.options[key]
       /\ new.early[key] = IF NewEarly(dir, f, key)
                           THEN Append(old.early[key], Len(given) + 1) ELSE old.early[key]

LEMMA Tables ==
  /\ DOMAIN FormatFlags = {"T", "f", "F"} /\ \A o \in {"T", "f", "F"} : FormatFlags[o] \in Directions
  /\ DOMAIN PathFlags = {"i", "w", "W"} /\ \A o \in {"i", "w", "W"} : PathFlags[o] \in Directions
  /\ DOMAIN DatasetFlags = {"I", "s", "S"} /\ \A o \in {"I", "s", "S"} : DatasetFlags[o] \in Directions
  /\ DOMAIN OptionFlags = {"u", "y", "Y"} /\ \A o \in {"u", "y", "Y"} : OptionFlags[o] \in Directions
  /\ DOMAIN EarlyFlags = {"G", "e", "E"} /\ \A o \in {"G", "e", "E"} : EarlyFlags[o] \in Directions
BY DEF FormatFlags, PathFlags, DatasetFlags, OptionFlags, EarlyFlags, Directions

\* There is a buffer in each direction, and it is the last of a sequence.
LEMMA BuilderFacts ==
  ASSUME TypeInv, BuffersInv, NEW dir \in Directions
  PROVE  /\ Len(builders[dir]) \in Nat \ {0}
         /\ DOMAIN builders[dir] = 1..Len(builders[dir])
         /\ \A k \in 1..Len(builders[dir]) : builders[dir][k] \in Builder
         /\ Back(dir) \in Builder
         /\ Count("p") \in Nat
<1>1. Len(given) \in Nat /\ DOMAIN given = 1..Len(given)
  BY DEF TypeInv, TypeOK
<1> DEFINE Ps == {k \in DOMAIN given : given[k].opt = "p"}
<1>2. Ps \subseteq 1..Len(given)
  BY <1>1
<1>3. Count("p") \in Nat
  <2>1. Count("p") = Cardinality(Ps)
    BY DEF Count
  <2> HIDE DEF Ps
  <2>2. IsFiniteSet(1..Len(given))
    BY <1>1, FS_Interval
  <2>3. IsFiniteSet(Ps)
    BY <1>2, <2>2, FS_Subset
  <2>. QED  BY <2>1, <2>3, FS_CardinalityType
<1>4. builders[dir] \in Seq(Builder) /\ Len(builders[dir]) = Count("p") + 1
  BY DEF TypeInv, BuffersInv
<1>. HIDE DEF Builder
<1>5. /\ Len(builders[dir]) \in Nat \ {0} /\ DOMAIN builders[dir] = 1..Len(builders[dir])
      /\ \A k \in 1..Len(builders[dir]) : builders[dir][k] \in Builder
  BY <1>3, <1>4
<1>6. Back(dir) \in Builder
  BY <1>5 DEF Back
<1>. QED  BY <1>3, <1>5, <1>6

\* The last builder of one direction is replaced.
LEMMA SetBackFacts ==
  ASSUME TypeInv, BuffersInv, NEW dir \in Directions, NEW b \in Builder, SetBack(dir, b)
  PROVE  /\ builders' \in [Directions -> Seq(Builder)]
         /\ \A e \in Directions : Len(builders'[e]) = Len(builders[e])
         /\ \A e \in Directions : \A k \in DOMAIN builders[e] :
              builders'[e][k] = IF e = dir /\ k = Len(builders[e]) THEN b ELSE builders[e][k]
<1> DEFINE last == Len(builders[dir])
<1>1. builders' = [builders EXCEPT ![dir] = [builders[dir] EXCEPT ![last] = b]]
  BY DEF SetBack
<1>2. last \in DOMAIN builders[dir] /\ builders \in [Directions -> Seq(Builder)]
  BY BuilderFacts DEF TypeInv
<1> HIDE DEF last, Builder
<1> DEFINE new == [builders[dir] EXCEPT ![last] = b]
<1>3. /\ new \in Seq(Builder) /\ Len(new) = Len(builders[dir]) /\ DOMAIN new = DOMAIN builders[dir]
      /\ \A k \in DOMAIN builders[dir] : new[k] = IF k = last THEN b ELSE builders[dir][k]
  BY <1>2
<1> HIDE DEF new
<1>4. builders' = [builders EXCEPT ![dir] = new]
  BY <1>1 DEF new
<1>5. /\ builders' \in [Directions -> Seq(Builder)]
      /\ \A e \in Directions : builders'[e] = IF e = dir THEN new ELSE builders[e]
  BY <1>2, <1>3, <1>4
<1>. QED  BY <1>3, <1>5 DEF last

\* One more value of a key.
LEMMA EmplaceFacts ==
  ASSUME TypeInv, NEW options \in Options, NEW key \in Keys
  PROVE  /\ Emplace(options, key) \in Options
         /\ \A k \in Keys : Emplace(options, key)[k] =
              IF k = key THEN Append(options[k], Len(given) + 1) ELSE options[k]
<1>1. Len(given) + 1 \in Nat
  BY DEF TypeInv, TypeOK
<1>2. Append(options[key], Len(given) + 1) \in Seq(Nat)
  BY <1>1 DEF Options
<1>. QED  BY <1>2 DEF Emplace, Options

\* A flag about one direction replaces the last builder of that one.
LEMMA SetBuilder ==
  ASSUME TypeInv, BuffersInv, NEW f \in Flags, NEW dir \in Directions, NEW b \in Builder,
         SetBack(dir, b), Becomes(dir, f, Back(dir), b),
         \A e \in Directions \ {dir} : \A old : Becomes(e, f, old, old)
  PROVE  /\ builders' \in [Directions -> Seq(Builder)]
         /\ \A e \in Directions : Len(builders'[e]) = Len(builders[e])
         /\ \A e \in Directions : \A k \in DOMAIN builders[e] :
              IF k = Len(builders[e]) THEN Becomes(e, f, builders[e][k], builders'[e][k])
              ELSE builders'[e][k] = builders[e][k]
         /\ UNCHANGED <<pc, positional, actions, compressor, files, inputs>>
<1>1. /\ builders' \in [Directions -> Seq(Builder)]
      /\ \A e \in Directions : Len(builders'[e]) = Len(builders[e])
      /\ \A e \in Directions : \A k \in DOMAIN builders[e] :
           builders'[e][k] = IF e = dir /\ k = Len(builders[e]) THEN b ELSE builders[e][k]
  BY SetBackFacts
<1>2. Back(dir) = builders[dir][Len(builders[dir])]
  BY DEF Back
<1> HIDE DEF Builder, Becomes, Back
<1>. QED  BY <1>1, <1>2 DEF SetBack

\* A flag that is about no key and no format.
LEMMA OtherFlag ==
  ASSUME NEW f \in Flags, NEW dir, NEW old,
         /\ f.opt \in DOMAIN FormatFlags => FormatFlags[f.opt] # dir
         /\ f.opt \in DOMAIN PathFlags => PathFlags[f.opt] # dir
         /\ f.opt \in DOMAIN DatasetFlags => DatasetFlags[f.opt] # dir
         /\ f.opt \in DOMAIN OptionFlags => OptionFlags[f.opt] # dir \/ f.arg \notin Keys
         /\ f.opt \in DOMAIN EarlyFlags => EarlyFlags[f.opt] # dir \/ f.arg \notin Keys
  PROVE  Becomes(dir, f, old, old)
<1>1. NewFormat(dir, f, old.format) = old.format
  BY DEF NewFormat
<1>2. \A key \in Keys : ~ NewKey(dir, f, key) /\ ~ NewEarly(dir, f, key)
  BY DEF NewKey, NewEarly
<1>. QED  BY <1>1, <1>2 DEF Becomes

\* A flag that starts no buffer changes at most the last one.
LEMMA FlagFacts ==
  ASSUME TypeInv, BuffersInv, NEW f \in Flags, TakeFlag(f), f.opt # "p"
  PROVE  /\ builders' \in [Directions -> Seq(Builder)]
         /\ \A dir \in Directions : Len(builders'[dir]) = Len(builders[dir])
         /\ \A dir \in Directions : \A k \in DOMAIN builders[dir] :
              IF k = Len(builders[dir]) THEN Becomes(dir, f, builders[dir][k], builders'[dir][k])
              ELSE builders'[dir][k] = builders[dir][k]
         /\ UNCHANGED <<positional, compressor, files, inputs>>
         /\ pc' \in {"flags", "terminated", "failure"}
         /\ actions' \subseteq ActionNames
<1>1. f.arg \in Names /\ f.arg # None /\ pc = "flags"
  BY NoneAssumption DEF Names, TakeFlag, Format, Path, Dataset, IoOption, EarlyOption, PairOption,
                        ActionFlag, NextBuffer, Field, Unknown, Take
<1>2. actions \subseteq ActionNames /\ builders \in [Directions -> Seq(Builder)]
  BY DEF TypeInv, TypeOK
<1>3. /\ \A dir \in Directions : PathFormat(dir) \in Names
      /\ "hdf5" \in Names /\ "io:path" \in Keys /\ "hdf5:dataset" \in Keys /\ Unusable \notin Keys
      /\ f.opt \in DOMAIN OptionFlags \cup DOMAIN EarlyFlags /\ f.arg # Unusable => f.arg \in Keys
  BY OptionsAssumption DEF PathFormat, Names
<1>4. \A dir \in Directions :
        Back(dir) \in Builder /\ Back(dir).format \in Names
        /\ Back(dir).options \in Options /\ Back(dir).early \in Options
  <2> TAKE dir \in Directions
  <2>1. Back(dir) \in Builder
    BY BuilderFacts
  <2> HIDE DEF Names, Options, Back
  <2>. QED  BY <2>1 DEF Builder
<1>5. ASSUME NEW dir \in Directions, NEW b \in Builder, SetBack(dir, b), Becomes(dir, f, Back(dir), b),
             \A e \in Directions \ {dir} : \A old : Becomes(e, f, old, old)
      PROVE  /\ builders' \in [Directions -> Seq(Builder)]
             /\ \A e \in Directions : Len(builders'[e]) = Len(builders[e])
             /\ \A e \in Directions : \A k \in DOMAIN builders[e] :
                  IF k = Len(builders[e]) THEN Becomes(e, f, builders[e][k], builders'[e][k])
                  ELSE builders'[e][k] = builders[e][k]
             /\ UNCHANGED <<pc, positional, actions, compressor, files, inputs>>
  BY <1>5, SetBuilder
<1> HIDE DEF Names, Options, Builder, Keys
<1>6. CASE Format(f)
  <2> DEFINE dir == FormatFlags[f.opt]
             b == [Back(dir) EXCEPT !.format = f.arg]
  <2>1. dir \in Directions /\ SetBack(dir, b) /\ f.opt \in DOMAIN FormatFlags
    BY <1>6, Tables DEF Format
  <2>2. b \in Builder /\ b.format = f.arg /\ b.options = Back(dir).options /\ b.early = Back(dir).early
    BY <1>1, <1>4, <2>1 DEF Builder
  <2>3. Becomes(dir, f, Back(dir), b)
    BY <2>1, <2>2, Tables DEF Becomes, NewFormat, NewKey, NewEarly
  <2>4. \A e \in Directions \ {dir} : \A old : Becomes(e, f, old, old)
    BY <2>1, Tables, OtherFlag
  <2> HIDE DEF b, dir, Becomes
  <2>. QED  BY <1>1, <1>2, <1>5, <2>1, <2>2, <2>3, <2>4
<1>7. CASE Path(f)
  <2> DEFINE dir == PathFlags[f.opt]
             options == Emplace(Back(dir).options, "io:path")
             format == SetFormatIf(Back(dir), PathFormat(dir), None)
             b == [Back(dir) EXCEPT !.format = format, !.options = options]
  <2>1. dir \in Directions /\ SetBack(dir, b) /\ f.opt \in DOMAIN PathFlags
    BY <1>7, Tables DEF Path
  <2>2. format \in Names /\ format = NewFormat(dir, f, Back(dir).format)
    BY <1>3, <1>4, <2>1, Tables DEF SetFormatIf, NewFormat
  <2>3. /\ options \in Options
        /\ \A k \in Keys : options[k] = IF k = "io:path" THEN Append(Back(dir).options[k], Len(given) + 1)
                                        ELSE Back(dir).options[k]
    BY <1>3, <1>4, <2>1, EmplaceFacts
  <2> HIDE DEF dir, options, format
  <2>4. b \in Builder /\ b.format = format /\ b.options = options /\ b.early = Back(dir).early
    BY <1>4, <2>1, <2>2, <2>3 DEF Builder
  <2> HIDE DEF b
  <2>5. \A key : /\ NewKey(dir, f, key) <=> key = "io:path"
                 /\ ~ NewEarly(dir, f, key)
    BY <2>1, Tables DEF NewKey, NewEarly, dir
  <2>6. Becomes(dir, f, Back(dir), b)
    BY <2>2, <2>3, <2>4, <2>5 DEF Becomes
  <2>7. \A e \in Directions \ {dir} : \A old : Becomes(e, f, old, old)
    BY <2>1, Tables, OtherFlag DEF dir
  <2> HIDE DEF Becomes
  <2>. QED  BY <1>1, <1>2, <1>5, <2>1, <2>4, <2>6, <2>7
<1>8. CASE Dataset(f)
  <2> DEFINE dir == DatasetFlags[f.opt]
             options == Emplace(Back(dir).options, "hdf5:dataset")
             format == SetFormatIf(Back(dir), "hdf5", PathFormat(dir))
             b == [Back(dir) EXCEPT !.format = format, !.options = options]
  <2>1. dir \in Directions /\ SetBack(dir, b) /\ f.opt \in DOMAIN DatasetFlags
    BY <1>8, Tables DEF Dataset
  <2>2. format \in Names /\ format = NewFormat(dir, f, Back(dir).format)
    BY <1>3, <1>4, <2>1, Tables DEF SetFormatIf, NewFormat
  <2>3. /\ options \in Options
        /\ \A k \in Keys : options[k] = IF k = "hdf5:dataset" THEN Append(Back(dir).options[k], Len(given) + 1)
                                        ELSE Back(dir).options[k]
    BY <1>3, <1>4, <2>1, EmplaceFacts
  <2> HIDE DEF dir, options, format
  <2>4. b \in Builder /\ b.format = format /\ b.options = options /\ b.early = Back(dir).early
    BY <1>4, <2>1, <2>2, <2>3 DEF Builder
  <2> HIDE DEF b
  <2>5. \A key : /\ NewKey(dir, f, key) <=> key = "hdf5:dataset"
                 /\ ~ NewEarly(dir, f, key)
    BY <2>1, Tables DEF NewKey, NewEarly, dir
  <2>6. Becomes(dir, f, Back(dir), b)
    BY <2>2, <2>3, <2>4, <2>5 DEF Becomes
  <2>7. \A e \in Directions \ {dir} : \A old : Becomes(e, f, old, old)
    BY <2>1, Tables, OtherFlag DEF dir
  <2> HIDE DEF Becomes
  <2>. QED  BY <1>1, <1>2, <1>5, <2>1, <2>4, <2>6, <2>7
<1>9. CASE IoOption(f) /\ f.arg # Unusable
  <2> DEFINE dir == OptionFlags[f.opt]
             options == Emplace(Back(dir).options, f.arg)
             b == [Back(dir) EXCEPT !.options = options]
  <2>1. dir \in Directions /\ SetBack(dir, b) /\ f.opt \in DOMAIN OptionFlags /\ f.arg \in Keys
    BY <1>3, <1>9, Tables DEF IoOption
  <2>2. /\ options \in Options
        /\ \A k \in Keys : options[k] = IF k = f.arg THEN Append(Back(dir).options[k], Len(given) + 1)
                                        ELSE Back(dir).options[k]
    BY <1>4, <2>1, EmplaceFacts
  <2> HIDE DEF dir, options
  <2>3. b \in Builder /\ b.format = Back(dir).format /\ b.options = options /\ b.early = Back(dir).early
    BY <1>4, <2>1, <2>2 DEF Builder
  <2> HIDE DEF b
  <2>4. /\ \A key : (NewKey(dir, f, key) <=> key = f.arg) /\ ~ NewEarly(dir, f, key)
        /\ \A old : NewFormat(dir, f, old) = old
    BY <2>1, Tables DEF NewKey, NewEarly, NewFormat, dir
  <2>5. Becomes(dir, f, Back(dir), b)
    BY <2>2, <2>3, <2>4 DEF Becomes
  <2>6. \A e \in Directions \ {dir} : \A old : Becomes(e, f, old, old)
    BY <2>1, Tables, OtherFlag DEF dir
  <2> HIDE DEF Becomes
  <2>. QED  BY <1>1, <1>2, <1>5, <2>1, <2>3, <2>5, <2>6
<1>10. CASE EarlyOption(f) /\ f.arg # Unusable
  <2> DEFINE dir == EarlyFlags[f.opt]
             early == Emplace(Back(dir).early, f.arg)
             b == [Back(dir) EXCEPT !.early = early]
  <2>1. dir \in Directions /\ SetBack(dir, b) /\ f.opt \in DOMAIN EarlyFlags /\ f.arg \in Keys
    BY <1>3, <1>10, Tables DEF EarlyOption
  <2>2. /\ early \in Options
        /\ \A k \in Keys : early[k] = IF k = f.arg THEN Append(Back(dir).early[k], Len(given) + 1)
                                      ELSE Back(dir).early[k]
    BY <1>4, <2>1, EmplaceFacts
  <2> HIDE DEF dir, early
  <2>3. b \in Builder /\ b.format = Back(dir).format /\ b.options = Back(dir).options /\ b.early = early
    BY <1>1, <1>4, <2>1, <2>2 DEF Builder
  <2> HIDE DEF b
  <2>4. /\ \A key : ~ NewKey(dir, f, key) /\ (NewEarly(dir, f, key) <=> key = f.arg)
        /\ \A old : NewFormat(dir, f, old) = old
    BY <2>1, Tables DEF NewKey, NewEarly, NewFormat, dir
  <2>5. Becomes(dir, f, Back(dir), b)
    BY <2>2, <2>3, <2>4 DEF Becomes
  <2>6. \A e \in Directions \ {dir} : \A old : Becomes(e, f, old, old)
    BY <2>1, Tables, OtherFlag DEF dir
  <2> HIDE DEF Becomes
  <2>. QED  BY <1>1, <1>2, <1>5, <2>1, <2>3, <2>5, <2>6
<1>11. CASE /\ UNCHANGED <<positional, compressor, builders, files, inputs>>
            /\ pc' \in {"flags", "terminated", "failure"} /\ actions' \subseteq ActionNames
            /\ f.opt \notin DOMAIN FormatFlags \cup DOMAIN PathFlags \cup DOMAIN DatasetFlags
            /\ f.opt \in DOMAIN OptionFlags \cup DOMAIN EarlyFlags => f.arg \notin Keys
  <2>1. \A dir \in Directions : \A old : Becomes(dir, f, old, old)
    BY <1>11, OtherFlag
  <2> HIDE DEF Becomes
  <2>. QED  BY <1>2, <1>11, <2>1
<1>12. \/ Format(f) \/ Path(f) \/ Dataset(f)
       \/ (IoOption(f) \/ EarlyOption(f)) /\ f.arg # Unusable
       \/ /\ UNCHANGED <<positional, compressor, builders, files, inputs>>
          /\ pc' \in {"flags", "terminated", "failure"} /\ actions' \subseteq ActionNames
          /\ f.opt \notin DOMAIN FormatFlags \cup DOMAIN PathFlags \cup DOMAIN DatasetFlags
          /\ f.opt \in DOMAIN OptionFlags \cup DOMAIN EarlyFlags => f.arg \notin Keys
  <2>1. CASE (IoOption(f) \/ EarlyOption(f)) /\ f.arg = Unusable
    BY <1>1, <1>2, <1>3, <2>1, Tables DEF IoOption, EarlyOption, Exit
  <2>2. CASE PairOption(f) \/ Field(f) \/ Unknown(f)
    BY <1>1, <1>2, <2>2, Tables DEF PairOption, Field, Unknown, Exit, PairFlags, FieldFlags, Known
  <2>3. CASE ActionFlag(f)
    BY <1>1, <1>2, <2>3, Tables DEF ActionFlag, Exit
  <2>4. ~ NextBuffer(f)
    BY DEF NextBuffer
  <2>. QED  BY <2>1, <2>2, <2>3, <2>4 DEF TakeFlag
<1>. QED  BY <1>6, <1>7, <1>8, <1>9, <1>10, <1>11, <1>12, Zenon

-----------------------------------------------------------------------------
(***************************************************************************)
(* FormatOf, of any sequence of flags, and what one more flag changes of   *)
(* it.                                                                     *)
(***************************************************************************)
Last(S) == {k \in S : \A l \in S : l <= k}

After(S, k) == \E l \in S : l > k

Chosen(s, dir, formats, datasets, paths) ==
  CASE Last(formats) # {} ->
         LET k == CHOOSE l \in Last(formats) : TRUE
         IN  IF s[k].arg = PathFormat(dir) /\ After(datasets, k)
             THEN "hdf5" ELSE s[k].arg
    [] Last(formats) = {} /\ datasets # {} -> "hdf5"
    [] Last(formats) = {} /\ datasets = {} /\ paths # {} -> PathFormat(dir)
    [] OTHER -> None

Asked(s, dir, buffer) ==
  Chosen(s, dir, Gives(s, FormatFlags, dir, buffer), Gives(s, DatasetFlags, dir, buffer),
         Gives(s, PathFlags, dir, buffer))

LEMMA AskedIsFormatOf ==
  ASSUME NEW dir, NEW buffer
  PROVE  FormatOf(dir, buffer) = Asked(given, dir, buffer)
<1> DEFINE Formats == FlagsFor(FormatFlags, dir, buffer)
           Datasets == FlagsFor(DatasetFlags, dir, buffer)
           Explicit == {k \in Formats : \A l \in Formats : l <= k}
<1>1. FormatOf(dir, buffer) =
        CASE Explicit # {} -> LET k == CHOOSE l \in Explicit : TRUE
                              IN  IF given[k].arg = PathFormat(dir) /\ \E l \in Datasets : l > k
                                  THEN "hdf5" ELSE given[k].arg
          [] Explicit = {} /\ Datasets # {} -> "hdf5"
          [] Explicit = {} /\ Datasets = {} /\ FlagsFor(PathFlags, dir, buffer) # {} -> PathFormat(dir)
          [] OTHER -> None
  BY DEF FormatOf
<1>2. /\ Formats = Gives(given, FormatFlags, dir, buffer)
      /\ Datasets = Gives(given, DatasetFlags, dir, buffer)
      /\ FlagsFor(PathFlags, dir, buffer) = Gives(given, PathFlags, dir, buffer)
  BY FlagsForIsGives
<1> HIDE DEF Formats, Datasets
<1>3. Explicit = Last(Gives(given, FormatFlags, dir, buffer))
  BY <1>2 DEF Last
<1> HIDE DEF Explicit
<1>. QED  BY <1>1, <1>2, <1>3 DEF Asked, Chosen, After

\* The starts of buffers among the first flags, and after one more flag.
LEMMA StartsFacts ==
  ASSUME NEW s \in Seq(Flags), NEW f \in Flags
  PROVE  /\ Starts(s, Len(s)) \in Nat
         /\ \A k \in 1..Len(s) :
              /\ Starts(Append(s, f), k) = Starts(s, k)
              /\ Starts(s, k) \in 0..Starts(s, Len(s))
         /\ Starts(Append(s, f), Len(s) + 1) =
              IF f.opt = "p" THEN Starts(s, Len(s)) + 1 ELSE Starts(s, Len(s))
<1> DEFINE Ps(r, k) == {l \in 1..k : r[l].opt = "p"}
           t == Append(s, f)
           n == Len(s)
<1>1. /\ n \in Nat /\ t[n + 1] = f
      /\ \A k \in 1..n : t[k] = s[k]
  OBVIOUS
<1>2. \A k \in 0..n : IsFiniteSet(Ps(s, k)) /\ Cardinality(Ps(s, k)) \in Nat
  <2> SUFFICES ASSUME NEW k \in 0..n
               PROVE  IsFiniteSet(Ps(s, k)) /\ Cardinality(Ps(s, k)) \in Nat
    OBVIOUS
  <2>1. IsFiniteSet(1..k) /\ Ps(s, k) \subseteq 1..k
    BY FS_Interval
  <2> HIDE DEF Ps
  <2>. QED  BY <2>1, FS_Subset, FS_CardinalityType
<1>3. \A k \in 1..n : Ps(t, k) = Ps(s, k) /\ Ps(s, k) \subseteq Ps(s, n)
  BY <1>1
<1>4. Ps(t, n + 1) = IF f.opt = "p" THEN Ps(s, n) \cup {n + 1} ELSE Ps(s, n)
  <2>1. \A l : l \in 1..(n + 1) <=> l \in 1..n \/ l = n + 1
    BY <1>1
  <2>2. \A l \in 1..n : l # n + 1
    BY <1>1
  <2> HIDE DEF t, n
  <2>. QED  BY <1>1, <2>1, <2>2
<1>5. n + 1 \notin Ps(s, n)
  BY <1>1
<1> HIDE DEF Ps, t, n
<1>6. Cardinality(Ps(t, n + 1)) =
        IF f.opt = "p" THEN Cardinality(Ps(s, n)) + 1 ELSE Cardinality(Ps(s, n))
  <2>1. n \in 0..n
    BY <1>1
  <2>2. IsFiniteSet(Ps(s, n))
    BY <1>2, <2>1
  <2>3. Cardinality(Ps(s, n) \cup {n + 1}) = Cardinality(Ps(s, n)) + 1
    BY <1>5, <2>2, FS_AddElement
  <2>. QED  BY <1>4, <2>3
<1>7. \A k \in 1..n : Cardinality(Ps(s, k)) \in 0..Cardinality(Ps(s, n))
  <2> SUFFICES ASSUME NEW k \in 1..n PROVE Cardinality(Ps(s, k)) \in 0..Cardinality(Ps(s, n))
    OBVIOUS
  <2>1. k \in 0..n /\ n \in 0..n
    BY <1>1
  <2>2. Cardinality(Ps(s, k)) <= Cardinality(Ps(s, n))
    BY <1>2, <1>3, <2>1, FS_Subset
  <2>. QED  BY <1>2, <2>1, <2>2
<1>8. \A r, k : Starts(r, k) = Cardinality(Ps(r, k))
  BY DEF Starts, Ps
<1>9. n \in 0..n
  BY <1>1
<1> HIDE DEF Starts
<1>10. /\ Starts(s, n) \in Nat
       /\ \A k \in 1..n : Starts(t, k) = Starts(s, k) /\ Starts(s, k) \in 0..Starts(s, n)
       /\ Starts(t, n + 1) = IF f.opt = "p" THEN Starts(s, n) + 1 ELSE Starts(s, n)
  BY <1>2, <1>3, <1>6, <1>7, <1>8, <1>9
<1>. QED  BY <1>10 DEF t, n

\* What one more flag gives: itself, to the last buffer.
LEMMA GivesFacts ==
  ASSUME NEW s \in Seq(Flags), NEW f \in Flags, NEW table, NEW dir, NEW buffer,
         "p" \notin DOMAIN table
  PROVE  LET last == Starts(s, Len(s)) + 1
             t    == Append(s, f)
         IN  /\ Gives(t, table, dir, buffer) =
                  IF buffer = last /\ f.opt \in DOMAIN table /\ table[f.opt] = dir
                  THEN Gives(s, table, dir, buffer) \cup {Len(s) + 1}
                  ELSE Gives(s, table, dir, buffer)
             /\ Gives(s, table, dir, last + 1) = {}
             /\ Gives(s, table, dir, buffer) \subseteq 1..Len(s)
<1> DEFINE n == Len(s)
           t == Append(s, f)
           last == Starts(s, n) + 1
<1>1. /\ n \in Nat /\ t[n + 1] = f /\ DOMAIN s = 1..n /\ n + 1 \notin 1..n
      /\ \A k \in 1..n : t[k] = s[k]
      /\ DOMAIN t = 1..n \cup {n + 1}
  <2>1. DOMAIN t = 1..(n + 1) /\ n \in Nat
    OBVIOUS
  <2>. QED  BY <2>1
<1>2. /\ \A k \in 1..n : Starts(t, k) = Starts(s, k) /\ Starts(s, k) \in 0..Starts(s, n)
      /\ Starts(s, n) \in Nat
      /\ Starts(t, n + 1) = IF f.opt = "p" THEN Starts(s, n) + 1 ELSE Starts(s, n)
  BY StartsFacts
<1> HIDE DEF n, t
<1>3. \A k \in 1..n : Starts(s, k) + 1 # last + 1
  BY <1>2
<1>4. Gives(s, table, dir, last + 1) = {} /\ Gives(s, table, dir, buffer) \subseteq 1..n
  <2> HIDE DEF last
  <2>. QED  BY <1>1, <1>3 DEF Gives
<1>5. f.opt \in DOMAIN table => Starts(t, n + 1) + 1 = last
  BY <1>2
<1>6. \A k : k \in Gives(t, table, dir, buffer) <=>
              \/ k \in Gives(s, table, dir, buffer)
              \/ k = n + 1 /\ buffer = last /\ f.opt \in DOMAIN table /\ table[f.opt] = dir
  <2> HIDE DEF last
  <2>. QED  BY <1>1, <1>2, <1>5 DEF Gives
<1>. QED  BY <1>4, <1>6 DEF n, t

\* The flags of a key after one more flag.
LEMMA KeyStep ==
  ASSUME NEW s \in Seq(Flags), NEW f \in Flags, NEW dir, NEW buffer, NEW key
  PROVE  LET last == Starts(s, Len(s)) + 1
             t    == Append(s, f)
         IN  /\ GivesKey(t, key, dir, buffer) =
                  IF buffer = last /\ NewKey(dir, f, key)
                  THEN GivesKey(s, key, dir, buffer) \cup {Len(s) + 1} ELSE GivesKey(s, key, dir, buffer)
             /\ GivesEarly(t, key, dir, buffer) =
                  IF buffer = last /\ NewEarly(dir, f, key)
                  THEN GivesEarly(s, key, dir, buffer) \cup {Len(s) + 1} ELSE GivesEarly(s, key, dir, buffer)
             /\ GivesKey(s, key, dir, last + 1) = {} /\ GivesEarly(s, key, dir, last + 1) = {}
             /\ GivesKey(s, key, dir, buffer) \subseteq 1..Len(s)
             /\ GivesEarly(s, key, dir, buffer) \subseteq 1..Len(s)
<1> DEFINE n == Len(s)
           t == Append(s, f)
           last == Starts(s, n) + 1
           About(table) == buffer = last /\ f.opt \in DOMAIN table /\ table[f.opt] = dir
<1>1. /\ n \in Nat /\ t[n + 1] = f
      /\ \A k \in 1..n : t[k] = s[k] /\ k # n + 1
  OBVIOUS
<1>2. "p" \notin DOMAIN PathFlags \cup DOMAIN DatasetFlags \cup DOMAIN OptionFlags \cup DOMAIN EarlyFlags
  BY Tables
<1>3. \A table \in {PathFlags, DatasetFlags, OptionFlags, EarlyFlags} :
        /\ Gives(s, table, dir, buffer) \subseteq 1..n
        /\ Gives(s, table, dir, last + 1) = {}
        /\ Gives(t, table, dir, buffer) =
             IF About(table) THEN Gives(s, table, dir, buffer) \cup {n + 1} ELSE Gives(s, table, dir, buffer)
  <2> TAKE table \in {PathFlags, DatasetFlags, OptionFlags, EarlyFlags}
  <2>1. "p" \notin DOMAIN table
    BY <1>2
  <2>. QED  BY <2>1, GivesFacts
<1> HIDE DEF t, n, last
<1>4. /\ NewKey(dir, f, key) /\ buffer = last <=>
           \/ About(OptionFlags) /\ f.arg = key
           \/ About(PathFlags) /\ key = "io:path"
           \/ About(DatasetFlags) /\ key = "hdf5:dataset"
      /\ NewEarly(dir, f, key) /\ buffer = last <=> About(EarlyFlags) /\ f.arg = key
  BY DEF NewKey, NewEarly
<1> HIDE DEF About
<1>5. \A k : k \in GivesKey(t, key, dir, buffer) <=>
               k \in GivesKey(s, key, dir, buffer) \/ (k = n + 1 /\ NewKey(dir, f, key) /\ buffer = last)
  BY <1>1, <1>3, <1>4 DEF GivesKey
<1>6. \A k : k \in GivesEarly(t, key, dir, buffer) <=>
               k \in GivesEarly(s, key, dir, buffer) \/ (k = n + 1 /\ NewEarly(dir, f, key) /\ buffer = last)
  BY <1>1, <1>3, <1>4 DEF GivesEarly
<1>7. /\ GivesKey(s, key, dir, last + 1) = {} /\ GivesEarly(s, key, dir, last + 1) = {}
      /\ GivesKey(s, key, dir, buffer) \subseteq 1..n /\ GivesEarly(s, key, dir, buffer) \subseteq 1..n
  BY <1>3 DEF GivesKey, GivesEarly
<1>8. GivesKey(t, key, dir, buffer) =
        IF buffer = last /\ NewKey(dir, f, key)
        THEN GivesKey(s, key, dir, buffer) \cup {n + 1} ELSE GivesKey(s, key, dir, buffer)
  BY <1>5
<1>9. GivesEarly(t, key, dir, buffer) =
        IF buffer = last /\ NewEarly(dir, f, key)
        THEN GivesEarly(s, key, dir, buffer) \cup {n + 1} ELSE GivesEarly(s, key, dir, buffer)
  BY <1>6
<1>. QED  BY <1>7, <1>8, <1>9 DEF n, t, last

LEMMA NothingInOrder == InOrder(<<>>, {})
<1>1. DOMAIN <<>> = {}
  OBVIOUS
<1>. QED  BY <1>1 DEF InOrder

\* A later position after those of a key.
LEMMA InOrderAppend ==
  ASSUME NEW v \in Seq(Nat), NEW m \in Nat, NEW S \in SUBSET (1..m), InOrder(v, S)
  PROVE  InOrder(Append(v, m + 1), S \cup {m + 1})
<1> DEFINE w == Append(v, m + 1)
           n == Len(v)
<1>1. /\ n \in Nat /\ DOMAIN v = 1..n /\ DOMAIN w = 1..(n + 1) /\ w[n + 1] = m + 1
      /\ \A i \in 1..n : w[i] = v[i]
  OBVIOUS
<1> HIDE DEF w, n
<1>2. S = {v[i] : i \in DOMAIN v} /\ \A i, j \in DOMAIN v : i < j => v[i] < v[j]
  BY DEF InOrder
<1>3. {w[i] : i \in DOMAIN w} = S \cup {m + 1}
  <2>1. \A i : i \in 1..(n + 1) <=> i \in 1..n \/ i = n + 1
    BY <1>1
  <2>2. \A x : (\E i \in DOMAIN w : x = w[i]) <=> (\E i \in DOMAIN v : x = v[i]) \/ x = m + 1
    BY <1>1, <2>1
  <2>. QED  BY <1>2, <2>2
<1>4. \A i, j \in DOMAIN w : i < j => w[i] < w[j]
  <2> SUFFICES ASSUME NEW i \in DOMAIN w, NEW j \in DOMAIN w, i < j PROVE w[i] < w[j]
    OBVIOUS
  <2>1. i \in 1..n /\ w[i] = v[i] /\ v[i] \in 1..m
    BY <1>1, <1>2
  <2>2. CASE j \in 1..n
    BY <1>1, <1>2, <2>1, <2>2
  <2>3. CASE j = n + 1
    BY <1>1, <2>1, <2>3
  <2>. QED  BY <1>1, <2>2, <2>3
<1>. QED  BY <1>3, <1>4 DEF InOrder, w

\* How many values there are, from the positions alone.
LEMMA InOrderFacts ==
  ASSUME NEW v \in Seq(Nat), NEW S, InOrder(v, S)
  PROVE  /\ v = <<>> <=> S = {}
         /\ v # <<>> => (Len(v) = 1 <=> ~ \E k, l \in S : k # l)
<1>1. Len(v) \in Nat /\ DOMAIN v = 1..Len(v) /\ (v = <<>> <=> Len(v) = 0)
  OBVIOUS
<1>2. S = {v[i] : i \in 1..Len(v)} /\ \A i, j \in 1..Len(v) : i < j => v[i] < v[j]
  BY <1>1 DEF InOrder
<1>3. v = <<>> <=> S = {}
  <2>1. CASE Len(v) = 0
    BY <1>1, <1>2, <2>1
  <2>2. CASE Len(v) # 0
    <3>1. v[1] \in S
      BY <1>1, <1>2, <2>2
    <3>. QED  BY <1>1, <2>2, <3>1
  <2>. QED  BY <2>1, <2>2
<1>4. ASSUME Len(v) = 1 PROVE ~ \E k, l \in S : k # l
  BY <1>2, <1>4
<1>5. ASSUME Len(v) # 0, Len(v) # 1 PROVE \E k, l \in S : k # l
  <2>1. 1 \in 1..Len(v) /\ 2 \in 1..Len(v)
    BY <1>1, <1>5
  <2>2. v[1] \in S /\ v[2] \in S /\ v[1] \in Nat /\ v[2] \in Nat /\ v[1] < v[2]
    BY <1>2, <2>1
  <2>. QED  BY <2>2
<1>. QED  BY <1>1, <1>3, <1>4, <1>5

\* The format chosen without an explicit one.
LEMMA ChosenWithout ==
  ASSUME NEW s, NEW dir, NEW D, NEW P
  PROVE  Chosen(s, dir, {}, D, P) =
           IF D # {} THEN "hdf5" ELSE IF P # {} THEN PathFormat(dir) ELSE None
BY DEF Chosen, Last

LEMMA LastFacts ==
  ASSUME NEW X \in SUBSET Nat, NEW m \in X, \A l \in X : l <= m
  PROVE  Last(X) = {m}
<1>1. \A k \in X : (\A l \in X : l <= k) => k = m
  OBVIOUS
<1>. QED  BY <1>1 DEF Last

\* The format chosen when flag m is the last explicit one.
LEMMA ChosenLast ==
  ASSUME NEW s, NEW dir, NEW X, NEW D, NEW P, NEW m, Last(X) = {m}
  PROVE  Chosen(s, dir, X, D, P) =
           IF s[m].arg = PathFormat(dir) /\ After(D, m) THEN "hdf5" ELSE s[m].arg
<1>1. (CHOOSE l \in Last(X) : TRUE) = m
  OBVIOUS
<1>. QED  BY <1>1 DEF Chosen

\* A flag that starts no buffer changes the format of the last buffer as the program does.
LEMMA AskedStep ==
  ASSUME NEW s \in Seq(Flags), NEW f \in Flags, NEW dir, NEW buffer
  PROVE  LET last == Starts(s, Len(s)) + 1
         IN  /\ Asked(Append(s, f), dir, buffer) =
                  IF buffer = last THEN NewFormat(dir, f, Asked(s, dir, buffer))
                  ELSE Asked(s, dir, buffer)
             /\ Asked(s, dir, last + 1) = None
<1> DEFINE n == Len(s)
           t == Append(s, f)
           last == Starts(s, n) + 1
           X == Gives(s, FormatFlags, dir, buffer)
           D == Gives(s, DatasetFlags, dir, buffer)
           P == Gives(s, PathFlags, dir, buffer)
           IsFormat == f.opt \in DOMAIN FormatFlags /\ FormatFlags[f.opt] = dir
           IsDataset == f.opt \in DOMAIN DatasetFlags /\ DatasetFlags[f.opt] = dir
           IsPath == f.opt \in DOMAIN PathFlags /\ PathFlags[f.opt] = dir
<1>1. /\ n \in Nat /\ t[n + 1] = f /\ n + 1 \notin 1..n
      /\ \A k \in 1..n : t[k] = s[k] /\ s[k].arg # None /\ k < n + 1 /\ ~ (k > n + 1)
      /\ f.arg # None
  BY NoneAssumption
<1>2. "p" \notin DOMAIN FormatFlags /\ "p" \notin DOMAIN DatasetFlags /\ "p" \notin DOMAIN PathFlags
  BY Tables
<1>3. /\ ~ (IsFormat /\ IsDataset) /\ ~ (IsFormat /\ IsPath) /\ ~ (IsDataset /\ IsPath)
      /\ \A old : NewFormat(dir, f, old) =
           IF IsFormat THEN f.arg
           ELSE IF IsPath THEN IF old = None THEN PathFormat(dir) ELSE old
           ELSE IF IsDataset THEN IF old \in {None, PathFormat(dir)} THEN "hdf5" ELSE old
           ELSE old
  BY Tables DEF NewFormat
<1>4. /\ X \subseteq 1..n /\ D \subseteq 1..n /\ P \subseteq 1..n
      /\ Gives(t, FormatFlags, dir, buffer) = IF buffer = last /\ IsFormat THEN X \cup {n + 1} ELSE X
      /\ Gives(t, DatasetFlags, dir, buffer) = IF buffer = last /\ IsDataset THEN D \cup {n + 1} ELSE D
      /\ Gives(t, PathFlags, dir, buffer) = IF buffer = last /\ IsPath THEN P \cup {n + 1} ELSE P
      /\ Gives(s, FormatFlags, dir, last + 1) = {}
      /\ Gives(s, DatasetFlags, dir, last + 1) = {}
      /\ Gives(s, PathFlags, dir, last + 1) = {}
  BY <1>2, GivesFacts
<1>5. PathFormat(dir) # None /\ PathFormat(dir) # "hdf5" /\ "hdf5" # None
  BY NoneAssumption DEF PathFormat
<1>6. Asked(s, dir, last + 1) = None
  <2>1. Asked(s, dir, last + 1) = Chosen(s, dir, {}, {}, {})
    BY <1>4 DEF Asked
  <2>. QED  BY <2>1 DEF Chosen, Last
<1> DEFINE X1 == Gives(t, FormatFlags, dir, buffer)
           D1 == Gives(t, DatasetFlags, dir, buffer)
           P1 == Gives(t, PathFlags, dir, buffer)
<1>7. Asked(s, dir, buffer) = Chosen(s, dir, X, D, P) /\ Asked(t, dir, buffer) = Chosen(t, dir, X1, D1, P1)
  BY DEF Asked
<1> HIDE DEF n, t, last, X, D, P, IsFormat, IsDataset, IsPath, X1, D1, P1
<1>8. X \in SUBSET Nat /\ IsFiniteSet(X) /\ X1 \in SUBSET Nat /\ IsFiniteSet(X1)
  <2>1. X1 \subseteq 1..(n + 1) /\ X \subseteq 1..(n + 1)
    BY <1>1, <1>4 DEF X1
  <2>2. IsFiniteSet(1..(n + 1))
    BY <1>1, FS_Interval
  <2>3. IsFiniteSet(X) /\ IsFiniteSet(X1)
    BY <2>1, <2>2, FS_Subset
  <2>4. 1..(n + 1) \subseteq Nat
    OBVIOUS
  <2>. QED  BY <2>1, <2>3, <2>4
<1>9. CASE X = {}
  <2>1. Chosen(s, dir, X, D, P) = IF D # {} THEN "hdf5" ELSE IF P # {} THEN PathFormat(dir) ELSE None
    BY <1>9, ChosenWithout
  <2>2. CASE buffer = last /\ IsFormat
    <3>1. X1 = {n + 1} /\ D1 = D
      BY <1>3, <1>4, <1>9, <2>2 DEF X1, D1
    <3>2. Chosen(t, dir, X1, D1, P1) = t[n + 1].arg
      <4>1. \A l \in X1 : l <= n + 1
        BY <1>1, <3>1
      <4>2. ~ \E l \in D1 : l > n + 1
        BY <1>1, <1>4, <3>1
      <4>3. n + 1 \in X1
        BY <3>1
      <4>4. Last(X1) = {n + 1}
        BY <1>8, <4>1, <4>3, LastFacts
      <4>5. Chosen(t, dir, X1, D1, P1) =
              IF t[n + 1].arg = PathFormat(dir) /\ After(D1, n + 1) THEN "hdf5" ELSE t[n + 1].arg
        BY <4>4, ChosenLast
      <4>. QED  BY <4>2, <4>5 DEF After
    <3>3. NewFormat(dir, f, Asked(s, dir, buffer)) = f.arg
      BY <1>3, <2>2
    <3>4. Asked(t, dir, buffer) = f.arg
      BY <1>1, <1>7, <3>2
    <3>5. buffer = last
      BY <2>2
    <3> HIDE DEF Asked, NewFormat
    <3>. QED  BY <1>6, <3>3, <3>4, <3>5 DEF n, t, last
  <2>3. CASE ~ (buffer = last /\ IsFormat)
    <3>1. X1 = {}
      BY <1>4, <1>9, <2>3 DEF X1
    <3>2. Chosen(t, dir, X1, D1, P1) =
            IF D1 # {} THEN "hdf5" ELSE IF P1 # {} THEN PathFormat(dir) ELSE None
      BY <3>1, ChosenWithout
    <3>3. /\ D1 = IF buffer = last /\ IsDataset THEN D \cup {n + 1} ELSE D
          /\ P1 = IF buffer = last /\ IsPath THEN P \cup {n + 1} ELSE P
      BY <1>4 DEF D1, P1
    <3>4. Chosen(t, dir, X1, D1, P1) =
            IF buffer = last THEN NewFormat(dir, f, Chosen(s, dir, X, D, P)) ELSE Chosen(s, dir, X, D, P)
      BY <1>3, <1>5, <2>1, <2>3, <3>2, <3>3
    <3>. QED  BY <1>6, <1>7, <3>4 DEF n, t, last
  <2>. QED  BY <2>2, <2>3
<1>10. CASE X # {}
  <2>1. PICK m \in X : \A l \in X : l <= m
    BY <1>8, <1>10, MaxFacts
  <2>2. Chosen(s, dir, X, D, P) =
          IF s[m].arg = PathFormat(dir) /\ After(D, m) THEN "hdf5" ELSE s[m].arg
    <3>1. Last(X) = {m}
      BY <1>8, <2>1, LastFacts
    <3>. QED  BY <3>1, ChosenLast
  <2>3. m \in 1..n /\ t[m].arg = s[m].arg /\ s[m].arg # None
    BY <1>1, <1>4, <2>1
  <2>4. CASE buffer = last /\ IsFormat
    <3>1. X1 = X \cup {n + 1} /\ D1 = D
      BY <1>3, <1>4, <2>4 DEF X1, D1
    <3>2. Chosen(t, dir, X1, D1, P1) = t[n + 1].arg
      <4>1. \A l \in X1 : l <= n + 1
        BY <1>1, <1>4, <3>1
      <4>2. ~ \E l \in D1 : l > n + 1
        BY <1>1, <1>4, <3>1
      <4>3. n + 1 \in X1
        BY <3>1
      <4>4. Last(X1) = {n + 1}
        BY <1>8, <4>1, <4>3, LastFacts
      <4>5. Chosen(t, dir, X1, D1, P1) =
              IF t[n + 1].arg = PathFormat(dir) /\ After(D1, n + 1) THEN "hdf5" ELSE t[n + 1].arg
        BY <4>4, ChosenLast
      <4>. QED  BY <4>2, <4>5 DEF After
    <3>3. NewFormat(dir, f, Asked(s, dir, buffer)) = f.arg
      BY <1>3, <2>4
    <3>4. Asked(t, dir, buffer) = f.arg
      BY <1>1, <1>7, <3>2
    <3>5. buffer = last
      BY <2>4
    <3> HIDE DEF Asked, NewFormat
    <3>. QED  BY <1>6, <3>3, <3>4, <3>5 DEF n, t, last
  <2>5. CASE ~ (buffer = last /\ IsFormat)
    <3>1. X1 = X
      BY <1>4, <2>5 DEF X1
    <3>2. Chosen(t, dir, X1, D1, P1) =
            IF s[m].arg = PathFormat(dir) /\ After(D1, m) THEN "hdf5" ELSE s[m].arg
      <4>1. Last(X1) = {m}
        BY <1>8, <2>1, <3>1, LastFacts
      <4>2. Chosen(t, dir, X1, D1, P1) =
              IF t[m].arg = PathFormat(dir) /\ After(D1, m) THEN "hdf5" ELSE t[m].arg
        BY <4>1, ChosenLast
      <4>. QED  BY <2>3, <4>2
    <3>3. D1 = IF buffer = last /\ IsDataset THEN D \cup {n + 1} ELSE D
      BY <1>4 DEF D1
    <3>4. After(D1, m) <=> After(D, m) \/ (buffer = last /\ IsDataset)
      BY <1>1, <2>3, <3>3 DEF After
    <3>5. Chosen(t, dir, X1, D1, P1) =
            IF buffer = last THEN NewFormat(dir, f, Chosen(s, dir, X, D, P)) ELSE Chosen(s, dir, X, D, P)
      BY <1>3, <1>5, <2>2, <2>3, <2>5, <3>2, <3>4
    <3>. QED  BY <1>6, <1>7, <3>5 DEF n, t, last
  <2>. QED  BY <2>4, <2>5
<1>. QED  BY <1>9, <1>10

-----------------------------------------------------------------------------
(***************************************************************************)
(* The flags preserve the invariant.                                       *)
(***************************************************************************)
LEMMA CountFacts ==
  ASSUME TypeInv, NEW f \in Flags, Take(f)
  PROVE  /\ given' = Append(given, f) /\ given \in Seq(Flags) /\ pc = "flags"
         /\ Count("p") \in Nat /\ Count("p") = Starts(given, Len(given))
         /\ Count("p")' = IF f.opt = "p" THEN Count("p") + 1 ELSE Count("p")
<1>1. given' = Append(given, f) /\ given \in Seq(Flags) /\ pc = "flags"
  BY DEF TypeInv, TypeOK, Take
<1>2. \A s \in Seq(Flags) : Starts(s, Len(s)) = Cardinality({k \in DOMAIN s : s[k].opt = "p"})
  <2> TAKE s \in Seq(Flags)
  <2>1. DOMAIN s = 1..Len(s)
    OBVIOUS
  <2>. QED  BY <2>1 DEF Starts
<1>3. given' \in Seq(Flags) /\ Len(given') = Len(given) + 1
  BY <1>1
<1>4. Count("p") = Starts(given, Len(given)) /\ Count("p")' = Starts(given', Len(given) + 1)
  BY <1>1, <1>2, <1>3 DEF Count
<1>5. /\ Starts(given, Len(given)) \in Nat
      /\ Starts(given', Len(given) + 1) =
           IF f.opt = "p" THEN Starts(given, Len(given)) + 1 ELSE Starts(given, Len(given))
  BY <1>1, StartsFacts
<1>. QED  BY <1>1, <1>4, <1>5

LEMMA NewBuilderFacts ==
  /\ NewBuilder \in Builder /\ NewBuilder.format = None
  /\ \A key \in Keys : NewBuilder.options[key] = <<>> /\ NewBuilder.early[key] = <<>>
<1>1. NoOptions \in Options /\ \A key \in Keys : NoOptions[key] = <<>>
  BY DEF NoOptions, Options
<1>2. None \in Names
  BY DEF Names
<1> HIDE DEF NoOptions, Options, Names, Keys
<1>. QED  BY <1>1, <1>2 DEF NewBuilder, Builder

\* -p: a new buffer of no format in each direction, and nothing else.
LEMMA BufferFacts ==
  ASSUME TypeInv, BuffersInv, NEW f \in Flags, TakeFlag(f), f.opt = "p"
  PROVE  /\ builders' \in [Directions -> Seq(Builder)]
         /\ \A dir \in Directions :
              /\ Len(builders'[dir]) = Len(builders[dir]) + 1
              /\ \A k \in DOMAIN builders[dir] : builders'[dir][k] = builders[dir][k]
              /\ builders'[dir][Len(builders[dir]) + 1] = NewBuilder
         /\ UNCHANGED <<pc, positional, actions, compressor, files, inputs>>
<1>1. NextBuffer(f)
  <2>1. f.opt \notin DOMAIN FormatFlags \cup DOMAIN PathFlags \cup DOMAIN DatasetFlags
               \cup DOMAIN OptionFlags \cup DOMAIN EarlyFlags
    BY Tables
  <2>. QED  BY <2>1 DEF TakeFlag, Format, Path, Dataset, IoOption, EarlyOption, PairOption, ActionFlag, Field,
                   Unknown, PairFlags, FieldFlags, Known
<1>2. NewBuilder \in Builder
  BY NewBuilderFacts
<1>3. \A dir \in Directions : builders'[dir] = Append(builders[dir], NewBuilder)
  BY <1>1 DEF NextBuffer
<1>4. builders \in [Directions -> Seq(Builder)]
  BY DEF TypeInv
<1> HIDE DEF Builder, NewBuilder
<1>5. \A dir \in Directions :
        /\ builders'[dir] \in Seq(Builder)
        /\ Len(builders'[dir]) = Len(builders[dir]) + 1
        /\ \A k \in DOMAIN builders[dir] : builders'[dir][k] = builders[dir][k]
        /\ builders'[dir][Len(builders[dir]) + 1] = NewBuilder
  <2> TAKE dir \in Directions
  <2>1. builders[dir] \in Seq(Builder) /\ builders'[dir] = Append(builders[dir], NewBuilder)
    BY <1>3, <1>4
  <2>. QED  BY <1>2, <2>1
<1>6. builders' \in [Directions -> Seq(Builder)]
  BY <1>1, <1>5 DEF NextBuffer
<1>. QED  BY <1>1, <1>2, <1>5, <1>6 DEF NextBuffer

LEMMA FlagBuffers ==
  ASSUME TypeInv, BuffersInv, NEW f \in Flags, TakeFlag(f)
  PROVE  BuffersInv'
<1>1. Take(f)
  BY DEF TakeFlag, Format, Path, Dataset, IoOption, EarlyOption, PairOption, ActionFlag,
            NextBuffer, Field, Unknown
<1>2. CASE f.opt = "p"
  <2>1. \A dir \in Directions : Len(builders'[dir]) = Count("p")' + 1
    BY <1>1, <1>2, CountFacts, BufferFacts DEF BuffersInv
  <2>. QED  BY <2>1 DEF BuffersInv
<1>3. CASE f.opt # "p"
  <2>1. \A dir \in Directions : Len(builders'[dir]) = Count("p")' + 1
    BY <1>1, <1>3, CountFacts, FlagFacts DEF BuffersInv
  <2>. QED  BY <2>1 DEF BuffersInv
<1>. QED  BY <1>2, <1>3


FormatsAsked ==
  \A dir \in Directions : \A buffer \in DOMAIN builders[dir] :
    builders[dir][buffer].format = Asked(given, dir, buffer)

LEMMA FormatsAreAsked == FormatIsAsAsked <=> FormatsAsked
<1>1. \A dir, buffer : FormatOf(dir, buffer) = Asked(given, dir, buffer)
  BY AskedIsFormatOf
<1>. QED  BY <1>1 DEF FormatIsAsAsked, FormatsAsked

LEMMA FlagFormats ==
  ASSUME TypeInv, BuffersInv, FormatIsAsAsked, NEW f \in Flags, TakeFlag(f)
  PROVE  FormatIsAsAsked'
<1> DEFINE last == Starts(given, Len(given)) + 1
<1>1. Take(f)
  BY DEF TakeFlag, Format, Path, Dataset, IoOption, EarlyOption, PairOption, ActionFlag,
            NextBuffer, Field, Unknown
<1>2. given' = Append(given, f) /\ given \in Seq(Flags)
  BY <1>1, CountFacts
<1>3. \A dir \in Directions : Len(builders[dir]) = last /\ last \in Nat /\ DOMAIN builders[dir] = 1..last
  BY <1>1, CountFacts, BuilderFacts DEF BuffersInv
<1>4. FormatsAsked
  BY FormatsAreAsked
<1>5. \A dir \in Directions : \A buffer :
        Asked(given', dir, buffer) =
          IF buffer = last THEN NewFormat(dir, f, Asked(given, dir, buffer)) ELSE Asked(given, dir, buffer)
  BY <1>2, AskedStep
<1>6. \A dir \in Directions : Asked(given, dir, last + 1) = None
  BY <1>2, AskedStep
<1> HIDE DEF last
<1>7. FormatsAsked'
  <2> SUFFICES ASSUME NEW dir \in Directions, NEW k \in DOMAIN builders'[dir]
               PROVE  builders'[dir][k].format = Asked(given', dir, k)
    BY DEF FormatsAsked
  <2>1. CASE f.opt # "p"
    <3>1. /\ builders' \in [Directions -> Seq(Builder)]
          /\ Len(builders'[dir]) = Len(builders[dir])
          /\ \A l \in DOMAIN builders[dir] :
               builders'[dir][l].format =
                 IF l = Len(builders[dir]) THEN NewFormat(dir, f, builders[dir][l].format)
                 ELSE builders[dir][l].format
      <4> HIDE DEF Builder, NewFormat
      <4>. QED  BY <2>1, FlagFacts DEF Becomes
    <3>2. DOMAIN builders'[dir] = DOMAIN builders[dir]
      <4> HIDE DEF Builder
      <4>. QED  BY <1>3, <3>1
    <3>. QED  BY <1>3, <1>4, <1>5, <3>1, <3>2 DEF FormatsAsked
  <2>2. CASE f.opt = "p"
    <3>1. /\ builders' \in [Directions -> Seq(Builder)]
          /\ Len(builders'[dir]) = last + 1
          /\ \A l \in DOMAIN builders[dir] : builders'[dir][l] = builders[dir][l]
          /\ builders'[dir][last + 1].format = None
      <4> HIDE DEF Builder
      <4>. QED  BY <1>3, <2>2, BufferFacts, NewBuilderFacts
    <3>2. DOMAIN builders'[dir] = 1..(last + 1)
      <4> HIDE DEF Builder
      <4>. QED  BY <3>1
    <3>3. \A old : NewFormat(dir, f, old) = old
      BY <2>2, Tables DEF NewFormat
    <3>4. Asked(given', dir, k) = Asked(given, dir, k)
      BY <1>5, <3>3
    <3>5. k \in 1..last \/ k = last + 1
      BY <1>3, <3>2
    <3>. QED  BY <1>3, <1>4, <1>6, <3>1, <3>4, <3>5 DEF FormatsAsked
  <2>. QED  BY <2>1, <2>2
<1>8. FormatIsAsAsked' <=> FormatsAsked'
  BY FormatsAreAsked, PTL
<1>. QED  BY <1>7, <1>8

LEMMA FlagOptions ==
  ASSUME TypeInv, BuffersInv, OptionsInv, NEW f \in Flags, TakeFlag(f)
  PROVE  OptionsInv'
<1> DEFINE last == Starts(given, Len(given)) + 1
<1>1. Take(f)
  BY DEF TakeFlag, Format, Path, Dataset, IoOption, EarlyOption, PairOption, ActionFlag,
            NextBuffer, Field, Unknown
<1>2. given' = Append(given, f) /\ given \in Seq(Flags) /\ Len(given) \in Nat
  BY <1>1, CountFacts
<1>3. \A dir \in Directions : Len(builders[dir]) = last /\ last \in Nat /\ DOMAIN builders[dir] = 1..last
  BY <1>1, CountFacts, BuilderFacts DEF BuffersInv
<1>4. \A dir \in Directions : \A key \in Keys : \A k :
        /\ GivesKey(given', key, dir, k) =
             IF k = last /\ NewKey(dir, f, key)
             THEN GivesKey(given, key, dir, k) \cup {Len(given) + 1} ELSE GivesKey(given, key, dir, k)
        /\ GivesEarly(given', key, dir, k) =
             IF k = last /\ NewEarly(dir, f, key)
             THEN GivesEarly(given, key, dir, k) \cup {Len(given) + 1} ELSE GivesEarly(given, key, dir, k)
        /\ GivesKey(given, key, dir, last + 1) = {} /\ GivesEarly(given, key, dir, last + 1) = {}
        /\ GivesKey(given, key, dir, k) \subseteq 1..Len(given)
        /\ GivesEarly(given, key, dir, k) \subseteq 1..Len(given)
  BY <1>2, KeyStep
<1>5. \A dir \in Directions : \A k \in DOMAIN builders[dir] : \A key \in Keys :
        /\ builders[dir][k].options[key] \in Seq(Nat) /\ builders[dir][k].early[key] \in Seq(Nat)
        /\ InOrder(builders[dir][k].options[key], GivesKey(given, key, dir, k))
        /\ InOrder(builders[dir][k].early[key], GivesEarly(given, key, dir, k))
  <2> SUFFICES ASSUME NEW dir \in Directions, NEW k \in DOMAIN builders[dir], NEW key \in Keys
               PROVE  builders[dir][k].options[key] \in Seq(Nat) /\ builders[dir][k].early[key] \in Seq(Nat)
    BY DEF OptionsInv
  <2>1. builders[dir][k] \in Builder
    BY BuilderFacts
  <2> HIDE DEF Names, Keys
  <2>. QED  BY <2>1 DEF Builder, Options
<1> HIDE DEF last, Keys
<1> SUFFICES ASSUME NEW dir \in Directions, NEW k \in DOMAIN builders'[dir], NEW key \in Keys
             PROVE  /\ InOrder(builders'[dir][k].options[key], GivesKey(given', key, dir, k))
                    /\ InOrder(builders'[dir][k].early[key], GivesEarly(given', key, dir, k))
  BY DEF OptionsInv, Keys
<1>6. CASE f.opt # "p"
  <2>1. /\ builders' \in [Directions -> Seq(Builder)]
        /\ Len(builders'[dir]) = Len(builders[dir])
        /\ \A l \in DOMAIN builders[dir] :
             IF l = Len(builders[dir]) THEN Becomes(dir, f, builders[dir][l], builders'[dir][l])
             ELSE builders'[dir][l] = builders[dir][l]
    <3> HIDE DEF Builder, Becomes
    <3>. QED  BY <1>6, FlagFacts
  <2>2. k \in DOMAIN builders[dir]
    <3> HIDE DEF Builder, Becomes
    <3>. QED  BY <1>3, <2>1
  <2>3. CASE k # last
    <3>1. builders'[dir][k] = builders[dir][k]
      BY <1>3, <2>1, <2>2, <2>3
    <3>2. GivesKey(given', key, dir, k) = GivesKey(given, key, dir, k)
          /\ GivesEarly(given', key, dir, k) = GivesEarly(given, key, dir, k)
      BY <1>4, <2>3
    <3>. QED  BY <1>5, <2>2, <3>1, <3>2
  <2>4. CASE k = last
    <3>1. Becomes(dir, f, builders[dir][k], builders'[dir][k])
      BY <1>3, <2>1, <2>2, <2>4
    <3>2. InOrder(builders'[dir][k].options[key], GivesKey(given', key, dir, k))
      <4>1. CASE NewKey(dir, f, key)
        <5>1. /\ builders'[dir][k].options[key] = Append(builders[dir][k].options[key], Len(given) + 1)
              /\ GivesKey(given', key, dir, k) = GivesKey(given, key, dir, k) \cup {Len(given) + 1}
          BY <1>4, <2>4, <3>1, <4>1 DEF Becomes
        <5> DEFINE v == builders[dir][k].options[key]
                   S == GivesKey(given, key, dir, k)
        <5>2. /\ v \in Seq(Nat) /\ S \in SUBSET (1..Len(given)) /\ InOrder(v, S)
              /\ builders'[dir][k].options[key] = Append(v, Len(given) + 1)
              /\ GivesKey(given', key, dir, k) = S \cup {Len(given) + 1}
          BY <1>4, <1>5, <2>2, <5>1
        <5> HIDE DEF v, S
        <5>. QED  BY <1>2, <5>2, InOrderAppend
      <4>2. CASE ~ NewKey(dir, f, key)
        <5>1. /\ builders'[dir][k].options[key] = builders[dir][k].options[key]
              /\ GivesKey(given', key, dir, k) = GivesKey(given, key, dir, k)
          BY <1>4, <3>1, <4>2 DEF Becomes
        <5>. QED  BY <1>5, <2>2, <5>1
      <4>. QED  BY <4>1, <4>2
    <3>3. InOrder(builders'[dir][k].early[key], GivesEarly(given', key, dir, k))
      <4>1. CASE NewEarly(dir, f, key)
        <5>1. /\ builders'[dir][k].early[key] = Append(builders[dir][k].early[key], Len(given) + 1)
              /\ GivesEarly(given', key, dir, k) = GivesEarly(given, key, dir, k) \cup {Len(given) + 1}
          BY <1>4, <2>4, <3>1, <4>1 DEF Becomes
        <5> DEFINE v == builders[dir][k].early[key]
                   S == GivesEarly(given, key, dir, k)
        <5>2. /\ v \in Seq(Nat) /\ S \in SUBSET (1..Len(given)) /\ InOrder(v, S)
              /\ builders'[dir][k].early[key] = Append(v, Len(given) + 1)
              /\ GivesEarly(given', key, dir, k) = S \cup {Len(given) + 1}
          BY <1>4, <1>5, <2>2, <5>1
        <5> HIDE DEF v, S
        <5>. QED  BY <1>2, <5>2, InOrderAppend
      <4>2. CASE ~ NewEarly(dir, f, key)
        <5>1. /\ builders'[dir][k].early[key] = builders[dir][k].early[key]
              /\ GivesEarly(given', key, dir, k) = GivesEarly(given, key, dir, k)
          BY <1>4, <3>1, <4>2 DEF Becomes
        <5>. QED  BY <1>5, <2>2, <5>1
      <4>. QED  BY <4>1, <4>2
    <3>. QED  BY <3>2, <3>3
  <2>. QED  BY <2>3, <2>4
<1>7. CASE f.opt = "p"
  <2>1. /\ builders' \in [Directions -> Seq(Builder)]
        /\ Len(builders'[dir]) = last + 1
        /\ \A l \in DOMAIN builders[dir] : builders'[dir][l] = builders[dir][l]
        /\ builders'[dir][last + 1] = NewBuilder
    <3> HIDE DEF Builder
    <3>. QED  BY <1>3, <1>7, BufferFacts
  <2>2. k \in 1..last \/ k = last + 1
    <3> HIDE DEF Builder
    <3>. QED  BY <1>3, <2>1
  <2>3. ~ NewKey(dir, f, key) /\ ~ NewEarly(dir, f, key)
    BY <1>7, Tables DEF NewKey, NewEarly
  <2>4. /\ GivesKey(given', key, dir, k) = GivesKey(given, key, dir, k)
        /\ GivesEarly(given', key, dir, k) = GivesEarly(given, key, dir, k)
    BY <1>4, <2>3
  <2>5. CASE k \in 1..last
    BY <1>3, <1>5, <2>1, <2>4, <2>5
  <2>6. CASE k = last + 1
    <3>1. builders'[dir][k].options[key] = <<>> /\ builders'[dir][k].early[key] = <<>>
      BY <2>1, <2>6, NewBuilderFacts
    <3>2. GivesKey(given', key, dir, k) = {} /\ GivesEarly(given', key, dir, k) = {}
      BY <1>4, <2>4, <2>6
    <3>. QED  BY <3>1, <3>2, NothingInOrder
  <2>. QED  BY <2>2, <2>5, <2>6
<1>. QED  BY <1>6, <1>7

LEMMA FlagTypes ==
  ASSUME TypeInv, BuffersInv, FilesInv, NEW f \in Flags, TakeFlag(f)
  PROVE  TypeInv' /\ FilesInv' /\ MadeInv'
<1>1. Take(f)
  BY DEF TakeFlag, Format, Path, Dataset, IoOption, EarlyOption, PairOption, ActionFlag,
            NextBuffer, Field, Unknown
<1>2. given' \in Seq(Flags) /\ pc = "flags"
  BY <1>1, CountFacts
<1>3. /\ builders' \in [Directions -> Seq(Builder)]
      /\ \A dir \in Directions : Len(builders'[dir]) >= Len(builders[dir])
      /\ UNCHANGED <<positional, compressor, files, inputs>>
      /\ pc' \in {"flags", "terminated", "failure"}
      /\ actions' \subseteq ActionNames
  <2> HIDE DEF Builder
  <2>1. CASE f.opt = "p"
    BY <1>2, <2>1, BufferFacts, BuilderFacts DEF TypeInv, TypeOK
  <2>2. CASE f.opt # "p"
    <3>1. \A dir \in Directions : Len(builders'[dir]) = Len(builders[dir])
      BY <2>2, FlagFacts
    <3>. QED  BY <2>2, <3>1, BuilderFacts, FlagFacts
  <2>. QED  BY <2>1, <2>2
<1>4. /\ \A dir \in Directions : files[dir] = <<>> /\ Len(files[dir]) = 0 /\ DOMAIN files[dir] = {}
      /\ files \in [Directions -> Seq(Options)] /\ inputs = 0
  <2>1. \A dir \in Directions : files[dir] = <<>>
    BY <1>2 DEF FilesInv
  <2>2. Len(<<>>) = 0 /\ DOMAIN <<>> = {}
    OBVIOUS
  <2>3. \A dir \in Directions : Len(files[dir]) = 0 /\ DOMAIN files[dir] = {}
    BY <2>1, <2>2
  <2>. QED  BY <2>1, <2>3 DEF TypeInv, TypeOK, Directions
<1> HIDE DEF Builder, Options
<1>5. \A dir \in Directions : Len(builders'[dir]) \in Nat
  BY <1>3
<1>6. TypeInv'
  BY <1>2, <1>3, <1>4, <1>5 DEF TypeInv, TypeOK, Directions
<1>7. FilesInv'
  BY <1>3, <1>4 DEF FilesInv, NeedsInput, Directions
<1>8. MadeInv'
  <2> HIDE DEF Makes, Made
  <2>. QED  BY <1>3, <1>4 DEF MadeInv
<1>. QED  BY <1>6, <1>7, <1>8


-----------------------------------------------------------------------------
(***************************************************************************)
(* The steps after the flags preserve the invariant.                       *)
(***************************************************************************)

\* They take no flag and change no builder.
LEMMA SameBuilders ==
  ASSUME BuffersInv, OptionsInv, FormatIsAsAsked, UNCHANGED <<given, builders>>
  PROVE  BuffersInv' /\ OptionsInv' /\ FormatIsAsAsked'
<1>1. BuffersInv'
  BY DEF BuffersInv, Count
<1>2. OptionsInv'
  BY DEF OptionsInv
<1>3. FormatsAsked'
  BY FormatsAreAsked DEF FormatsAsked
<1>4. FormatIsAsAsked' <=> FormatsAsked'
  BY FormatsAreAsked, PTL
<1>. QED  BY <1>1, <1>2, <1>3, <1>4

\* What a plugin holds is what it had, or what is written over it.
LEMMA OverFacts ==
  ASSUME NEW plugin \in Options, NEW options \in Options, NEW keys
  PROVE  /\ Over(plugin, options, keys) \in Options
         /\ \A key \in Keys :
              Over(plugin, options, keys)[key] =
                IF key \in keys /\ options[key] # <<>> THEN options[key] ELSE plugin[key]
<1> HIDE DEF Keys
<1>1. \A key \in Keys : plugin[key] \in Seq(Nat) /\ options[key] \in Seq(Nat)
  BY DEF Options
<1>. QED  BY <1>1 DEF Over, Options

LEMMA MadeFacts ==
  ASSUME NEW b \in Builder
  PROVE  /\ Made(b) \in Options
         /\ \A key \in Keys :
              Made(b)[key] =
                CASE key \in KeysOf(b) /\ b.options[key] # <<>> -> b.options[key]
                  [] /\ ~ (key \in KeysOf(b) /\ b.options[key] # <<>>)
                     /\ key \in KeysOf(b) /\ SetsEarly(key, b.early[key]) -> b.early[key]
                  [] OTHER -> <<>>
<1> DEFINE path == Accepts[PluginOf(b)] \cap {"io:path"}
           early == {key \in KeysOf(b) : SetsEarly(key, b.early[key])}
           one == Over(NoOptions, b.options, path)
           two == Over(one, b.early, early)
<1>1. Made(b) = Over(two, b.options, KeysOf(b))
  BY DEF Made
<1>2. b.options \in Options /\ b.early \in Options
  <2> HIDE DEF Options, Names
  <2>. QED  BY DEF Builder
<1>3. NoOptions \in Options /\ \A key \in Keys : NoOptions[key] = <<>>
  BY DEF NoOptions, Options
<1>4. path \subseteq KeysOf(b)
  BY DEF KeysOf
<1>5. \A key : key \in early <=> key \in KeysOf(b) /\ SetsEarly(key, b.early[key])
  OBVIOUS
<1>6. \A key : SetsEarly(key, b.early[key]) => b.early[key] # <<>>
  BY DEF SetsEarly
<1> HIDE DEF path, early, Options, Keys
<1>7. /\ one \in Options
      /\ \A key \in Keys : one[key] = IF key \in path /\ b.options[key] # <<>> THEN b.options[key] ELSE <<>>
  BY <1>2, <1>3, OverFacts
<1> HIDE DEF one
<1>8. /\ two \in Options
      /\ \A key \in Keys : two[key] = IF key \in early /\ b.early[key] # <<>> THEN b.early[key] ELSE one[key]
  BY <1>2, <1>7, OverFacts
<1> HIDE DEF two
<1>9. /\ Made(b) \in Options
      /\ \A key \in Keys :
           Made(b)[key] = IF key \in KeysOf(b) /\ b.options[key] # <<>> THEN b.options[key] ELSE two[key]
  BY <1>1, <1>2, <1>8, OverFacts
<1>. QED  BY <1>4, <1>5, <1>6, <1>7, <1>8, <1>9

\* The next file of a direction is made.
LEMMA MakeFileFacts ==
  ASSUME TypeInv, BuffersInv, MadeInv, NEW dir \in Directions, Len(files[dir]) < Len(builders[dir]),
         Makes(NextBuilder(dir)), MakeFile(dir), UNCHANGED builders
  PROVE  /\ files' \in [Directions -> Seq(Options)]
         /\ Len(files'[dir]) = Len(files[dir]) + 1
         /\ \A e \in Directions : e # dir => files'[e] = files[e]
         /\ \A e \in Directions : Len(files'[e]) \in 0..Len(builders[e])
         /\ MadeInv'
<1> DEFINE n == Len(files[dir])
           b == builders[dir][n + 1]
<1>1. \A e \in Directions : Len(builders[e]) \in Nat /\ Len(files[e]) \in 0..Len(builders[e])
  BY BuilderFacts DEF TypeInv, TypeOK
<1>2. files \in [Directions -> Seq(Options)] /\ n \in Nat
  BY <1>1 DEF TypeInv
<1>3. b \in Builder
  <2>1. n + 1 \in 1..Len(builders[dir])
    BY <1>1
  <2>. QED  BY <2>1, BuilderFacts
<1>4. Made(b) \in Options
  BY <1>3, MadeFacts
<1>5. files' = [files EXCEPT ![dir] = Append(files[dir], Made(b))] /\ Makes(b)
  BY DEF MakeFile, NextBuilder
<1> HIDE DEF Options, Makes, Made, b, n
<1>6. /\ files' \in [Directions -> Seq(Options)]
      /\ files'[dir] = Append(files[dir], Made(b))
      /\ \A e \in Directions : e # dir => files'[e] = files[e]
  BY <1>2, <1>4, <1>5
<1>7. /\ Len(files'[dir]) = n + 1 /\ DOMAIN files'[dir] = 1..(n + 1)
      /\ DOMAIN files[dir] = 1..n
      /\ \A k \in 1..n : files'[dir][k] = files[dir][k]
      /\ files'[dir][n + 1] = Made(b)
  BY <1>2, <1>4, <1>6 DEF n
<1>8. MadeInv'
  <2> SUFFICES ASSUME NEW e \in Directions, NEW k \in DOMAIN files'[e]
               PROVE  Makes(builders[e][k]) /\ files'[e][k] = Made(builders[e][k])
    BY DEF MadeInv
  <2>1. CASE e # dir \/ k \in 1..n
    BY <1>6, <1>7, <2>1 DEF MadeInv
  <2>2. CASE e = dir /\ k = n + 1
    BY <1>5, <1>7, <2>2 DEF b
  <2>3. e = dir => k \in 1..n \/ k = n + 1
    BY <1>2, <1>7
  <2>. QED  BY <2>1, <2>2, <2>3
<1>9. \A e \in Directions : Len(files'[e]) \in 0..Len(builders[e])
  <2> TAKE e \in Directions
  <2>1. CASE e = dir
    <3>1. n < Len(builders[dir])
      BY DEF n
    <3>. QED  BY <1>1, <1>2, <1>7, <2>1, <3>1
  <2>2. CASE e # dir
    BY <1>1, <1>6, <2>2
  <2>. QED  BY <2>1, <2>2
<1>. QED  BY <1>6, <1>7, <1>8, <1>9, Zenon DEF n

LEMMA MakeSteps ==
  ASSUME IInv, ReadInput \/ \E dir \in {"compressed", "decompressed"} : MakeOutput(dir)
  PROVE  IInv'
<1>1. TypeInv /\ BuffersInv /\ OptionsInv /\ FilesInv /\ MadeInv /\ FormatIsAsAsked
  BY DEF IInv
<1>2. UNCHANGED <<given, positional, actions, compressor, builders>>
  BY DEF ReadInput, MakeOutput
<1>3. \A dir \in Directions : Len(builders[dir]) \in Nat /\ Len(files[dir]) \in 0..Len(builders[dir])
  BY <1>1, BuilderFacts DEF TypeInv, TypeOK
<1> HIDE DEF Makes, Made, Builder, Options
<1>4. CASE UNCHANGED <<files, inputs>> /\ pc' = "failure"
  <2>1. TypeInv' /\ FilesInv' /\ MadeInv'
    BY <1>1, <1>2, <1>4 DEF TypeInv, TypeOK, FilesInv, MadeInv
  <2>. QED  BY <1>1, <1>2, <2>1, SameBuilders DEF IInv
<1>5. CASE ~ (UNCHANGED <<files, inputs>> /\ pc' = "failure") /\ ReadInput
  <2>1. /\ "input" \in Directions /\ pc = "inputs" /\ Len(files["input"]) < Len(builders["input"])
        /\ Makes(NextBuilder("input")) /\ MakeFile("input")
        /\ \/ inputs' = (IF NeedsInput THEN inputs + 1 ELSE inputs) /\ pc' = pc
           \/ pc' = (IF NeedsInput THEN "failure" ELSE pc) /\ inputs' = inputs
    BY <1>5 DEF ReadInput, Directions
  <2>2. /\ files' \in [Directions -> Seq(Options)]
        /\ Len(files'["input"]) = Len(files["input"]) + 1
        /\ \A e \in Directions : Len(files'[e]) \in 0..Len(builders[e])
        /\ MadeInv'
    BY <1>1, <1>2, <2>1, MakeFileFacts
  <2>3. Len(files["input"]) \in Nat /\ inputs \in 0..Len(files["input"])
    BY <1>1, <1>3, <2>1 DEF TypeInv, TypeOK
  <2>4. TypeInv'
    BY <1>1, <1>2, <2>1, <2>2, <2>3 DEF TypeInv, TypeOK
  <2>5. FilesInv'
    <3>1. NeedsInput' = NeedsInput
      BY <1>2 DEF NeedsInput
    <3>2. pc # "failure" /\ NeedsInput => inputs = Len(files["input"])
      BY <1>1 DEF FilesInv
    <3>3. pc' # "failure" /\ NeedsInput' => inputs' = Len(files'["input"])
      BY <2>1, <2>2, <2>3, <3>1, <3>2
    <3>4. pc' \in {"inputs", "failure"}
      BY <2>1
    <3> HIDE DEF NeedsInput
    <3>. QED  BY <1>2, <2>2, <3>3, <3>4 DEF FilesInv
  <2>. QED  BY <1>1, <1>2, <2>2, <2>4, <2>5, SameBuilders DEF IInv
<1>6. CASE ~ (UNCHANGED <<files, inputs>> /\ pc' = "failure")
           /\ \E dir \in {"compressed", "decompressed"} : MakeOutput(dir)
  <2>1. PICK dir \in {"compressed", "decompressed"} : MakeOutput(dir)
    BY <1>6
  <2>2. /\ dir \in Directions /\ dir # "input" /\ pc = "outputs" /\ Len(files[dir]) < Len(builders[dir])
        /\ Makes(NextBuilder(dir)) /\ MakeFile(dir) /\ UNCHANGED <<pc, inputs>>
    BY <1>6, <2>1 DEF MakeOutput, Directions
  <2>3. /\ files' \in [Directions -> Seq(Options)]
        /\ files'["input"] = files["input"]
        /\ \A e \in Directions : Len(files'[e]) \in 0..Len(builders[e])
        /\ MadeInv'
    BY <1>1, <1>2, <2>2, MakeFileFacts DEF Directions
  <2>4. TypeInv'
    BY <1>1, <1>2, <2>2, <2>3 DEF TypeInv, TypeOK
  <2>5. FilesInv'
    <3>1. NeedsInput' = NeedsInput
      BY <1>2 DEF NeedsInput
    <3> HIDE DEF NeedsInput
    <3>. QED  BY <1>1, <1>2, <2>2, <2>3, <3>1 DEF FilesInv
  <2>. QED  BY <1>1, <1>2, <2>3, <2>4, <2>5, SameBuilders DEF IInv
<1>. QED  BY <1>4, <1>5, <1>6

LEMMA OtherSteps ==
  ASSUME IInv, NoArguments \/ EndOfFlags \/ InputsRead \/ Return
  PROVE  IInv'
<1>1. TypeInv /\ BuffersInv /\ OptionsInv /\ FilesInv /\ MadeInv /\ FormatIsAsAsked
  BY DEF IInv
<1>2. UNCHANGED <<given, builders, files, inputs, positional>>
  BY DEF NoArguments, EndOfFlags, InputsRead, Return, Exit
<1> HIDE DEF Makes, Made, Builder, Options
<1>3. TypeInv'
  <2>1. CASE NoArguments
    BY <1>1, <1>2, <2>1 DEF NoArguments, Exit, TypeInv, TypeOK
  <2>2. CASE EndOfFlags
    <3>1. actions' \subseteq ActionNames
      BY <1>1, <2>2 DEF EndOfFlags, TypeInv, TypeOK, ActionNames
    <3>2. compressor' \in Positionals \cup {"pressio"} /\ pc' = "inputs"
      BY <1>1, <2>2 DEF EndOfFlags, TypeInv, TypeOK
    <3>. QED  BY <1>1, <1>2, <3>1, <3>2 DEF TypeInv, TypeOK
  <2>3. CASE InputsRead \/ Return
    BY <1>1, <1>2, <2>3 DEF InputsRead, Return, TypeInv, TypeOK
  <2>. QED  BY <2>1, <2>2, <2>3
<1>4. MadeInv'
  BY <1>1, <1>2 DEF MadeInv
<1>5. FilesInv'
  <2>1. CASE NoArguments \/ EndOfFlags
    <3>1. pc = "flags" /\ pc' \in {"inputs", "success"}
      BY <2>1 DEF NoArguments, EndOfFlags, Exit
    <3>2. Len(files["input"]) = 0 /\ inputs = 0
      <4>1. files["input"] = <<>>
        BY <1>1, <3>1 DEF FilesInv, Directions
      <4>2. Len(files["input"]) = 0
        BY <4>1
      <4>. QED  BY <1>1, <4>2 DEF TypeInv, TypeOK
    <3> HIDE DEF NeedsInput
    <3>. QED  BY <1>2, <3>1, <3>2 DEF FilesInv
  <2>2. CASE InputsRead
    <3>1. pc' = "outputs" /\ pc # "failure" /\ Len(files["input"]) = Len(builders["input"]) /\ UNCHANGED actions
      BY <2>2 DEF InputsRead
    <3>2. NeedsInput' = NeedsInput
      BY <3>1 DEF NeedsInput
    <3> HIDE DEF NeedsInput
    <3>. QED  BY <1>1, <1>2, <3>1, <3>2 DEF FilesInv
  <2>3. CASE Return
    <3>1. pc' = "returned" /\ pc = "outputs" /\ UNCHANGED actions
          /\ \A dir \in {"compressed", "decompressed"} : Len(files[dir]) = Len(builders[dir])
      BY <2>3 DEF Return
    <3>2. NeedsInput' = NeedsInput
      BY <3>1 DEF NeedsInput
    <3>3. \A dir \in Directions : Len(files[dir]) = Len(builders[dir])
      BY <1>1, <3>1 DEF FilesInv, Directions
    <3> HIDE DEF NeedsInput
    <3>. QED  BY <1>1, <1>2, <3>1, <3>2, <3>3 DEF FilesInv, Directions
  <2>. QED  BY <2>1, <2>2, <2>3
<1>. QED  BY <1>1, <1>2, <1>3, <1>4, <1>5, SameBuilders DEF IInv

LEMMA InitStep == Init => IInv
<1> SUFFICES ASSUME Init PROVE IInv
  OBVIOUS
<1>1. /\ pc = "flags" /\ given = <<>> /\ positional \in Positionals /\ actions = {}
      /\ compressor = "pressio" /\ inputs = 0
      /\ builders = [dir \in Directions |-> <<NewBuilder>>] /\ files = [dir \in Directions |-> <<>>]
  BY DEF Init
<1>2. /\ NewBuilder \in Builder /\ NewBuilder.format = None
      /\ \A key \in Keys : NewBuilder.options[key] = <<>> /\ NewBuilder.early[key] = <<>>
  BY NewBuilderFacts
<1>3. given \in Seq(Flags) /\ Len(given) = 0 /\ DOMAIN given = {}
  BY <1>1
<1> HIDE DEF Builder, NewBuilder, Options, Keys
<1>4. /\ builders \in [Directions -> Seq(Builder)]
      /\ \A dir \in Directions : Len(builders[dir]) = 1 /\ DOMAIN builders[dir] = 1..1
                                 /\ builders[dir][1] = NewBuilder
  BY <1>1, <1>2
<1>5. /\ files \in [Directions -> Seq(Options)]
      /\ \A dir \in Directions : files[dir] = <<>> /\ Len(files[dir]) = 0 /\ DOMAIN files[dir] = {}
  BY <1>1
<1>6. TypeInv
  BY <1>1, <1>3, <1>4, <1>5 DEF TypeInv, TypeOK, Directions
<1>7. BuffersInv
  <2>1. Count("p") = 0
    <3> DEFINE Ps == {k \in DOMAIN given : given[k].opt = "p"}
    <3>1. Count("p") = Cardinality(Ps)
      BY DEF Count
    <3>2. Ps = {}
      BY <1>3
    <3> HIDE DEF Ps
    <3>. QED  BY <3>1, <3>2, FS_EmptySet
  <2>2. \A dir \in Directions : Len(builders[dir]) = 1
    BY <1>4
  <2>3. Count("p") + 1 = 1
    BY <2>1
  <2>. QED  BY <2>2, <2>3 DEF BuffersInv
<1>8. \A table, dir, buffer : Gives(given, table, dir, buffer) = {}
  BY <1>3 DEF Gives
<1>9. OptionsInv
  <2>1. \A key, dir, buffer :
          GivesKey(given, key, dir, buffer) = {} /\ GivesEarly(given, key, dir, buffer) = {}
    BY <1>8 DEF GivesKey, GivesEarly
  <2> SUFFICES ASSUME NEW dir \in Directions, NEW buffer \in DOMAIN builders[dir], NEW key \in Keys
               PROVE  /\ InOrder(builders[dir][buffer].options[key], {})
                      /\ InOrder(builders[dir][buffer].early[key], {})
    BY <2>1 DEF OptionsInv
  <2>2. builders[dir][buffer] = NewBuilder
    BY <1>4
  <2>. QED  BY <1>2, <2>2, NothingInOrder
<1>10. FilesInv
  <2>1. pc = "flags" /\ inputs = 0 /\ Len(files["input"]) = 0 /\ \A dir \in Directions : files[dir] = <<>>
    BY <1>1, <1>5 DEF Directions
  <2> HIDE DEF NeedsInput, Directions
  <2>. QED  BY <2>1 DEF FilesInv
<1>11. MadeInv
  BY <1>5 DEF MadeInv
<1>12. FormatsAsked
  <2> SUFFICES ASSUME NEW dir \in Directions, NEW buffer \in DOMAIN builders[dir]
               PROVE  builders[dir][buffer].format = Asked(given, dir, buffer)
    BY DEF FormatsAsked
  <2>1. Asked(given, dir, buffer) = None
    BY <1>8, ChosenWithout DEF Asked
  <2>. QED  BY <1>2, <1>4, <2>1
<1>. QED  BY <1>6, <1>7, <1>9, <1>10, <1>11, <1>12, FormatsAreAsked DEF IInv

LEMMA NextStep == IInv /\ [Next]_vars => IInv'
<1> SUFFICES ASSUME IInv, [Next]_vars PROVE IInv'
  OBVIOUS
<1>1. ASSUME NEW f \in Flags, TakeFlag(f) PROVE IInv'
  BY <1>1, FlagBuffers, FlagOptions, FlagFormats, FlagTypes DEF IInv
<1>2. CASE UNCHANGED vars
  <2> HIDE DEF Builder, Options, Makes, Made
  <2>1. TypeInv' /\ FilesInv' /\ MadeInv'
    BY <1>2 DEF vars, IInv, TypeInv, TypeOK, FilesInv, MadeInv, NeedsInput
  <2>. QED  BY <1>2, <2>1, SameBuilders DEF vars, IInv
<1>. QED  BY <1>1, <1>2, MakeSteps, OtherSteps DEF Next

-----------------------------------------------------------------------------
(***************************************************************************)
(* The theorems.                                                           *)
(***************************************************************************)
LEMMA Inductive == Spec => []IInv
BY InitStep, NextStep, PTL DEF Spec

\* Every state is well typed; no more files are made than there are buffers, and no more
\* inputs read than input files made.
THEOREM TypeCorrect == Spec => []TypeOK
<1>1. IInv => TypeOK
  BY DEF IInv, TypeInv
<1>. QED  BY <1>1, Inductive, PTL

\* When parse_args returns, whatever the flags and their order were, the three
\* directions have one file for each buffer, and as many inputs when inputs are needed.
THEOREM FilesMatchBuffers == Spec => []BuffersAligned
<1>1. IInv => BuffersAligned
  BY DEF IInv, BuffersInv, FilesInv, BuffersAligned, Directions
<1>. QED  BY <1>1, Inductive, PTL

\* However -T, -i, -I and the flags like them follow each other, the format of each
\* buffer is the one FormatOf derives from their positions.
THEOREM FormatsAreThoseAsked == Spec => []FormatIsAsAsked
<1>1. IInv => FormatIsAsAsked
  BY DEF IInv
<1>. QED  BY <1>1, Inductive, PTL

\* When parse_args returns, whatever the flags, their order and the plugins, each plugin
\* holds for every key the values of the flags about its buffer and direction, in their
\* order: those given after its modules were selected, or else the early ones where the
\* plugin has the key and the type fits, and none otherwise.
THEOREM OptionsAreThoseGiven == Spec => []OptionsReachPlugins
<1>1. IInv => OptionsReachPlugins
  <2> SUFFICES ASSUME IInv, pc = "returned", NEW dir \in Directions, NEW buffer \in DOMAIN builders[dir]
               PROVE  \A key \in Keys :
                        InOrder(files[dir][buffer][key],
                                CASE KeyFlags(key, dir, buffer) # {} -> KeyFlags(key, dir, buffer)
                                  [] /\ KeyFlags(key, dir, buffer) = {}
                                     /\ HasKey(key, dir, buffer) /\ EarlyFits(key, dir, buffer) ->
                                       EarlyKeyFlags(key, dir, buffer)
                                  [] OTHER -> {})
    BY DEF OptionsReachPlugins
  <2> DEFINE b == builders[dir][buffer]
             own == Accepts[PluginOf(b)]
  <2>1. b \in Builder
    BY BuilderFacts DEF IInv
  <2>2. Makes(b) /\ files[dir][buffer] = Made(b)
    <3>1. files[dir] \in Seq(Options) /\ Len(files[dir]) = Len(builders[dir])
      BY DEF IInv, TypeInv, FilesInv
    <3> HIDE DEF Options
    <3>2. buffer \in DOMAIN files[dir]
      BY <3>1, BuilderFacts DEF IInv
    <3> HIDE DEF Makes, Made
    <3>. QED  BY <3>2 DEF IInv, MadeInv
  <2>3. b.format = FormatOf(dir, buffer)
    BY DEF IInv, FormatIsAsAsked
  <2>4. \A key \in Keys :
          /\ b.options[key] \in Seq(Nat) /\ InOrder(b.options[key], KeyFlags(key, dir, buffer))
          /\ b.early[key] \in Seq(Nat) /\ InOrder(b.early[key], EarlyKeyFlags(key, dir, buffer))
    <3>1. \A key \in Keys : b.options[key] \in Seq(Nat) /\ b.early[key] \in Seq(Nat)
      <4> HIDE DEF b, Names, Keys
      <4>. QED  BY <2>1 DEF Builder, Options
    <3>2. \A key \in Keys : /\ InOrder(b.options[key], GivesKey(given, key, dir, buffer))
                            /\ InOrder(b.early[key], GivesEarly(given, key, dir, buffer))
      BY DEF IInv, OptionsInv
    <3>. QED  BY <3>1, <3>2, KeyFlagsAreGiven
  <2> HIDE DEF b
  <2>5. \A key \in Keys : /\ b.options[key] = <<>> <=> KeyFlags(key, dir, buffer) = {}
                          /\ SetsEarly(key, b.early[key]) <=> EarlyFits(key, dir, buffer)
    <3> SUFFICES ASSUME NEW key \in Keys
                 PROVE  /\ b.options[key] = <<>> <=> KeyFlags(key, dir, buffer) = {}
                        /\ SetsEarly(key, b.early[key]) <=> EarlyFits(key, dir, buffer)
      OBVIOUS
    <3> HIDE DEF Keys
    <3>1. b.options[key] = <<>> <=> KeyFlags(key, dir, buffer) = {}
      BY <2>4, InOrderFacts
    <3>2. /\ b.early[key] = <<>> <=> EarlyKeyFlags(key, dir, buffer) = {}
          /\ b.early[key] # <<>> =>
               (Len(b.early[key]) = 1 <=> ~ \E k, l \in EarlyKeyFlags(key, dir, buffer) : k # l)
      BY <2>4, InOrderFacts
    <3>. QED  BY <3>1, <3>2 DEF SetsEarly, EarlyFits
  <2>6. own \subseteq Keys
    BY <2>2, OptionsAssumption DEF Makes
  <2>7. \A key : key \in KeysOf(b) <=> HasKey(key, dir, buffer)
    <3>1. own = Accepts[IF FormatOf(dir, buffer) = None THEN "noop" ELSE FormatOf(dir, buffer)]
      BY <2>3 DEF PluginOf
    <3>2. \A key : key \in KeysOf(b) <=>
                     key \in own \/ \E s \in own : SetsEarly(s, b.early[s]) /\ key \in Brings[s]
      BY DEF KeysOf
    <3>3. \A key : HasKey(key, dir, buffer) <=>
                     key \in own \/ \E s \in own : EarlyFits(s, dir, buffer) /\ key \in Brings[s]
      BY <3>1 DEF HasKey
    <3> HIDE DEF own, Keys
    <3>. QED  BY <2>5, <2>6, <3>2, <3>3
  <2>8. \A key \in Keys : b.options[key] # <<>> => key \in KeysOf(b)
    BY <2>2 DEF Makes
  <2>9. \A key \in Keys :
          Made(b)[key] =
            CASE key \in KeysOf(b) /\ b.options[key] # <<>> -> b.options[key]
              [] /\ ~ (key \in KeysOf(b) /\ b.options[key] # <<>>)
                 /\ key \in KeysOf(b) /\ SetsEarly(key, b.early[key]) -> b.early[key]
              [] OTHER -> <<>>
    BY <2>1, MadeFacts
  <2> TAKE key \in Keys
  <2> HIDE DEF Keys
  <2>10. CASE KeyFlags(key, dir, buffer) # {}
    <3>1. Made(b)[key] = b.options[key]
      BY <2>5, <2>8, <2>9, <2>10
    <3>. QED  BY <2>2, <2>4, <2>10, <3>1
  <2>11. CASE /\ KeyFlags(key, dir, buffer) = {}
              /\ HasKey(key, dir, buffer) /\ EarlyFits(key, dir, buffer)
    <3>1. Made(b)[key] = b.early[key]
      BY <2>5, <2>7, <2>9, <2>11
    <3>. QED  BY <2>2, <2>4, <2>11, <3>1
  <2>12. CASE /\ KeyFlags(key, dir, buffer) = {}
              /\ ~ (HasKey(key, dir, buffer) /\ EarlyFits(key, dir, buffer))
    <3>1. Made(b)[key] = <<>>
      BY <2>5, <2>7, <2>9, <2>12
    <3>. QED  BY <2>2, <2>12, <3>1, NothingInOrder
  <2>. QED  BY <2>10, <2>11, <2>12
<1>. QED  BY <1>1, Inductive, PTL

=============================================================================
