------------------------------- MODULE Cmdline -------------------------------
(***************************************************************************)
(* parse_args and io_builder of pressio (src/pressio/cmdline.cc): the      *)
(* flags are taken one by one, then the IO plugins are made, inputs first, *)
(* and the inputs are read.                                                *)
(*                                                                         *)
(* A flag is a record [opt, arg].  An io_builder is its format and its two *)
(* multimaps of options, as functions from keys to sequences of values; a  *)
(* value is named by the position of its flag.  What its text is, and that *)
(* a plugin may refuse it, is the matter of Settings; types and dimensions *)
(* of the data only matter to the plugins.                                 *)
(***************************************************************************)
EXTENDS Naturals, Sequences, FiniteSets

CONSTANTS
  Flags,        \* the flags the user may give
  MaxFlags,     \* bound on their number
  None,         \* an empty optional
  Positionals,  \* the compressor arguments the user may give; None for none
  Accepts,      \* the keys each IO plugin has, a function from the formats there are
  Types,        \* of the options: a function from their keys
  Brings        \* the keys of the module that an option of that key selects

Keys == DOMAIN Types

ASSUME FlagsAssumption == Flags \subseteq [opt : STRING, arg : STRING] /\ MaxFlags \in Nat
ASSUME NoneAssumption ==
  None \notin {"by_extension", "posix", "hdf5"} /\ \A f \in Flags : f.arg # None

-----------------------------------------------------------------------------
(***************************************************************************)
(* The flags, by what their case of the switch does.                       *)
(***************************************************************************)
Directions == {"input", "compressed", "decompressed"}

FormatFlags  == [T |-> "input", f |-> "compressed", F |-> "decompressed"]
PathFlags    == [i |-> "input", w |-> "compressed", W |-> "decompressed"]
DatasetFlags == [I |-> "input", s |-> "compressed", S |-> "decompressed"]
OptionFlags  == [u |-> "input", y |-> "compressed", Y |-> "decompressed"]
EarlyFlags   == [G |-> "input", e |-> "compressed", E |-> "decompressed"]

\* Flags whose argument is taken apart (a dimension, or what parse_option splits for the
\* compressor or the metrics), which may throw.
PairFlags == {"b", "n", "o", "d"}

\* Flags that only fill a field that nothing here reads.
FieldFlags == {"C", "g", "j", "l", "m", "M", "N", "O", "Q", "r", "U", "z", "Z"}

\* Arguments that cannot be used: no "=", no number, no such action, type or library.
Unusable == "?"

ActionNames ==
  {"compress", "decompress", "versions", "settings", "help", "fullhelp", "graph", "save", "load"}

\* What getopt is told of; -k has a case in the switch but is not in the string.
Known ==
  DOMAIN FormatFlags \cup DOMAIN PathFlags \cup DOMAIN DatasetFlags \cup DOMAIN OptionFlags
  \cup DOMAIN EarlyFlags \cup PairFlags \cup FieldFlags \cup {"a", "p", "t", "D"}

\* The format a path implies, and the format that a dataset turns into hdf5.
PathFormat(dir) == IF dir = "input" THEN "by_extension" ELSE "posix"

\* An option that selects a module is given early; one given with the others would
\* replace the module and the options it has by then, which Settings models.
ASSUME OptionsAssumption ==
  /\ Types \in [Keys -> {"string", "number", "list"}]
  /\ {"io:path", "hdf5:dataset"} \subseteq Keys /\ Unusable \notin Keys
  /\ Brings \in [Keys -> SUBSET Keys] /\ \A io \in DOMAIN Accepts : Accepts[io] \subseteq Keys
  /\ \A f \in Flags :
       f.opt \in DOMAIN OptionFlags \cup DOMAIN EarlyFlags /\ f.arg # Unusable =>
         f.arg \in Keys /\ (f.opt \in DOMAIN OptionFlags => Brings[f.arg] = {})

-----------------------------------------------------------------------------
VARIABLES
  pc,          \* "flags", "inputs", "outputs", "returned", or how the process ended
  given,       \* the flags taken
  positional,  \* the argument after the flags
  actions,     \* opts.actions
  compressor,  \* opts.compressor
  builders,    \* the io_builders of each direction
  files,       \* the options of the IO plugins made for each direction
  inputs       \* Len(opts.input)

vars == <<pc, given, positional, actions, compressor, builders, files, inputs>>

NoOptions == [key \in Keys |-> <<>>]
NewBuilder == [format |-> None, options |-> NoOptions, early |-> NoOptions]

Init ==
  /\ pc = "flags"
  /\ given = <<>>
  /\ positional \in Positionals
  /\ actions = {}
  /\ compressor = "pressio"
  /\ builders = [dir \in Directions |-> <<NewBuilder>>]
  /\ files = [dir \in Directions |-> <<>>]
  /\ inputs = 0

Exit(how) ==
  /\ pc' = how
  /\ UNCHANGED <<positional, actions, compressor, builders, files, inputs>>

-----------------------------------------------------------------------------
(***************************************************************************)
(* One flag.                                                               *)
(***************************************************************************)
Take(f) ==
  /\ pc = "flags"
  /\ Len(given) < MaxFlags
  /\ given' = Append(given, f)

Back(dir) == builders[dir][Len(builders[dir])]

SetBack(dir, builder) ==
  /\ builders' = [builders EXCEPT ![dir][Len(builders[dir])] = builder]
  /\ UNCHANGED <<pc, positional, actions, compressor, files, inputs>>

\* Mutant: a format once set is never replaced.
Mut_SetFormatIf(builder, format, replaceable) ==
  IF builder.format = None THEN format ELSE builder.format

\* set_format_if: a format that is set stays, unless it is the replaceable one.
SetFormatIf(builder, format, replaceable) ==
  IF builder.format \in {None, replaceable} THEN format ELSE builder.format

\* emplace on a multimap: the value comes after those the key has.
Emplace(options, key) == [options EXCEPT ![key] = Append(@, Len(given) + 1)]

Format(f) ==
  /\ f.opt \in DOMAIN FormatFlags
  /\ Take(f)
  /\ LET dir == FormatFlags[f.opt]
     IN  SetBack(dir, [Back(dir) EXCEPT !.format = f.arg])

Path(f) ==
  /\ f.opt \in DOMAIN PathFlags
  /\ Take(f)
  /\ LET dir == PathFlags[f.opt]
     IN  SetBack(dir, [Back(dir) EXCEPT !.format  = SetFormatIf(Back(dir), PathFormat(dir), None),
                                        !.options = Emplace(@, "io:path")])

Dataset(f) ==
  /\ f.opt \in DOMAIN DatasetFlags
  /\ Take(f)
  /\ LET dir == DatasetFlags[f.opt]
     IN  SetBack(dir, [Back(dir) EXCEPT !.format  = SetFormatIf(Back(dir), "hdf5", PathFormat(dir)),
                                        !.options = Emplace(@, "hdf5:dataset")])

\* The argument of an option flag is the key; parse_option throws without a value.
IoOption(f) ==
  /\ f.opt \in DOMAIN OptionFlags
  /\ Take(f)
  /\ IF f.arg = Unusable
     THEN Exit("terminated")
     ELSE LET dir == OptionFlags[f.opt]
          IN  SetBack(dir, [Back(dir) EXCEPT !.options = Emplace(@, f.arg)])

EarlyOption(f) ==
  /\ f.opt \in DOMAIN EarlyFlags
  /\ Take(f)
  /\ IF f.arg = Unusable
     THEN Exit("terminated")
     ELSE LET dir == EarlyFlags[f.opt]
          IN  SetBack(dir, [Back(dir) EXCEPT !.early = Emplace(@, f.arg)])

PairOption(f) ==
  /\ f.opt \in PairFlags
  /\ Take(f)
  /\ Exit(IF f.arg = Unusable THEN "terminated" ELSE pc)

ActionFlag(f) ==
  /\ f.opt = "a"
  /\ Take(f)
  /\ IF f.arg \in ActionNames
     THEN /\ actions' = actions \cup {f.arg}
          /\ UNCHANGED <<pc, positional, compressor, builders, files, inputs>>
     ELSE Exit("failure")

\* Mutant: -p forgets the decompressed file.
Mut_NextBuffer(f) ==
  /\ f.opt = "p"
  /\ Take(f)
  /\ builders' = [dir \in Directions |->
                    IF dir = "decompressed" THEN builders[dir] ELSE Append(builders[dir], NewBuilder)]
  /\ UNCHANGED <<pc, positional, actions, compressor, files, inputs>>

NextBuffer(f) ==
  /\ f.opt = "p"
  /\ Take(f)
  /\ builders' = [dir \in Directions |-> Append(builders[dir], NewBuilder)]
  /\ UNCHANGED <<pc, positional, actions, compressor, files, inputs>>

\* -t and -D end the process when the type or the library is not there.
Field(f) ==
  /\ f.opt \in FieldFlags \cup {"t", "D"}
  /\ Take(f)
  /\ Exit(IF f.opt \in {"t", "D"} /\ f.arg = Unusable THEN "failure" ELSE pc)

\* getopt answers '?' for a flag it was not told of.
Unknown(f) ==
  /\ f.opt \notin Known
  /\ Take(f)
  /\ Exit("failure")

-----------------------------------------------------------------------------
(***************************************************************************)
(* After the flags.                                                        *)
(***************************************************************************)

\* argc == 1
NoArguments ==
  /\ pc = "flags"
  /\ given = <<>> /\ positional = None
  /\ Exit("success")
  /\ UNCHANGED given

TakesCompressor ==
  {"compress", "settings", "decompress", "help", "fullhelp", "save", "load"}

EndOfFlags ==
  /\ pc = "flags"
  /\ given # <<>> \/ positional # None
  /\ actions' = IF actions = {} THEN {"compress", "decompress", "settings"} ELSE actions
  /\ compressor' = IF positional # None /\ actions' \cap TakesCompressor # {}
                   THEN positional ELSE compressor
  /\ pc' = "inputs"
  /\ UNCHANGED <<given, positional, builders, files, inputs>>

PluginOf(builder) == IF builder.format = None THEN "noop" ELSE builder.format

\* set_options with what options_from_multimap makes of the early options: one value
\* is a string, more are a list, and the plugin takes no other type than its own.
SetsEarly(key, values) ==
  values # <<>> /\ Types[key] = IF Len(values) = 1 THEN "string" ELSE "list"

\* The keys of the plugin when the early options are set, which may select modules.
KeysOf(builder) ==
  LET own == Accepts[PluginOf(builder)]
  IN  own \cup UNION {Brings[key] : key \in {k \in own : SetsEarly(k, builder.early[k])}}

\* Mutant: set_options_from_multimap skips the keys the plugin does not have.
Mut_Makes(builder) ==
  /\ PluginOf(builder) \in DOMAIN Accepts
  /\ Len(builder.options["io:path"]) <= 1

(***************************************************************************)
(* make_io succeeds: the plugin exists and has no two paths, and           *)
(* set_options_from_multimap finds each key and can convert what was given *)
(* for it, which it cannot when a single value was given twice.            *)
(***************************************************************************)
Makes(builder) ==
  /\ PluginOf(builder) \in DOMAIN Accepts
  /\ Len(builder.options["io:path"]) <= 1
  /\ \A key \in Keys :
       builder.options[key] # <<>> =>
         /\ key \in KeysOf(builder)
         /\ Types[key] = "list" \/ Len(builder.options[key]) = 1

\* The options of a plugin after those of some keys are written over them.
Over(plugin, options, keys) ==
  [key \in Keys |-> IF key \in keys /\ options[key] # <<>> THEN options[key] ELSE plugin[key]]

\* Mutant: the early options are set after the others.
Mut_Made(builder) ==
  LET early == {key \in KeysOf(builder) : SetsEarly(key, builder.early[key])}
  IN  Over(Over(NoOptions, builder.options, KeysOf(builder)), builder.early, early)

\* The options make_io sets: the path, the early ones that the plugin has and whose
\* type fits, since the answer to them is ignored, and the others.
Made(builder) ==
  LET path  == Accepts[PluginOf(builder)] \cap {"io:path"}
      early == {key \in KeysOf(builder) : SetsEarly(key, builder.early[key])}
  IN  Over(Over(Over(NoOptions, builder.options, path), builder.early, early),
           builder.options, KeysOf(builder))

NextBuilder(dir) == builders[dir][Len(files[dir]) + 1]

\* Mutant: a file of the wrong direction.
Mut_MakeFile(dir) == files' = [files EXCEPT !["input"] = Append(@, Made(NextBuilder(dir)))]

MakeFile(dir) == files' = [files EXCEPT ![dir] = Append(@, Made(NextBuilder(dir)))]

NeedsInput == actions \cap {"compress", "decompress"} # {}

\* make_io and read() of the next input; read() may return a null pointer.
ReadInput ==
  /\ pc = "inputs"
  /\ Len(files["input"]) < Len(builders["input"])
  /\ IF Makes(NextBuilder("input"))
     THEN \/ /\ MakeFile("input")
             /\ inputs' = IF NeedsInput THEN inputs + 1 ELSE inputs
             /\ UNCHANGED pc
          \/ /\ MakeFile("input")
             /\ pc' = IF NeedsInput THEN "failure" ELSE pc
             /\ UNCHANGED inputs
     ELSE pc' = "failure" /\ UNCHANGED <<files, inputs>>
  /\ UNCHANGED <<given, positional, actions, compressor, builders>>

InputsRead ==
  /\ pc = "inputs"
  /\ Len(files["input"]) = Len(builders["input"])
  /\ pc' = "outputs"
  /\ UNCHANGED <<given, positional, actions, compressor, builders, files, inputs>>

\* The compressed files first, then the decompressed ones.
MakeOutput(dir) ==
  /\ pc = "outputs"
  /\ Len(files[dir]) < Len(builders[dir])
  /\ dir = "decompressed" => Len(files["compressed"]) = Len(builders["compressed"])
  /\ IF Makes(NextBuilder(dir))
     THEN MakeFile(dir) /\ UNCHANGED pc
     ELSE pc' = "failure" /\ UNCHANGED files
  /\ UNCHANGED <<given, positional, actions, compressor, builders, inputs>>

Return ==
  /\ pc = "outputs"
  /\ \A dir \in {"compressed", "decompressed"} : Len(files[dir]) = Len(builders[dir])
  /\ pc' = "returned"
  /\ UNCHANGED <<given, positional, actions, compressor, builders, files, inputs>>

TakeFlag(f) ==
  \/ Format(f) \/ Path(f) \/ Dataset(f) \/ IoOption(f) \/ EarlyOption(f)
  \/ PairOption(f) \/ ActionFlag(f) \/ NextBuffer(f) \/ Field(f) \/ Unknown(f)

Next ==
  \/ \E f \in Flags : TakeFlag(f)
  \/ NoArguments \/ EndOfFlags \/ ReadInput \/ InputsRead
  \/ (\E dir \in {"compressed", "decompressed"} : MakeOutput(dir)) \/ Return

Spec == Init /\ [][Next]_vars

-----------------------------------------------------------------------------
(***************************************************************************)
(* Properties.                                                             *)
(***************************************************************************)

Count(opt) == Cardinality({k \in DOMAIN given : given[k].opt = opt})

\* The type invariant.
TypeOK ==
  /\ pc \in {"flags", "inputs", "outputs", "returned", "failure", "success", "terminated"}
  /\ given \in Seq(Flags)
  /\ positional \in Positionals
  /\ actions \subseteq ActionNames
  /\ compressor \in Positionals \cup {"pressio"}
  /\ DOMAIN builders = Directions
  /\ \A dir \in Directions : Len(files[dir]) \in 0..Len(builders[dir])
  /\ inputs \in 0..Len(files["input"])

\* The pipeline walks the inputs and the files of both outputs with one index:
\* when parse_args returns there is one of each for every buffer, whatever the
\* flags and their order, and an input was read for each when one is needed.
BuffersAligned ==
  pc = "returned" =>
    /\ \A dir \in Directions : Len(files[dir]) = Count("p") + 1
    /\ NeedsInput => inputs = Count("p") + 1

\* The flags of a table that are about one direction of one buffer.
FlagsFor(table, dir, buffer) ==
  {k \in DOMAIN given :
     /\ Cardinality({l \in 1..k : given[l].opt = "p"}) + 1 = buffer
     /\ given[k].opt \in DOMAIN table
     /\ table[given[k].opt] = dir}

(***************************************************************************)
(* The format of a buffer, said without the flags in between: the last     *)
(* explicit format counts, except that a dataset given after it turns the  *)
(* format of plain paths into hdf5; without one a dataset means hdf5 and a *)
(* path the format of plain paths.                                         *)
(***************************************************************************)
FormatOf(dir, buffer) ==
  LET Formats  == FlagsFor(FormatFlags, dir, buffer)
      Datasets == FlagsFor(DatasetFlags, dir, buffer)
      Explicit == {k \in Formats : \A l \in Formats : l <= k}
  IN  CASE Explicit # {} ->
             LET k == CHOOSE l \in Explicit : TRUE
             IN  IF given[k].arg = PathFormat(dir) /\ \E l \in Datasets : l > k
                 THEN "hdf5" ELSE given[k].arg
        [] Explicit = {} /\ Datasets # {} -> "hdf5"
        [] Explicit = {} /\ Datasets = {} /\ FlagsFor(PathFlags, dir, buffer) # {} -> PathFormat(dir)
        [] OTHER -> None

\* The format of every buffer is the one FormatOf names, whatever the order of
\* the flags: set_format_if neither loses an explicit format nor misses a dataset.
FormatIsAsAsked ==
  \A dir \in Directions : \A buffer \in DOMAIN builders[dir] :
    builders[dir][buffer].format = FormatOf(dir, buffer)

\* The flags that give a key of a plugin, before or after its modules are there.
KeyFlags(key, dir, buffer) ==
  {k \in FlagsFor(OptionFlags, dir, buffer) : given[k].arg = key}
  \cup (IF key = "io:path" THEN FlagsFor(PathFlags, dir, buffer) ELSE {})
  \cup (IF key = "hdf5:dataset" THEN FlagsFor(DatasetFlags, dir, buffer) ELSE {})

EarlyKeyFlags(key, dir, buffer) ==
  {k \in FlagsFor(EarlyFlags, dir, buffer) : given[k].arg = key}

\* The type that options_from_multimap makes of the early values of a key fits.
EarlyFits(key, dir, buffer) ==
  LET Early == EarlyKeyFlags(key, dir, buffer)
  IN  Early # {} /\ Types[key] = IF \E k, l \in Early : k # l THEN "list" ELSE "string"

\* The plugin asked for has the key, or the module has that an early option selects.
HasKey(key, dir, buffer) ==
  LET own == Accepts[IF FormatOf(dir, buffer) = None THEN "noop" ELSE FormatOf(dir, buffer)]
  IN  key \in own \/ \E s \in own : EarlyFits(s, dir, buffer) /\ key \in Brings[s]

InOrder(values, positions) ==
  /\ {values[n] : n \in DOMAIN values} = positions
  /\ \A m, n \in DOMAIN values : m < n => values[m] < values[n]

\* When parse_args returns each plugin holds, for every key, exactly the values of the
\* flags about its direction of its buffer, all of them and in their order, wherever
\* they stand: those of -u, -y, -Y, paths and datasets always, even if early ones give
\* the key too, and else those of -G, -e, -E, which are dropped without a word where the
\* plugin lacks the key or its type is another.
OptionsReachPlugins ==
  pc = "returned" =>
    \A dir \in Directions : \A buffer \in DOMAIN builders[dir] : \A key \in Keys :
      InOrder(files[dir][buffer][key],
              CASE KeyFlags(key, dir, buffer) # {} -> KeyFlags(key, dir, buffer)
                [] /\ KeyFlags(key, dir, buffer) = {}
                   /\ HasKey(key, dir, buffer) /\ EarlyFits(key, dir, buffer) ->
                     EarlyKeyFlags(key, dir, buffer)
                [] OTHER -> {})

\* "-k <num> number of compressed data datasets to pass to compress": the flag is
\* taken, and does not end the program with the usage text.
KIsAFlag == pc = "failure" => given[Len(given)].opt # "k"

=============================================================================
