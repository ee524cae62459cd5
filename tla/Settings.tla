------------------------------ MODULE Settings ------------------------------
(***************************************************************************)
(* How the options a user writes reach a plugin.  Five clients do it, each *)
(* in an order of its own:                                                 *)
(*                                                                         *)
(*   compressor  an entry of compressors.json                              *)
(*                 (src/pressio_batch/compressor_configs.cc)               *)
(*   metrics     metrics.json (src/pressio_batch/metrics.cc)               *)
(*   dataset     an entry of datasets.json (src/pressio_batch/datasets.cc) *)
(*   pressio     the flags -b and -o (src/pressio/pressio.cc, options.cc)  *)
(*   io          the files of pressio: io_builder (src/pressio/cmdline.cc) *)
(*                                                                         *)
(* The early options of a user select modules, the others may set keys     *)
(* that only the selected modules have.                                    *)
(***************************************************************************)
EXTENDS OptionsMultimap, Plugin, FiniteSetsExt

CONSTANT
  Configs  \* what a user may write, see below

(***************************************************************************)
(* A configuration: its client, the early options and the options, each a  *)
(* sequence of [key, list, texts], and its state: "complete", "incomplete" *)
(* (JSON that lacks a required node) or "unknown" (no such plugin).        *)
(***************************************************************************)
Entries == [key : Keys, list : BOOLEAN, texts : Seq(Texts) \ {<<>>}]
Clients == {"compressor", "metrics", "dataset", "pressio", "io"}

ASSUME ConfigsAssumption ==
  \A c \in Configs :
    /\ c.client \in Clients
    /\ c.early \in Seq(Entries) /\ c.options \in Seq(Entries)
    /\ c.state \in {"complete", "incomplete", "unknown"}

\* The key "io:path".
PathKey == 4

ASSUME PathAssumption == Selector # PathKey

\* A JSON array has the empty text.
ASSUME TextsAssumption == "" \in Texts

VARIABLES
  config,   \* what the user wrote
  todo,     \* the steps the client has left
  plugin,   \* the options of the plugin
  options,  \* the local copy of the options, which are set at the end
  at,       \* how many options the loop over them has assigned
  outcome   \* "running", "loaded", or how the client failed

clientVars == <<config, todo, plugin, options, at, outcome>>
vars == <<convertVars, clientVars>>

-----------------------------------------------------------------------------
(***************************************************************************)
(* The clients.                                                            *)
(***************************************************************************)

\* compressor_config_impl::load
CompressorLoad == <<"set_back", "snapshot", "convert_options", "assign", "check", "write">>

\* metrics_config_impl::load
MetricsLoad == <<"snapshot", "convert_early", "set_early", "convert_options", "assign", "write">>

\* Mutant: the options are read before the early options are set.
Mut_DatasetLoad == <<"snapshot", "set_early", "assign", "write">>

\* An entry of load_datasets
DatasetLoad == <<"set_early", "snapshot", "assign", "write">>

\* Mutant: the options are read before the early options are set.
Mut_PressioSetup ==
  <<"snapshot", "convert_early", "check_early", "set_early", "convert_options", "assign", "write">>

\* set_early_options and set_options_from_multimap
PressioSetup ==
  <<"convert_early", "check_early", "set_early", "snapshot", "convert_options", "assign", "write">>

\* make_io
MakeIo == <<"set_path", "convert_early", "set_early", "snapshot", "convert_options", "assign", "write">>

Steps(client) ==
  CASE client = "compressor" -> CompressorLoad
    [] client = "metrics"    -> MetricsLoad
    [] client = "dataset"    -> DatasetLoad
    [] client = "pressio"    -> PressioSetup
    [] client = "io"         -> MakeIo

Client == config.client

\* How a client ends that looks at an error: an exception, or exit.
Failure == IF Client \in {"pressio", "io"} THEN "exited" ELSE "threw"

\* The clients that look at the answer of set_options.
ChecksSet == Client \in {"compressor", "pressio"}

Init ==
  /\ config \in Configs
  /\ todo = Steps(config.client)
  /\ plugin = OwnDefaults
  /\ options = <<>>
  /\ at = 0
  /\ outcome = "running"
  /\ NotCalled

\* The next step of the client is reached, and no conversion is running.
At(step) ==
  /\ outcome = "running"
  /\ config.state = "complete"
  /\ done
  /\ todo # <<>>
  /\ Head(todo) = step

Proceed ==
  /\ todo' = Tail(todo)
  /\ outcome' = IF Len(todo) = 1 THEN "loaded" ELSE outcome
  /\ UNCHANGED config

Fail(how) ==
  /\ outcome' = how
  /\ UNCHANGED <<config, todo, plugin, options, at>>

\* A required node is missing, or get_compressor and its like know no such plugin:
\* two of the clients go on with the null pointer.
NoPlugin ==
  /\ outcome = "running"
  /\ config.state # "complete"
  /\ Fail(CASE config.state = "incomplete" -> "threw"
            [] config.state = "unknown" ->
                 IF Client \in {"compressor", "metrics"} THEN "crashed" ELSE Failure)
  /\ UNCHANGED convertVars

-----------------------------------------------------------------------------
(***************************************************************************)
(* What was written, as the clients read it.                               *)
(***************************************************************************)

\* get_value<std::string>, which is empty for a JSON array, of which pressio has none.
TextOf(entry) == IF entry.list THEN "" ELSE entry.texts[1]

\* Mutant: a later value of a key goes before the earlier ones.
Mut_Goes(entries, e, f) ==
  entries[e].key < entries[f].key \/ (entries[e].key = entries[f].key /\ e > f)

\* In a std::multimap entry e goes before entry f: for one key in the order of emplace.
Goes(entries, e, f) ==
  entries[e].key < entries[f].key \/ (entries[e].key = entries[f].key /\ e < f)

Multimap(entries) ==
  LET Place(f) == Cardinality({e \in DOMAIN entries : Goes(entries, e, f)}) + 1
      Entry(n) == CHOOSE e \in DOMAIN entries : Place(e) = n
  IN  [n \in DOMAIN entries |->
        [key |-> entries[Entry(n)].key, value |-> TextOf(entries[Entry(n)])]]

\* The dataset loader keeps arrays, and sets entry by entry.
RawOption(entry) ==
  [type |-> IF entry.list THEN "list" ELSE "string", values |-> entry.texts]

Raw(entries) == [k \in KeysOf(entries) |-> RawOption(entries[Max(EntriesOf(entries, k))])]

\* What the loop assigns, in its order: [key, option].
Assignments ==
  IF Client = "dataset"
  THEN [e \in DOMAIN config.options |->
          [key |-> config.options[e].key, option |-> RawOption(config.options[e])]]
  ELSE [n \in 1..Cardinality(DOMAIN opt) |->
          [key |-> Nth(DOMAIN opt, n), option |-> opt[Nth(DOMAIN opt, n)]]]

EarlyOptions == IF Client = "dataset" THEN Raw(config.early) ELSE opt

-----------------------------------------------------------------------------
(***************************************************************************)
(* The steps.                                                              *)
(***************************************************************************)
Convert(step, entries) ==
  /\ At(step)
  /\ Call(Multimap(entries))
  /\ Proceed
  /\ UNCHANGED <<plugin, options, at>>

\* options_from_multimap is running.
Converting == ConvertNext /\ UNCHANGED clientVars

\* Nobody fills early_config_options: the plugin's own options are set again.
SetBack ==
  /\ At("set_back")
  /\ plugin' = SetOptions(plugin, plugin)
  /\ Proceed
  /\ UNCHANGED <<convertVars, options, at>>

\* make_io sets a path first, and exits when there are two.
SetPath ==
  /\ At("set_path")
  /\ LET paths == EntriesOf(config.options, PathKey)
         path  == [k \in {PathKey} |-> Option(<<TextOf(config.options[Nth(paths, 1)])>>)]
     IN  IF Cardinality(paths) > 1
         THEN Fail("exited")
         ELSE /\ plugin' = IF paths = {} \/ Refuses(plugin, path)
                           THEN plugin ELSE SetOptions(plugin, path)
              /\ Proceed
              /\ UNCHANGED <<options, at>>
  /\ UNCHANGED convertVars

CheckEarly ==
  /\ At("check_early")
  /\ IF Refuses(plugin, opt) THEN Fail("exited")
     ELSE Proceed /\ UNCHANGED <<plugin, options, at>>
  /\ UNCHANGED convertVars

SetEarly ==
  /\ At("set_early")
  /\ IF Refuses(plugin, EarlyOptions)
     THEN IF ChecksSet THEN Fail(Failure)
                       ELSE Proceed /\ UNCHANGED <<plugin, options, at>>
     ELSE /\ plugin' = SetOptions(plugin, EarlyOptions)
          /\ Proceed
          /\ UNCHANGED <<options, at>>
  /\ UNCHANGED convertVars

\* get_options
Snapshot ==
  /\ At("snapshot")
  /\ options' = plugin
  /\ Proceed
  /\ UNCHANGED <<convertVars, plugin, at>>

\* Mutant: an option that cannot be set is skipped.
Mut_Assign ==
  /\ At("assign")
  /\ at < Len(Assignments)
  /\ LET a == Assignments[at + 1]
     IN  options' = CastSet(options, a.key, a.option)
  /\ at' = at + 1
  /\ UNCHANGED <<convertVars, config, todo, plugin, outcome>>

\* The loop of cast_set: only the dataset loader does not look at the status.
Assign ==
  /\ At("assign")
  /\ at < Len(Assignments)
  /\ LET a == Assignments[at + 1]
     IN  IF CastStatus(options, a.key, a.option) # "set" /\ Client # "dataset"
         THEN Fail(Failure)
         ELSE /\ options' = CastSet(options, a.key, a.option)
              /\ at' = at + 1
              /\ UNCHANGED <<config, todo, plugin, outcome>>
  /\ UNCHANGED convertVars

Assigned ==
  /\ At("assign")
  /\ at = Len(Assignments)
  /\ Proceed
  /\ UNCHANGED <<convertVars, plugin, options, at>>

\* check_options
Check ==
  /\ At("check")
  /\ IF Refuses(plugin, options) THEN Fail("threw")
     ELSE Proceed /\ UNCHANGED <<plugin, options, at>>
  /\ UNCHANGED convertVars

\* new_options of set_options_from_multimap holds only the keys the user gave.
Written == IF Client \in {"pressio", "io"} THEN Only(options, DOMAIN opt) ELSE options

Write ==
  /\ At("write")
  /\ IF Refuses(plugin, Written)
     THEN IF ChecksSet THEN Fail(Failure)
                       ELSE Proceed /\ UNCHANGED <<plugin, options, at>>
     ELSE /\ plugin' = SetOptions(plugin, Written)
          /\ Proceed
          /\ UNCHANGED <<options, at>>
  /\ UNCHANGED convertVars

ClientNext ==
  \/ NoPlugin
  \/ Convert("convert_early", config.early) \/ Convert("convert_options", config.options)
  \/ SetBack \/ SetPath \/ CheckEarly \/ SetEarly \/ Snapshot
  \/ Assign \/ Assigned \/ Check \/ Write

Next == Converting \/ ClientNext

Spec == Init /\ [][Next]_vars

-----------------------------------------------------------------------------
(***************************************************************************)
(* Properties.                                                             *)
(***************************************************************************)

\* The type invariant.
TypeOK ==
  /\ ConvertTypeOK
  /\ config.client \in Clients
  /\ Len(todo) <= 7
  /\ DOMAIN OwnDefaults \subseteq DOMAIN plugin
  /\ \A k \in DOMAIN plugin : plugin[k].type = TypeOf(k)
  /\ \A k \in DOMAIN options : options[k].type = TypeOf(k)
  /\ at \in 0..Len(config.options)
  /\ outcome \in {"running", "loaded", "threw", "exited", "crashed"}

(***************************************************************************)
(* What the user asked for, said without the steps.                        *)
(***************************************************************************)
GivenKeys == KeysOf(config.options)
EarlyKeys == KeysOf(config.early)

\* The value an entry list has for a key: for a dataset the last entry of the key,
\* for the others the texts of all of its entries.
ValueIn(entries, k) ==
  LET of == EntriesOf(entries, k)
  IN  IF Client = "dataset" THEN RawOption(entries[Max(of)])
      ELSE Option([n \in 1..Cardinality(of) |-> TextOf(entries[Nth(of, n)])])

\* The clients whose early options select a module before the options are read.
SelectsEarly == Client \in {"dataset", "pressio", "io"}

EarlyFits(k) ==
  /\ k \in DOMAIN OwnDefaults \cup DOMAIN ChildDefaults
  /\ ValueIn(config.early, k).type = TypeOf(k)

\* The keys an option may have when it is assigned.
Available ==
  DOMAIN OwnDefaults \cup
    IF SelectsEarly /\ Selector \in EarlyKeys /\ EarlyFits(Selector)
       /\ ValueIn(config.early, Selector).values[1] \in Modules
    THEN DOMAIN ChildDefaults ELSE {}

Settable(k) == k \in Available /\ Converts(ValueIn(config.options, k), TypeOf(k))

\* A dataset takes the entries of a key one after the other.
OutOfRange ==
  \/ \E k \in GivenKeys : <<k, ValueIn(config.options, k).values>> \in Refused
  \/ Client = "dataset" /\ \E e \in DOMAIN config.options :
                              <<config.options[e].key, config.options[e].texts>> \in Refused
  \/ \E k \in EarlyKeys : EarlyFits(k) /\ <<k, ValueIn(config.early, k).values>> \in Refused

Loaded == outcome = "loaded"

\* After a load the plugin has every option that was given, with all of its values:
\* none is lost on the way through multimap, local copy and conversion.  A key of a
\* module is gone when the options themselves select another module, and a dataset
\* keeps neither keys it does not know nor values that cannot be converted.
GivenOptionsHold ==
  Loaded /\ ~ OutOfRange =>
    \A k \in GivenKeys :
      IF k \in DOMAIN plugin
      THEN Settable(k) => plugin[k].values = ValueIn(config.options, k).values
      ELSE Client = "dataset" \/ Selector \in GivenKeys

\* An early option that the options do not repeat still holds after them, except
\* that metrics.cc writes back options it read before, which undoes it, and that
\* compressor_configs.cc never sets it.
EarlyOptionsHold ==
  Loaded /\ ~ OutOfRange =>
    \A k \in (EarlyKeys \cap DOMAIN OwnDefaults) \ GivenKeys :
      EarlyFits(k) =>
        plugin[k] = IF SelectsEarly THEN ValueIn(config.early, k) ELSE OwnDefaults[k]

\* As in test/pressio_opt.sh, which selects a compressor early and then sets an
\* option of it, setting options only fails when one of them has no key in the
\* plugin or the module selected early, no suitable value, or two paths.
FailsForAReason ==
  outcome \in {"threw", "exited"} /\ config.state = "complete" =>
    \/ \E k \in GivenKeys : ~ Settable(k)
    \/ OutOfRange
    \/ Client = "io" /\ Cardinality(EntriesOf(config.options, PathKey)) > 1

\* No mistake of the user goes unnoticed: an option that the plugin cannot have
\* makes the client fail, except for datasets.  A value out of range makes only
\* compressors fail: the other clients do not look at the answer of set_options.
MistakesAreReported ==
  Loaded =>
    /\ config.state = "complete"
    /\ Client # "dataset" => \A k \in GivenKeys : Settable(k)
    /\ ChecksSet => \A k \in GivenKeys : <<k, ValueIn(config.options, k).values>> \notin Refused

=============================================================================
