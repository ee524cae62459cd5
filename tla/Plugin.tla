-------------------------------- MODULE Plugin --------------------------------
(***************************************************************************)
(* What the programs rely on in a plugin of libpressio: a compressor, a    *)
(* metrics or an IO plugin.                                                *)
(*                                                                         *)
(* The options of a plugin are a function from the keys it has to values   *)
(* [type, values].  One of its keys may select a module that the plugin    *)
(* then contains and whose keys become its own.  A plugin takes a value    *)
(* of the type of the option: src/pressio/options.cc converts each value   *)
(* to that type before it sets it.                                         *)
(***************************************************************************)
EXTENDS Naturals, FiniteSets

CONSTANTS
  OwnDefaults,    \* the options of a new plugin, without a contained module
  Selector,       \* the key that selects the contained module
  Modules,        \* the names of modules
  ChildDefaults,  \* the options of a new contained module
  Numbers,        \* the texts that are numbers
  Refused         \* the pairs <<key, values>> that the plugin finds out of range

ASSUME SelectorAssumption == Selector \in DOMAIN OwnDefaults
ASSUME DefaultsAssumption == DOMAIN OwnDefaults \cap DOMAIN ChildDefaults = {}

\* Options are records, a new plugin has no module, and the defaults are in range.
ASSUME OptionsAssumption ==
  /\ \A k \in DOMAIN OwnDefaults : DOMAIN OwnDefaults[k] = {"type", "values"}
  /\ \A k \in DOMAIN ChildDefaults : DOMAIN ChildDefaults[k] = {"type", "values"}
ASSUME ModulesAssumption == OwnDefaults[Selector].values[1] \notin Modules
ASSUME AcceptedAssumption ==
  /\ \A k \in DOMAIN OwnDefaults : <<k, OwnDefaults[k].values>> \notin Refused
  /\ \A k \in DOMAIN ChildDefaults : <<k, ChildDefaults[k].values>> \notin Refused

Merge(f, g) == [k \in DOMAIN f \cup DOMAIN g |-> IF k \in DOMAIN g THEN g[k] ELSE f[k]]

Only(f, keys) == [k \in DOMAIN f \cap keys |-> f[k]]

TypeOf(k) == IF k \in DOMAIN OwnDefaults THEN OwnDefaults[k].type ELSE ChildDefaults[k].type

\* The options among o that the plugin can take.
Fitting(p, o) == Only(o, {k \in DOMAIN p \cap DOMAIN o : o[k].type = p[k].type})

\* Selecting another module replaces the one before, with the settings it had.
Select(p, value) ==
  IF p[Selector] = value THEN p
  ELSE LET own == [Only(p, DOMAIN OwnDefaults) EXCEPT ![Selector] = value]
       IN  IF value.values[1] \in Modules THEN Merge(own, ChildDefaults) ELSE own

\* set_options: the module is selected first, keys the plugin does not have are ignored.
SetOptions(p, o) ==
  LET selected == IF Selector \in DOMAIN Fitting(p, o) THEN Select(p, o[Selector]) ELSE p
  IN  Merge(selected, Fitting(selected, o))

\* check_options and set_options report an error.
Refuses(p, o) == \E k \in DOMAIN Fitting(p, o) : <<k, o[k].values>> \in Refused

\* pressio_conversion_special, as far as texts are concerned.
Converts(option, type) ==
  CASE type = "string" -> option.type = "string"
    [] type = "number" -> option.type = "string" /\ option.values[1] \in Numbers
    [] type = "list"   -> TRUE

\* The status of cast_set on options that were read from a plugin.
CastStatus(options, k, option) ==
  IF k \notin DOMAIN options THEN "does_not_exist"
  ELSE IF Converts(option, options[k].type) THEN "set" ELSE "exists"

CastSet(options, k, option) ==
  IF CastStatus(options, k, option) = "set"
  THEN [options EXCEPT ![k].values = option.values] ELSE options

=============================================================================
