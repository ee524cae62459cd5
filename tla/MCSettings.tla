----------------------------- MODULE MCSettings -----------------------------
(***************************************************************************)
(* Instances of Settings for TLC.  The keys of a plugin: 1 selects its     *)
(* module, 2 is a list, 3 a number of the module "m", 4 the path, and 5 is *)
(* a key that nothing has.                                                 *)
(***************************************************************************)
EXTENDS Settings, TLC

MCKeys == 1..5
MCTexts == {"", "1", "2", "m"}

MCOwnDefaults ==
  (1 :> Option(<<"none">>)) @@ (2 :> [type |-> "list", values |-> <<>>]) @@ (4 :> Option(<<"none">>))
MCChildDefaults == 3 :> [type |-> "number", values |-> <<"0">>]

\* The number 2 is out of range, and no module has that name.
MCRefused == {<<3, <<"2">>>>, <<1, <<"2">>>>}

UpTo(n, S) == UNION {[1..m -> S] : m \in 0..n}

Value(k, text) == [key |-> k, list |-> FALSE, texts |-> <<text>>]
Array(k) == [key |-> k, list |-> TRUE, texts |-> <<"1", "m">>]

\* All entries in pairs, and up to four entries of a list and of a number.
Values == {Value(k, text) : k \in MCKeys, text \in {"1", "2", "m"}}
Arrays == {Array(k) : k \in MCKeys}
Repeated == UpTo(4, {Value(k, text) : k \in {2, 3}, text \in {"1", "m"}})

\* A value out of range, a list that cannot be converted for its key, another key.
Spoiled == {<<Value(3, "2"), Array(3), Value(2, "1")>>}

EarlyValues == {<<>>, <<Value(1, "m")>>, <<Value(1, "2")>>, <<Value(3, "1")>>, <<Value(5, "1")>>,
                <<Value(4, "1"), Value(1, "m")>>, <<Value(2, "m"), Value(2, "1")>>}
EarlyArrays == {<<Array(2)>>, <<Value(1, "m"), Array(1)>>}

Config(who, before, given) ==
  [client |-> who, early |-> before, options |-> given, state |-> "complete"]

MCConfigs ==
  {Config(who, before, given) :
     who \in Clients, before \in EarlyValues, given \in UpTo(2, Values) \cup Repeated}
  \cup
  {Config(who, before, given) :
     who \in {"compressor", "metrics", "dataset"}, before \in EarlyValues \cup EarlyArrays,
     given \in UpTo(2, Values \cup Arrays) \cup Spoiled}
  \cup
  [client : Clients, early : {<<>>}, options : {<<>>}, state : {"unknown"}]
  \cup
  [client : {"compressor", "metrics", "dataset"}, early : {<<>>}, options : {<<>>}, state : {"incomplete"}]

=============================================================================
