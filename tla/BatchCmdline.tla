----------------------------- MODULE BatchCmdline -----------------------------
(***************************************************************************)
(* The command line of the batch programs (src/pressio_batch/cmdline.cc).  *)
(* A command line is [flags, rest]: what getopt returns, in order, and the *)
(* arguments it leaves to the end.  A flag is [opt, arg, number]; number   *)
(* is <<n>> when the text of arg starts with the integer n, else <<>>.     *)
(***************************************************************************)
EXTENDS Integers, Sequences

CONSTANT MaxInt  \* the last int

ASSUME MaxIntAssumption == MaxInt \in Nat

\* The first int, the last unsigned int, and the conversion of an int to unsigned.
MinInt == -MaxInt - 1
MaxUnsigned == 2 * MaxInt + 1
Unsigned(n) == n % (MaxUnsigned + 1)

Defaults ==
  [fields |-> <<>>,
   datasets |-> "datasets.json", compressors |-> "compressors.json", metrics |-> "metrics.json",
   decompressed_dir |-> "", compressed_dir |-> "", replicats |-> 1, error_code |-> 0]

\* The flags that only store their argument.
Stores ==
  [d |-> "datasets", c |-> "compressors", m |-> "metrics",
   w |-> "compressed_dir", W |-> "decompressed_dir"]

\* Mutant: a second -r does not override the first.
Mut_TakeFlag(args, flag) ==
  CASE flag.opt \in DOMAIN Stores -> [args EXCEPT ![Stores[flag.opt]] = flag.arg]
    [] flag.opt = "r" /\ args.replicats = Defaults.replicats ->
         [args EXCEPT !.replicats = Unsigned(flag.number[1])]
    [] flag.opt = "h"             -> [args EXCEPT !.error_code = 1]
    [] OTHER                      -> args

\* The switch.  getopt's "?", for an unknown flag or one without its argument, is
\* skipped.
TakeFlag(args, flag) ==
  CASE flag.opt \in DOMAIN Stores -> [args EXCEPT ![Stores[flag.opt]] = flag.arg]
    [] flag.opt = "r"             -> [args EXCEPT !.replicats = Unsigned(flag.number[1])]
    [] flag.opt = "h"             -> [args EXCEPT !.error_code = 1]
    [] OTHER                      -> args

\* std::stoi throws on text that is no number, and on a number that is no int.
StoiThrows(flag) == flag.opt = "r" /\ flag.number \notin {<<n>> : n \in MinInt..MaxInt}

=============================================================================
