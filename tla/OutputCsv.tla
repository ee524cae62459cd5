------------------------------ MODULE OutputCsv ------------------------------
(***************************************************************************)
(* The CSV writer shared by pressio_batch and pressio_batch_mpi            *)
(* (src/pressio_batch/io.cc).                                              *)
(*                                                                         *)
(* A pressio_options map is a function from the keys it holds to records   *)
(* [type, value].  A row that was written is a record with the name of     *)
(* the configuration, the cells printed after it and the positions after   *)
(* which a line break was printed instead of a comma.                      *)
(***************************************************************************)
EXTENDS Naturals, Sequences, FiniteSets

\* The keys of a std::map, in its order.
InKeyOrder(keys) ==
  [i \in 1..Cardinality(keys) |->
     CHOOSE k \in keys : Cardinality({l \in keys : l < k}) = i - 1]

\* The option types print_value knows how to print.
PrintedTypes == {"charptr", "float", "double", "int32", "uint32"}

\* What print_value leaves between two commas for any other type.
Blank == <<>>

PrintValue(option) ==
  IF option.type \in PrintedTypes THEN option.value ELSE Blank

(***************************************************************************)
(* The positions of fields that output_csv reaches: options->get(field)    *)
(* throws at the first field that the map does not hold, after the cells   *)
(* before it went to the stream.                                           *)
(***************************************************************************)
Reached(options, fields) ==
  {i \in DOMAIN fields : \A j \in 1..i : fields[j] \in DOMAIN options}

Throws(options, fields) == Reached(options, fields) # DOMAIN fields

\* A field equal to the last one is followed by a line break, others by a comma.
EndsLine(fields, i) == fields[i] = fields[Len(fields)]

CsvRow(name, options, fields) ==
  [name   |-> name,
   cells  |-> [i \in Reached(options, fields) |-> PrintValue(options[fields[i]])],
   breaks |-> {i \in Reached(options, fields) : EndsLine(fields, i)}]

\* The row was written to its end: output_csv returned.
Complete(row, fields) == DOMAIN row.cells = DOMAIN fields

=============================================================================
