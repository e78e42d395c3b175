--------------------------------- MODULE MCFile ---------------------------------
(* Small sets of writers for model checking FileWriter. *)
EXTENDS FileWriter, TLC

WriterSymmetry == Permutations(Writer)
===============================================================================
