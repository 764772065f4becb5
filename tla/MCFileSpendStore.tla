-------------------------- MODULE MCFileSpendStore --------------------------
(* A small instance of FileSpendStore: three processes update one file.      *)
EXTENDS FileSpendStore, TLC

MCSymmetry == Permutations(Calls)
=============================================================================
