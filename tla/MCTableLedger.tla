---------------------------- MODULE MCTableLedger ----------------------------
(* TableLedger on small sets. *)
EXTENDS TableLedger, TLC

Symmetry == Permutations(Call) \union Permutations(Table)
=============================================================================
