----------------------------- MODULE MCPageTables -----------------------------
(***************************************************************************)
(* Tables of four entries.  Two regions that begin at a table's first      *)
(* page, as the heap at 0xD0000000 does: one is longer than a table, and   *)
(* the base of the other is rounded up to it.                              *)
(***************************************************************************)
EXTENDS PageTables, TLC

AlignedSize == (0 :> 5) @@ (15 :> 2)
TwoOrigins  == {0, 15}

Symmetry == Permutations(Frame) \union Permutations(Page)
===============================================================================
