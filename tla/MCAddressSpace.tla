---------------------------- MODULE MCAddressSpace ----------------------------
(***************************************************************************)
(* Two directories, their tables and two pages fit in the frames, and so   *)
(* does the reuse of a frame that was freed; two indexes give each space   *)
(* four addresses in two tables.                                           *)
(***************************************************************************)
EXTENDS AddressSpace, TLC

Symmetry == Permutations(Frame) \union Permutations(Index)
===============================================================================
