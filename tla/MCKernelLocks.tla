---------------------------- MODULE MCKernelLocks ----------------------------
(***************************************************************************)
(* Three contexts, one of two calls and two of one, with pages for some of *)
(* the calls.                                                              *)
(***************************************************************************)
EXTENDS KernelLocks

Two      == CHOOSE p \in Proc : TRUE
FewCalls == [p \in Proc |-> IF p = Two THEN 2 ELSE 1]
FewPages == [high |-> 2, low |-> 1]
==============================================================================
