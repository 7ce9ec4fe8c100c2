------------------------------ MODULE Allocator ------------------------------
(***************************************************************************)
(* What an allocator promises, whatever it hands out: a block (a set of    *)
(* units) is granted to one client at a time, and no two granted blocks    *)
(* share a unit.  The page bitmap of physical.c and the kernel heap of     *)
(* mm.c both implement it: the first with one page per block, the second   *)
(* with one address range per block.                                       *)
(***************************************************************************)

CONSTANTS Client,  \* who may hold blocks
          Block    \* the blocks that exist, each one a non-empty set of units

VARIABLE granted   \* granted[c] is the set of blocks that c holds

Used == UNION UNION {granted[c] : c \in Client}

Init == granted = [c \in Client |-> {}]

\* The block is taken from what nobody holds.
Grant(c, b) ==
  /\ b \intersect Used = {}
  /\ granted' = [granted EXCEPT ![c] = @ \union {b}]

\* A client may give back any block it holds, and no other.
Release(c, b) ==
  granted' = [granted EXCEPT ![c] = @ \ {b}]

Next ==
  \E c \in Client :
    \/ \E b \in Block : Grant(c, b)
    \/ \E b \in granted[c] : Release(c, b)

Spec == Init /\ [][Next]_granted
==============================================================================
