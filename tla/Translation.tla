------------------------------ MODULE Translation ------------------------------
(***************************************************************************)
(* What a set of address spaces promises: each one maps some of its        *)
(* addresses to pages, a new one maps none, and mapping one address        *)
(* changes no other translation, of this space or of another.              *)
(***************************************************************************)

CONSTANTS Space, Address, Page,
          Unmapped  \* the translation of an address that is not mapped

VARIABLES live,  \* the address spaces that exist
          map    \* map[s][a] is the page at address a of space s

Empty == [a \in Address |-> Unmapped]

Init == live = {} /\ map = [s \in Space |-> Empty]

Create(s) ==
  /\ s \notin live
  /\ live' = live \union {s}
  /\ UNCHANGED map

Map(s, a, p) ==
  /\ s \in live
  /\ map' = [map EXCEPT ![s] = [@ EXCEPT ![a] = p]]
  /\ UNCHANGED live

Destroy(s) ==
  /\ live' = live \ {s}
  /\ map' = [map EXCEPT ![s] = Empty]

Next ==
  \E s \in Space :
    \/ Create(s)
    \/ \E a \in Address, p \in Page : Map(s, a, p)
    \/ Destroy(s)

Spec == Init /\ [][Next]_<<live, map>>
===============================================================================
