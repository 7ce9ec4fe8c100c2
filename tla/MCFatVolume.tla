----------------------------- MODULE MCFatVolume -----------------------------
(***************************************************************************)
(* Small volumes: seven clusters of two bytes or three entries.             *)
(***************************************************************************)
EXTENDS FatVolume

\* The bytes of a FAT whose entries are v[0], v[1], ...
Packed(v) ==
  LET value(c) == IF c \in DOMAIN v THEN v[c] ELSE 0
  IN  [i \in 0 .. FatBytes - 1 |->
         LET c == 2 * (i \div 3) IN
         CASE i % 3 = 0 -> value(c) % 256
           [] i % 3 = 1 -> value(c) \div 256 + 16 * (value(c + 1) % 16)
           [] OTHER     -> value(c + 1) \div 16]

End   == 4095
Media == 4080
E(n, c, s) == [name |-> n, archive |-> TRUE, start |-> c, size |-> s]

\* A file of two clusters that are apart, and two free clusters.
Two ==
  [fat |-> Packed([c \in 0 .. 6 |-> CASE c = 0 -> Media [] c = 4 -> 6 [] c \in {3, 5} -> 0
                                       [] OTHER -> End]),
   dir |-> [i \in 1 .. Slots |-> IF i = 1 THEN E("ab", 4, 3) ELSE NoEntry]]

\* A full directory and a full volume: one file of two clusters, two of one.
Full ==
  [fat |-> Packed([c \in 0 .. 6 |-> CASE c = 0 -> Media [] c = 3 -> 4 [] OTHER -> End]),
   dir |-> [i \in 1 .. Slots |-> CASE i = 1 -> E("a", 3, 4) [] i = 2 -> E("ab", 5, 1)
                                    [] OTHER -> E("ab", 6, 2)]]

\* What is left of other data: it has a cluster of data for its directory.
Elsewhere == {[entry |-> E("a", 4, 3), dir |-> 3, index |-> 2]}
Nothing   == {}

SmallVolumes == {Two, Full}
OpenModes    == {{"write"}, {"read"}, {"read", "write"}, AppendMode \union {"write"}}
BeginsWith   == {<<"a", "ab">>}
==============================================================================
