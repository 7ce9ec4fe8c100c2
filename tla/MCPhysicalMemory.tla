--------------------------- MODULE MCPhysicalMemory ---------------------------
(***************************************************************************)
(* A small machine: pages of two units, four pages to the megabyte, four   *)
(* bits to the byte.  The VGA page is page 1, the kernel image begins at   *)
(* one megabyte (page 4) and ends in the middle of that page; the bitmap   *)
(* behind it takes the rest of it and part of page 5.  The DMA limit is at *)
(* page 8.                                                                 *)
(***************************************************************************)
EXTENDS PhysicalMemory, TLC

Usable(b, l)   == [base |-> b, length |-> l, available |-> TRUE]
Unusable(b, l) == [base |-> b, length |-> l, available |-> FALSE]

NoMap(mb)        == [mem |-> TRUE, mmap |-> FALSE, upperMB |-> mb,
                     regions |-> {}]
Map(mb, regions) == [mem |-> TRUE, mmap |-> TRUE, upperMB |-> mb,
                     regions |-> regions]

\* A memory map with holes: pages 0, 1, 4 and 7 to 9 are usable, and the map
\* goes on past the reported size of memory, up to the end of the address space.
Holes == Map(2, {Usable(0, 4), Unusable(4, 4), Usable(8, 2), Unusable(10, 4),
                 Usable(14, 6), Usable(24, 4), Usable(28, 4)})
\* No memory map, and all of memory below the DMA limit.
Small == NoMap(1)
\* The boot loader reports no memory size: physical_init fails.
NoSize == [NoMap(0) EXCEPT !.mem = FALSE]
\* The size of memory is 4 GB: physical_maxAddress wraps to zero.
Huge == NoMap(3)

AllBoots   == {Holes, Small, NoSize, Huge}
HoleBoots  == {Holes}
===============================================================================
