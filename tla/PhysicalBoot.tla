----------------------------- MODULE PhysicalBoot -----------------------------
(***************************************************************************)
(* The page bitmap as physical_init (mm/physical.c) leaves it: which pages *)
(* are marked taken before the first allocation, as a function of what the *)
(* boot loader reported.                                                   *)
(*                                                                         *)
(* A page is named by its number.  Addresses are counted in units that     *)
(* divide a page, so that a memory map region or the end of the kernel     *)
(* image may fall inside a page.                                           *)
(***************************************************************************)
EXTENDS Integers

CONSTANTS PageUnits,    \* address units in a page (SIZE_4KB)
          ByteBits,     \* pages tracked by one byte of the bitmap (8)
          PagesPerMB,   \* pages in one megabyte (256)
          AddressPages, \* pages in the 32-bit address space (2^20)
          KernelStart,  \* page at which the kernel image begins, V2P(&start)
          KernelEnd,    \* first unit after the image, V2P(&end): the bitmap
          VgaPage       \* page of KERNEL_VGA_PADDRESS

ASSUME BootAssumption ==
  /\ {PageUnits, ByteBits, PagesPerMB, AddressPages} \subseteq Nat \ {0}
  /\ {KernelStart, KernelEnd, VgaPage} \subseteq Nat

NULL == 0

(***************************************************************************)
(* What physical_init reads of struct MULTIBOOT_INFO: the two flags, the   *)
(* whole megabytes of mem_upper, and the entries of the memory map.  The   *)
(* entries are a set: the loop over them only clears bits.  Its low halves *)
(* are read: addresses have 32 bits.                                       *)
(***************************************************************************)
Units    == AddressPages * PageUnits
Region   == [base : 0 .. Units - 1, length : 0 .. Units - 1, available : BOOLEAN]
BootInfo == [mem : BOOLEAN, mmap : BOOLEAN, upperMB : Nat,
             regions : SUBSET Region]

\* The pages that have a bit: physical_bitmapSize bytes of ByteBits bits.
BitmapBytes(b) == (PagesPerMB * (b.upperMB + 1)) \div ByteBits
BitmapPages(b) == 0 .. (ByteBits * BitmapBytes(b) - 1)

\* physical_maxAddress, as a page: computed in 32 bits, and left at zero when
\* physical_init fails for want of a memory size (mm_init goes on regardless).
MaxPage(b) ==
  IF b.mem THEN (PagesPerMB * (b.upperMB + 1)) % AddressPages ELSE NULL

\* The sanity check of physical_pageFree.
GoodPage(b, n) == n # NULL /\ n < MaxPage(b)

\* The pages the loop frees for one region: those of the addresses
\* base, base + 4KB, ... that are below base + length, which wraps to zero for
\* a region that ends with the address space.  (One that ends a few bytes
\* earlier would make the address wrap as well, and the loop go round.)
PagesOf(r) ==
  LET end == (r.base + r.length) % Units
  IN  {(r.base + k * PageUnits) \div PageUnits :
         k \in {i \in 0 .. end : r.base + i * PageUnits < end}}

\* Pages under the kernel image and the bitmap placed right after it.
\* Altered form: the bitmap is not reserved.
KernelPagesNoBitmap(b) ==
  {n \in KernelStart .. KernelEnd : n * PageUnits < KernelEnd}

KernelPages(b) ==
  {n \in KernelStart .. (KernelEnd + BitmapBytes(b)) :
     n * PageUnits < KernelEnd + BitmapBytes(b)}

MappedFree(b) ==
  {n \in UNION {PagesOf(r) : r \in {s \in b.regions : s.available}} :
     GoodPage(b, n)}

BootTaken(b) ==
  IF ~ b.mem THEN {}
  ELSE KernelPages(b) \union
         (IF b.mmap THEN BitmapPages(b) \ MappedFree(b) ELSE {VgaPage})
==============================================================================
