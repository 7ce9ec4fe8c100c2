------------------------------ MODULE PageTables ------------------------------
(***************************************************************************)
(* The page tables of a MimicOS process (kernel/mm/paging.c).              *)
(* paging_getPageTableEntry makes a table when it meets an address that    *)
(* has none, and clears the table's entries by calling                     *)
(* paging_setPageTableEntry, which calls paging_getPageTableEntry again:   *)
(* the calls in progress are a stack.                                      *)
(*                                                                         *)
(* The caller is mm_morecore (mm.c), which maps a region of the address    *)
(* space page by page, upwards, through paging_map (external: taken to set *)
(* one table entry).  A frame of physical memory may hold anything when it *)
(* is allocated.                                                           *)
(***************************************************************************)
EXTENDS Integers, Sequences

CONSTANTS ENTRIES,  \* PAGE_ENTRYS: entries of a directory or a table
          PAGE,     \* bytes of a page
          Frame,    \* frames that directories and tables are made in
          Page,     \* frames of data that are mapped
          NoFrame,  \* the address zero
          Origin,   \* first addresses of the regions of the process
          Size      \* Size[o] is how many pages the region at o may grow to

Limit == ENTRIES * ENTRIES * PAGE   \* 2^32
Last  == ENTRIES - 1
Index == 0 .. Last

ASSUME SizesAssumption ==
  /\ ENTRIES \in Nat \ {0} /\ PAGE \in Nat \ {0}
  /\ Origin \subseteq 0 .. Limit - 1 /\ Size \in [Origin -> Nat]
ASSUME FramesAssumption ==
  /\ Frame \intersect Page = {} /\ NoFrame \notin Frame \union Page

VARIABLES mem,     \* mem[f][i] is entry i of frame f
          dir,     \* p->page_dir
          made,    \* frames allocated, the directory apart
          calls,   \* calls of paging_setPageTableEntry, the outermost first
          pages,   \* pages[o] is how many pages the region at o has
          halted   \* physical_pageAlloc found no memory

vars == <<mem, dir, made, calls, pages, halted>>

DirIndex(a)   == (a \div PAGE) \div ENTRIES
TableIndex(a) == (a \div PAGE) % ENTRIES

\* Altered form of PAGE_ALIGN: the address is rounded down.
PageDown(a) == (a \div PAGE) * PAGE

\* PAGE_ALIGN, in 32 bits.
PageAlign(a) == (((a + PAGE - 1) % Limit) \div PAGE) * PAGE

Entry == [present : BOOLEAN, frame : Frame \union Page \union {NoFrame}]

\* What a call writes.
EntryOf(c) == [present |-> c.present, frame |-> c.frame]

Junk(f) == [i \in Index |-> [present |-> TRUE, frame |-> f]]

\* paging_createDirectory: the last entry is the directory itself.
NewDirectory(d) ==
  [i \in Index |-> IF i = Last THEN [present |-> TRUE, frame |-> d]
                   ELSE [present |-> FALSE, frame |-> NoFrame]]

\* A call before it has looked for its table (NotYet), or in the loop that
\* clears the table it made, at entry loop.
NotYet == -1
CallOf(a, f, present) ==
  [addr |-> PageAlign(a), frame |-> f, present |-> present,
   loop |-> NotYet, table |-> NoFrame]

Top       == calls[Len(calls)]
SetTop(c) == [calls EXCEPT ![Len(calls)] = c]
Pop       == SubSeq(calls, 1, Len(calls) - 1)
TableOf(c) == mem[dir][DirIndex(c.addr)].frame

Init ==
  /\ mem \in {[f \in Frame |-> Junk(f)], [f \in Frame |-> NewDirectory(f)]}
  /\ dir = NoFrame /\ made = {}
  /\ calls = <<>>
  /\ pages = [o \in Origin |-> 0]
  /\ halted = FALSE

Unused == Frame \ (made \union {dir})

CreateDirectory(d) ==
  /\ dir = NoFrame
  /\ d \in Unused
  /\ dir' = d
  /\ mem' = [mem EXCEPT ![d] = NewDirectory(d)]
  /\ UNCHANGED <<made, calls, pages, halted>>

\* physical_pageAlloc also serves the rest of the kernel.
OtherAllocates(f) ==
  /\ f \in Unused
  /\ made' = made \union {f}
  /\ UNCHANGED <<mem, dir, calls, pages, halted>>

\* One turn of the loop of mm_morecore.
Grow(o, p) ==
  /\ dir # NoFrame /\ calls = <<>>
  /\ pages[o] < Size[o]
  /\ calls' = <<CallOf(o + pages[o] * PAGE, p, TRUE)>>
  /\ pages' = [pages EXCEPT ![o] = @ + 1]
  /\ UNCHANGED <<mem, dir, made, halted>>

\* paging_getPageTableEntry, when the directory has no table for the address.
MakeTable(t) ==
  /\ calls # <<>> /\ Top.loop = NotYet
  /\ TableOf(Top) = NoFrame
  /\ t \in Unused
  /\ made' = made \union {t}
  /\ mem' = [mem EXCEPT ![dir] =
               [@ EXCEPT ![DirIndex(Top.addr)] = [present |-> TRUE, frame |-> t]]]
  /\ calls' = SetTop([Top EXCEPT !.loop = 0, !.table = t])
  /\ UNCHANGED <<dir, pages, halted>>

NoMemory ==
  /\ Unused = {}
  /\ \/ dir = NoFrame
     \/ calls # <<>> /\ Top.loop = NotYet /\ TableOf(Top) = NoFrame
  /\ halted' = TRUE
  /\ UNCHANGED <<mem, dir, made, calls, pages>>

\* The entry that turn loop of a call's loop is about, and the call for it.
LoopCall(c) == CallOf((c.addr + c.loop * PAGE) % Limit, NoFrame, FALSE)

\* Altered forms: the loop ends one entry early, or one entry late.
LoopShort(c) == c.loop \in 0 .. ENTRIES - 2
LoopLong(c)  == c.loop \in 0 .. ENTRIES

InLoop(c) == c.loop \in 0 .. ENTRIES - 1

ClearEntry ==
  /\ calls # <<>> /\ InLoop(Top)
  /\ calls' = Append(SetTop([Top EXCEPT !.loop = @ + 1]), LoopCall(Top))
  /\ UNCHANGED <<mem, dir, made, pages, halted>>

\* Altered form: the entry that is written is the one after.
WriteNextEntry ==
  /\ calls # <<>> /\ ~ InLoop(Top)
  /\ Top.loop = NotYet => TableOf(Top) # NoFrame
  /\ LET t == IF Top.loop = NotYet THEN TableOf(Top) ELSE Top.table IN
       mem' = [mem EXCEPT ![t] =
                 [@ EXCEPT ![(TableIndex(Top.addr) + 1) % ENTRIES] = EntryOf(Top)]]
  /\ calls' = Pop
  /\ UNCHANGED <<dir, made, pages, halted>>

\* The end of paging_setPageTableEntry, in the table that
\* paging_getPageTableEntry found or made.
WriteEntry ==
  /\ calls # <<>> /\ ~ InLoop(Top)
  /\ Top.loop = NotYet => TableOf(Top) # NoFrame
  /\ LET t == IF Top.loop = NotYet THEN TableOf(Top) ELSE Top.table IN
       mem' = [mem EXCEPT ![t] =
                 [@ EXCEPT ![TableIndex(Top.addr)] = EntryOf(Top)]]
  /\ calls' = Pop
  /\ UNCHANGED <<dir, made, pages, halted>>

\* The process has all its pages, or the kernel has panicked.
Done ==
  /\ \/ halted
     \/ calls = <<>> /\ pages = Size
  /\ UNCHANGED vars

Next ==
  \/ /\ ~ halted
     /\ \/ \E f \in Frame : CreateDirectory(f) \/ MakeTable(f) \/ OtherAllocates(f)
        \/ \E o \in Origin, p \in Page : Grow(o, p)
        \/ NoMemory \/ ClearEntry \/ WriteEntry
  \/ Done

Spec == Init /\ [][Next]_vars
-------------------------------------------------------------------------------
(***************************************************************************)
(* Properties.                                                             *)
(***************************************************************************)

\* Type invariant of the tables, of the stack of calls and of the regions.
TypeOK ==
  /\ mem \in [Frame -> [Index -> Entry]]
  /\ dir \in Frame \union {NoFrame} /\ made \subseteq Frame
  /\ \A k \in 1 .. Len(calls) :
       calls[k] \in [addr : 0 .. Limit - 1, frame : Page \union {NoFrame},
                     present : BOOLEAN, loop : -1 .. ENTRIES,
                     table : Frame \union {NoFrame}]
  /\ \A o \in Origin : pages[o] \in 0 .. Size[o]
  /\ halted \in BOOLEAN

\* The comment in the loop of paging_getPageTableEntry: the calls it makes do
\* not make a table in their turn.
ArrivesOnce ==
  \A k, l \in 1 .. Len(calls) :
    calls[k].loop # NotYet /\ calls[l].loop # NotYet => k = l

\* What the processor translates a page address to, outside the addresses of
\* the tables themselves and of a table that is being made.
UserAddress  == {i * PAGE : i \in 0 .. Last * ENTRIES - 1}
BeingMade(a) == \E k \in 1 .. Len(calls) :
                  calls[k].loop # NotYet /\ DirIndex(calls[k].addr) = DirIndex(a)
Translate(a) ==
  IF dir = NoFrame THEN NoFrame
  ELSE LET e == mem[dir][DirIndex(a)] IN
         IF BeingMade(a) \/ ~ e.present \/ ~ mem[e.frame][TableIndex(a)].present
         THEN NoFrame ELSE mem[e.frame][TableIndex(a)].frame

\* The tables are a map: one call changes one translation, and neither a table
\* made on the way nor what its frame held changes another.
AddressSpace == INSTANCE Translation WITH
  Space <- {"process"}, Address <- UserAddress, Unmapped <- NoFrame,
  live  <- IF dir = NoFrame THEN {} ELSE {"process"},
  map   <- [s \in {"process"} |-> [a \in UserAddress |-> Translate(a)]]
ImplementsTranslation == AddressSpace!Spec

\* A call of paging_setPageTableEntry that mm_morecore makes ends by mapping
\* the page of that call at the address of that call, whatever calls were made
\* inside it and whichever table they found or made.
MapsItsPage ==
  [][calls # <<>> /\ calls' = <<>> =>
       AddressSpace!Map("process", calls[1].addr, calls[1].frame)]_vars

\* Between two calls, the pages that are mapped are those the regions have got:
\* each one begins at the address mm_morecore counted up to, or at the first
\* page after it (PAGE_ALIGN), and no other address is mapped.
RegionsMapped ==
  calls = <<>> =>
    \A a \in UserAddress :
      Translate(a) # NoFrame <=>
        \E o \in Origin : \E k \in 0 .. pages[o] - 1 :
          o + k * PAGE <= a /\ a < o + k * PAGE + PAGE
===============================================================================
