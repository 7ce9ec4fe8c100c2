----------------------------- MODULE AddressSpace -----------------------------
(***************************************************************************)
(* The two-level page table of mem_management/mm/mmu.c.  A directory, its  *)
(* tables and the pages that are mapped are all page frames obtained from  *)
(* allocate_page; a frame that was freed keeps its contents, and a frame   *)
(* of data may hold anything, bits that look like page entries included.   *)
(*                                                                         *)
(* An address is a pair of indexes: into the directory, into the table.    *)
(***************************************************************************)

CONSTANTS Frame,    \* page frames there are to allocate
          Index,    \* indexes into a directory or a table (0 .. 1023)
          NoFrame   \* the zero in the address field of a cleared entry

ASSUME FrameAssumption == NoFrame \notin Frame

VARIABLES mem,      \* mem[f][i] is entry i of frame f
          spaces,   \* frames in use as directories
          tables,   \* frames allocated as tables
          pages,    \* frames in use as pages of data
          failed    \* an assertion has stopped the program

vars == <<mem, spaces, tables, pages, failed>>

Address == Index \X Index
DirIndex(a)   == a[1]
TableIndex(a) == a[2]

Entry   == [present : BOOLEAN, frame : Frame \union {NoFrame}]

Cleared  == [present |-> FALSE, frame |-> NoFrame]

\* set_page_entry.
EntryOf(f) == [present |-> TRUE, frame |-> f]

Zeroed   == [i \in Index |-> Cleared]
Noise(f) == [i \in Index |-> [present |-> TRUE, frame |-> f]]

\* Altered form: memory comes from memalign as it is.
StaleFrame(f) == mem[f]

\* What is in the frame f when allocate_page returns it.
FreshFrame(f) == Zeroed

Unused == Frame \ (spaces \union tables \union pages)

\* What get_page_from_address_space finds, were its assertions left out.
TableOf(d, a)   == mem[d][DirIndex(a)].frame
HasTable(d, a)  == mem[d][DirIndex(a)].present
Translate(d, a) ==
  IF HasTable(d, a) /\ mem[TableOf(d, a)][TableIndex(a)].present
  THEN mem[TableOf(d, a)][TableIndex(a)].frame ELSE NoFrame

Init ==
  /\ mem \in [Frame -> {Zeroed} \union {Noise(f) : f \in Frame}]
  /\ spaces = {} /\ tables = {} /\ pages = {}
  /\ failed = FALSE

CreateSpace(d) ==
  /\ d \in Unused
  /\ mem' = [mem EXCEPT ![d] = FreshFrame(d)]
  /\ spaces' = spaces \union {d}
  /\ UNCHANGED <<tables, pages, failed>>

CreatePage(p) ==
  /\ p \in Unused
  /\ mem' = [mem EXCEPT ![p] = Noise(p)]
  /\ pages' = pages \union {p}
  /\ UNCHANGED <<spaces, tables, failed>>

(***************************************************************************)
(* insert_page_into_address_space.                                         *)
(***************************************************************************)
\* Altered form: a table is allocated for every insertion.
InsertAlwaysInNewTable(d, a, p, t) ==
  /\ t \in Unused
  /\ mem' = [mem EXCEPT ![t] = [FreshFrame(t) EXCEPT ![TableIndex(a)] = EntryOf(p)],
                        ![d] = [@ EXCEPT ![DirIndex(a)] = EntryOf(t)]]
  /\ tables' = tables \union {t}
  /\ UNCHANGED <<spaces, pages, failed>>

InsertInNewTable(d, a, p, t) ==
  /\ ~ HasTable(d, a)
  /\ t \in Unused
  /\ mem' = [mem EXCEPT ![t] = [FreshFrame(t) EXCEPT ![TableIndex(a)] = EntryOf(p)],
                        ![d] = [@ EXCEPT ![DirIndex(a)] = EntryOf(t)]]
  /\ tables' = tables \union {t}
  /\ UNCHANGED <<spaces, pages, failed>>

\* Altered form: the page goes in the directory's entry.
InsertInDirectory(d, a, p) ==
  /\ HasTable(d, a)
  /\ mem' = [mem EXCEPT ![d] = [@ EXCEPT ![DirIndex(a)] = EntryOf(p)]]
  /\ UNCHANGED <<spaces, tables, pages, failed>>

InsertInTable(d, a, p) ==
  /\ HasTable(d, a)
  /\ mem' = [mem EXCEPT ![TableOf(d, a)] =
               [@ EXCEPT ![TableIndex(a)] = EntryOf(p)]]
  /\ UNCHANGED <<spaces, tables, pages, failed>>

\* Altered form: the entry of the directory's index is written in the table.
InsertAtDirIndex(d, a, p) ==
  \/ \E t \in Frame : InsertInNewTable(d, a, p, t)
  \/ /\ HasTable(d, a)
     /\ mem' = [mem EXCEPT ![TableOf(d, a)] =
                  [@ EXCEPT ![DirIndex(a)] = EntryOf(p)]]
     /\ UNCHANGED <<spaces, tables, pages, failed>>

Insert(d, a, p) ==
  \/ \E t \in Frame : InsertInNewTable(d, a, p, t)
  \/ InsertInTable(d, a, p)

\* The assertions: allocate_page without memory, an address without a page.
NoMemory ==
  /\ Unused = {}
  /\ failed' = TRUE
  /\ UNCHANGED <<mem, spaces, tables, pages>>

LookupUnmapped(d, a) ==
  /\ Translate(d, a) = NoFrame
  /\ failed' = TRUE
  /\ UNCHANGED <<mem, spaces, tables, pages>>

\* free, as main uses it: the tables of a directory are never freed, and a
\* page is freed when no directory maps it any more.
FreeSpace(d) ==
  /\ spaces' = spaces \ {d}
  /\ UNCHANGED <<mem, tables, pages, failed>>

FreePage(p) ==
  /\ \A d \in spaces, a \in Address : Translate(d, a) # p
  /\ pages' = pages \ {p}
  /\ UNCHANGED <<mem, spaces, tables, failed>>

Halted == failed /\ UNCHANGED vars

Use(d) ==
  \/ \E a \in Address, p \in pages : Insert(d, a, p)
  \/ \E a \in Address : LookupUnmapped(d, a)
  \/ FreeSpace(d)

Next ==
  \/ /\ ~ failed
     /\ \/ \E f \in Frame : CreateSpace(f) \/ CreatePage(f)
        \/ \E d \in spaces : Use(d)
        \/ \E p \in pages : FreePage(p)
        \/ NoMemory
  \/ Halted

Spec == Init /\ [][Next]_vars
-------------------------------------------------------------------------------
(***************************************************************************)
(* Properties.                                                             *)
(***************************************************************************)

\* Type invariant of memory and of the use that is made of each frame.
TypeOK ==
  /\ mem \in [Frame -> [Index -> Entry]]
  /\ spaces \subseteq Frame /\ tables \subseteq Frame /\ pages \subseteq Frame
  /\ failed \in BOOLEAN

\* A frame has one use, and every table belongs to one entry of one directory:
\* writing an entry through one directory cannot change what another maps.
TablesPrivate ==
  /\ spaces \intersect tables = {}
  /\ spaces \intersect pages = {} /\ tables \intersect pages = {}
  /\ \A d, e \in spaces, i, j \in Index :
       mem[d][i].present =>
         /\ mem[d][i].frame \in tables
         /\ mem[e][j].present /\ mem[e][j].frame = mem[d][i].frame =>
              d = e /\ i = j

\* A directory maps only pages that are in use as data: nothing a recycled
\* frame held before allocate_page cleared it is taken for a mapping.
MapsLivePages ==
  \A d \in spaces, a \in Address : Translate(d, a) \in pages \union {NoFrame}

\* insert_page_into_address_space and get_page_from_address_space implement a
\* map from addresses to pages, one for each directory: whatever a step does to
\* memory, it changes one translation of one directory at most.
SpaceMap == [d \in Frame |-> [a \in Address |->
              IF d \in spaces THEN Translate(d, a) ELSE NoFrame]]
Spaces == INSTANCE Translation WITH
            Space <- Frame, Page <- Frame, Unmapped <- NoFrame,
            live <- spaces, map <- SpaceMap
ImplementsTranslation == Spaces!Spec

\* insert_page_into_address_space maps the page it is given at the address it
\* is given, in the directory it is given, and nowhere else; so an address that
\* was inserted translates to the last page inserted there, as main asserts.
InsertsThePage ==
  [][\A d \in spaces, a \in Address, p \in pages :
       Insert(d, a, p) => Spaces!Map(d, a, p)]_vars
===============================================================================
