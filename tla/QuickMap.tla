------------------------------- MODULE QuickMap -------------------------------
(***************************************************************************)
(* The quick-map slot of the MimicOS kernel: one virtual page through      *)
(* which any physical frame can be written.  paging_createDirectory        *)
(* (mm/paging.c) fills a new page directory through it under paging_lock;  *)
(* mm_pmemcpyto and mm_pmemcpyfrom (mm/mm.c) copy a frame through it with  *)
(* interrupts disabled.                                                    *)
(*                                                                         *)
(* There is one processor: a context runs until an interrupt takes the     *)
(* processor away, which can be after any access to memory.                *)
(***************************************************************************)
EXTENDS Naturals

CONSTANTS Creator,    \* contexts that create page directories
          Copier,     \* contexts that copy to and from physical memory
          Directory,  \* frames physical_pageAlloc returns
          Data,       \* frames of other processes' data
          ENTRIES,    \* entries of a directory, words of a frame
          Together,   \* sets of contexts that may run at the same time
          None

ASSUME ContextAssumption ==
  /\ Creator \intersect Copier = {} /\ Directory \intersect Data = {}
  /\ None \notin Creator \union Copier \union Directory \union Data
  /\ ENTRIES \in Nat \ {0}
  /\ Together \subseteq SUBSET (Creator \union Copier)

Context == Creator \union Copier
Frame   == Directory \union Data
Word    == 0 .. ENTRIES - 1
Last    == ENTRIES - 1

VARIABLES active,     \* the contexts there are
          mem,        \* mem[f][i] is word i of frame f
          slot,       \* frame mapped at KERNEL_QUICKMAP_VADDRESS
          lock,       \* holder of paging_lock
          cli,        \* context that has disabled interrupts
          pc, frame, index,  \* of each context: step, frame it works on, loop
          buffer      \* what a context copied from physical memory

vars == <<active, mem, slot, lock, cli, pc, frame, index, buffer>>

\* Words of memory: nothing written yet, an entry that is not present, an
\* entry that is present with the address of a frame, data of a context.
Junk      == <<"junk">>
Absent    == <<"absent">>
Present(f) == <<"present", f>>
Copied(c)  == <<"data", c>>

Content == {Junk, Absent} \union {Present(f) : f \in Frame}
                          \union {Copied(c) : c \in Copier}

\* The entry that the loop of paging_createDirectory writes: the directory is
\* its own last table.
DirectoryEntry(f, i) == IF i = Last THEN Present(f) ELSE Absent

Init ==
  /\ active \in Together
  /\ mem = [f \in Frame |-> [i \in Word |-> Junk]]
  /\ slot = None /\ lock = None /\ cli = None
  /\ pc = [c \in Context |-> "idle"]
  /\ frame = [c \in Context |-> None]
  /\ index = [c \in Context |-> 0]
  /\ buffer = [c \in Copier |-> [i \in Word |-> Junk]]

Goto(c, l) == pc' = [pc EXCEPT ![c] = l]

\* Where a context writes is where the slot is mapped at that moment.
Poke(i, v) == mem' = [mem EXCEPT ![slot] = [@ EXCEPT ![i] = v]]

\* paging_mapQuick (external): maps the slot, for every context at once.
MapQuick(f) == slot' = f

-------------------------------------------------------------------------------
(***************************************************************************)
(* paging_createDirectory.                                                 *)
(***************************************************************************)
\* Altered form: without waiting for the lock.
LockPagingNoWait(c) ==
  /\ pc[c] = "idle"
  /\ lock' = c
  /\ Goto(c, "alloc")
  /\ UNCHANGED <<mem, slot, cli, frame, index, buffer>>

LockPaging(c) ==
  /\ pc[c] = "idle"
  /\ lock = None
  /\ lock' = c
  /\ Goto(c, "alloc")
  /\ UNCHANGED <<mem, slot, cli, frame, index, buffer>>

Unused == {f \in Directory : \A c \in Creator : frame[c] # f}

AllocDirectory(c) ==
  /\ pc[c] = "alloc"
  /\ \E f \in Unused : frame' = [frame EXCEPT ![c] = f]
  /\ Goto(c, "map")
  /\ UNCHANGED <<mem, slot, lock, cli, index, buffer>>

\* physical_pageAlloc panics when there is no page: the test for NULL behind it
\* never holds.
AllocPanics(c) ==
  /\ pc[c] = "alloc"
  /\ Unused = {}
  /\ Goto(c, "panic")
  /\ UNCHANGED <<mem, slot, lock, cli, frame, index, buffer>>

\* Nothing runs after a panic.
Halted == \E c \in Creator : pc[c] = "panic"

MapDirectory(c) ==
  /\ pc[c] = "map"
  /\ MapQuick(frame[c])
  /\ Goto(c, "clear")
  /\ UNCHANGED <<mem, lock, cli, frame, index, buffer>>

\* The memset.
ClearDirectory(c) ==
  /\ pc[c] = "clear"
  /\ mem' = [mem EXCEPT ![slot] = [i \in Word |-> Absent]]
  /\ index' = [index EXCEPT ![c] = 0]
  /\ Goto(c, "entries")
  /\ UNCHANGED <<slot, lock, cli, frame, buffer>>

WriteEntry(c) ==
  /\ pc[c] = "entries"
  /\ index[c] < ENTRIES
  /\ Poke(index[c], DirectoryEntry(frame[c], index[c]))
  /\ index' = [index EXCEPT ![c] = @ + 1]
  /\ UNCHANGED <<slot, lock, cli, pc, frame, buffer>>

UnlockPaging(c) ==
  /\ pc[c] = "entries"
  /\ index[c] = ENTRIES
  /\ lock' = None
  /\ Goto(c, "created")
  /\ UNCHANGED <<mem, slot, cli, frame, index, buffer>>

\* Every process has been created, or the kernel has panicked; paging_destroyDirectory does nothing yet.
AllCreated ==
  /\ \/ Halted
     \/ active \subseteq Creator /\ \A c \in active : pc[c] = "created"
  /\ UNCHANGED vars

-------------------------------------------------------------------------------
(***************************************************************************)
(* mm_pmemcpyto and mm_pmemcpyfrom: from is pc "read", to is pc "write".   *)
(***************************************************************************)
\* Altered form: interrupts stay enabled.
BeginCopyEnabled(c) ==
  /\ pc[c] = "idle"
  /\ \E f \in Data : MapQuick(f) /\ frame' = [frame EXCEPT ![c] = f]
  /\ index' = [index EXCEPT ![c] = 0]
  /\ \E way \in {"read", "write"} : Goto(c, way)
  /\ UNCHANGED <<mem, lock, cli, buffer>>

BeginCopy(c) ==
  /\ pc[c] = "idle"
  /\ cli' = c
  /\ \E f \in Data : MapQuick(f) /\ frame' = [frame EXCEPT ![c] = f]
  /\ index' = [index EXCEPT ![c] = 0]
  /\ \E way \in {"read", "write"} : Goto(c, way)
  /\ UNCHANGED <<mem, lock, buffer>>

CopyTo(c) ==
  /\ pc[c] = "write"
  /\ index[c] < ENTRIES
  /\ Poke(index[c], Copied(c))
  /\ index' = [index EXCEPT ![c] = @ + 1]
  /\ UNCHANGED <<slot, lock, cli, pc, frame, buffer>>

CopyFrom(c) ==
  /\ pc[c] = "read"
  /\ index[c] < ENTRIES
  /\ buffer' = [buffer EXCEPT ![c] = [@ EXCEPT ![index[c]] = mem[slot][index[c]]]]
  /\ index' = [index EXCEPT ![c] = @ + 1]
  /\ UNCHANGED <<mem, slot, lock, cli, pc, frame>>

EndCopy(c) ==
  /\ pc[c] \in {"read", "write"}
  /\ index[c] = ENTRIES
  /\ cli' = None
  /\ frame' = [frame EXCEPT ![c] = None]
  /\ Goto(c, "idle")
  /\ UNCHANGED <<mem, slot, lock, index, buffer>>

-------------------------------------------------------------------------------
Create(c) ==
  \/ LockPaging(c) \/ AllocDirectory(c) \/ AllocPanics(c) \/ MapDirectory(c)
  \/ ClearDirectory(c) \/ WriteEntry(c) \/ UnlockPaging(c)

Copy(c) == BeginCopy(c) \/ CopyTo(c) \/ CopyFrom(c) \/ EndCopy(c)

\* Interrupts disabled, no other context gets the processor.
Runs(c) == c \in active /\ cli \in {None, c} /\ ~ Halted

Next ==
  \/ /\ UNCHANGED active
     /\ \/ \E c \in Creator : Runs(c) /\ Create(c)
        \/ \E c \in Copier : Runs(c) /\ Copy(c)
  \/ AllCreated

Spec == Init /\ [][Next]_vars
-------------------------------------------------------------------------------
(***************************************************************************)
(* Properties.                                                             *)
(***************************************************************************)

\* Type invariant of the slot, of memory, and of the two functions' progress.
TypeOK ==
  /\ active \in Together
  /\ mem \in [Frame -> [Word -> Content]]
  /\ slot \in Frame \union {None}
  /\ lock \in Creator \union {None} /\ cli \in Copier \union {None}
  /\ pc \in [Context -> {"idle", "alloc", "map", "clear", "entries", "created",
                         "panic", "read", "write"}]
  /\ frame \in [Context -> Frame \union {None}]
  /\ index \in [Context -> 0 .. ENTRIES]
  /\ buffer \in [Copier -> [Word -> Content]]

\* What paging_createDirectory returned is a whole directory that maps itself
\* in its last entry, whoever else used the slot meanwhile.
DirectoriesWhole ==
  \A c \in Creator : pc[c] = "created" =>
    \A i \in Word : mem[frame[c]][i] = DirectoryEntry(frame[c], i)

\* mm_pmemcpyto writes a frame whole, and mm_pmemcpyfrom reads it whole: outside
\* a copy, every word of a frame of data comes from the same copy, and what a
\* context has read is never a mixture of two.
CopiesWhole ==
  /\ \A f \in Data : (\A c \in Copier : frame[c] # f) =>
       \A i, j \in Word : mem[f][i] = mem[f][j]
  /\ \A c \in Copier : pc[c] # "read" =>
       \A i, j \in Word : buffer[c][i] = buffer[c][j]
===============================================================================
