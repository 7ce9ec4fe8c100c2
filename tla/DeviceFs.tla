------------------------------- MODULE DeviceFs -------------------------------
(***************************************************************************)
(* The device file system (kernel/fs/dfs.c) and the calls of kernel/fs/    *)
(* vfs.c that reach it: the linked list of devices, the handles of open    *)
(* devices, and the blocks of the kernel heap that all of them are made    *)
(* of.  The file system is mounted once, by vfs_init, at "/amos/device/".  *)
(*                                                                         *)
(* A block is what one mm_kmalloc returns; the first one that is free is   *)
(* taken (first fit), and a block that is freed holds garbage, so a use of *)
(* it shows.                                                               *)
(***************************************************************************)
EXTENDS Naturals, Sequences, FiniteSetsExt

CONSTANTS Name,       \* names of devices
          Driver,     \* contents of an IO_CALLTABLE
          MaxBlocks,  \* bound on the blocks of the heap
          MaxOpen     \* bound on the handles that are open

ASSUME HeapAssumption == MaxBlocks \in Nat /\ MaxOpen \in Nat

VARIABLES heap,     \* what each block holds
          used,     \* blocks that are allocated
          devHead,  \* dfs_deviceHead
          open      \* handles that vfs_open or vfs_clone returned

vars == <<heap, used, devHead, open>>

Null  == 0
Block == 1 .. MaxBlocks

FreeBlocks == Block \ used
New1 == Min(FreeBlocks)
New2 == Min(FreeBlocks \ {New1})
New3 == Min(FreeBlocks \ {New1, New2})
Room(n) == Cardinality(FreeBlocks) >= n   \* bound: the heap is not full

Label(n)      == [kind |-> "name", name |-> n]
CallTable(d)  == [kind |-> "table", driver |-> d]
DfsEntry(p, t, l) == [kind |-> "device", prev |-> p, calltable |-> t, name |-> l]
VfsHandle     == [kind |-> "handle"]
Garbage       == [kind |-> "garbage"]

\* mm_kfree of the blocks that are not in us.
Freed(hp, us) == [b \in Block |-> IF b \in us THEN hp[b] ELSE Garbage]

Init ==
  /\ heap = [b \in Block |-> Garbage]
  /\ used = {} /\ devHead = Null /\ open = {}

-------------------------------------------------------------------------------
(***************************************************************************)
(* The list.                                                               *)
(***************************************************************************)
\* The devices in the order in which dfs_find meets them; more of them than
\* there are blocks if the links go round.
Devices(hp, head) ==
  LET from[k \in 0 .. MaxBlocks + 1] ==
        [b \in Block \union {Null} |->
           IF k = 0 \/ b = Null THEN <<>>
           ELSE <<b>> \o from[k - 1][IF hp[b].kind = "device" THEN hp[b].prev ELSE Null]]
  IN  from[MaxBlocks + 1][head]

NameOf(hp, b) == hp[hp[b].name].name

\* dfs_find: the first device of that name, or none.  Altered form: the loop
\* goes on after a match.
FindLast(hp, head, n) ==
  LET l == Devices(hp, head)
      places == {i \in 1 .. Len(l) : NameOf(hp, l[i]) = n}
  IN  IF places = {} THEN Null ELSE l[Max(places)]

Find(hp, head, n) ==
  LET l == Devices(hp, head)
      places == {i \in 1 .. Len(l) : NameOf(hp, l[i]) = n}
  IN  IF places = {} THEN Null ELSE l[Min(places)]

\* dfs_add, with the name and the call table already in blocks of their own:
\* the heap and the list it leaves, in a record with the blocks in use.
Added(hp, us, head, b, table, label) ==
  [heap |-> [hp EXCEPT ![b] = DfsEntry(head, table, label)],
   used |-> us \union {b}, head |-> b]

\* dfs_remove, of a device that was found.  Altered form: the device that is
\* before it in the list keeps its link.
RemovedStillLinked(hp, us, head, dev) ==
  [heap |-> hp,
   used |-> us \ {dev, hp[dev].calltable, hp[dev].name},
   head |-> IF dev = head THEN hp[dev].prev ELSE head]

Removed(hp, us, head, dev) ==
  [heap |-> [b \in Block |->
               IF dev # head /\ b \in us /\ hp[b].kind = "device" /\ hp[b].prev = dev
               THEN [hp[b] EXCEPT !.prev = hp[dev].prev] ELSE hp[b]],
   used |-> us \ {dev, hp[dev].calltable, hp[dev].name},
   head |-> IF dev = head THEN hp[dev].prev ELSE head]

Becomes(s) ==
  heap' = Freed(s.heap, s.used) /\ used' = s.used /\ devHead' = s.head

-------------------------------------------------------------------------------
(***************************************************************************)
(* The operations on devices.                                              *)
(***************************************************************************)
\* io_add (external) hands dfs_add a name and a call table it has allocated.
AddDevice(n, d) ==
  /\ Room(3)
  /\ Becomes(Added([heap EXCEPT ![New1] = Label(n), ![New2] = CallTable(d)],
                   used \union {New1, New2}, devHead, New3, New2, New1))
  /\ UNCHANGED open

\* dfs_remove, through vfs_delete and dfs_delete too.
RemoveDevice(n) ==
  /\ Find(heap, devHead, n) # Null
  /\ Becomes(Removed(heap, used, devHead, Find(heap, devHead, n)))
  /\ UNCHANGED open

\* dfs_copy: the copy has a call table of its own.
CopyOf(s, t) ==
  LET dev == Find(heap, devHead, s)
  IN  Added([heap EXCEPT ![New1] = heap[heap[dev].calltable], ![New2] = Label(t)],
            used \union {New1, New2}, devHead, New3, New1, New2)

CopyDevice(s, t) ==
  /\ Find(heap, devHead, s) # Null /\ Room(3)
  /\ Becomes(CopyOf(s, t))
  /\ UNCHANGED open

\* Altered form: the device is removed and no copy made.
RenameOnlyRemoves(s, t) ==
  /\ Find(heap, devHead, s) # Null /\ Room(3)
  /\ Becomes(Removed(heap, used, devHead, Find(heap, devHead, s)))
  /\ UNCHANGED open

\* dfs_rename: dfs_copy and dfs_delete.  dfs_copy has no return statement, so
\* what it returns may be read as FAIL, and then nothing is deleted.
RenameDevice(s, t) ==
  /\ Find(heap, devHead, s) # Null /\ Room(3)
  /\ LET c == CopyOf(s, t) IN
       \/ Becomes(c)
       \/ Becomes(Removed(c.heap, c.used, c.head, Find(c.heap, c.head, s)))
  /\ UNCHANGED open

-------------------------------------------------------------------------------
(***************************************************************************)
(* Handles.                                                                *)
(***************************************************************************)
NewHandle ==
  /\ Cardinality(open) < MaxOpen
  /\ heap' = [heap EXCEPT ![New1] = VfsHandle]
  /\ used' = used \union {New1} /\ open' = open \union {New1}
  /\ UNCHANGED devHead

\* vfs_open and dfs_open, when io_open (external) does not fail.
OpenDevice(n) ==
  /\ Find(heap, devHead, n) # Null /\ Room(1)
  /\ NewHandle

\* Altered form: the handle of an open that failed is not freed.
OpenFailsLeaks ==
  /\ Room(1)
  /\ heap' = [heap EXCEPT ![New1] = VfsHandle]
  /\ used' = used \union {New1}
  /\ UNCHANGED <<devHead, open>>

\* There is no such device, or io_open or io_clone fails: the handle that was
\* allocated is freed.  dfs_create always fails.
OpenFails ==
  /\ Room(1)
  /\ heap' = Freed([heap EXCEPT ![New1] = VfsHandle], used)
  /\ UNCHANGED <<used, devHead, open>>

CloneHandle(h) == h \in open /\ Room(1) /\ NewHandle

CloseHandle(h) ==
  /\ h \in open
  /\ used' = used \ {h} /\ open' = open \ {h}
  /\ heap' = Freed(heap, used')
  /\ UNCHANGED devHead

Next ==
  \/ \E n \in Name :
       \/ \E d \in Driver : AddDevice(n, d)
       \/ RemoveDevice(n) \/ OpenDevice(n)
       \/ \E t \in Name : CopyDevice(n, t) \/ RenameDevice(n, t)
  \/ \E h \in Block : CloneHandle(h) \/ CloseHandle(h)
  \/ OpenFails

Spec == Init /\ [][Next]_vars
-------------------------------------------------------------------------------
(***************************************************************************)
(* Properties.                                                             *)
(***************************************************************************)
Listed == LET l == Devices(heap, devHead) IN {l[i] : i \in DOMAIN l}

\* Type invariant: the links of the list and of each device lead to blocks of
\* the right kind that are allocated, and the list ends.
TypeOK ==
  /\ used \subseteq Block /\ open \subseteq used
  /\ Len(Devices(heap, devHead)) <= MaxBlocks
  /\ \A b \in Listed :
       /\ b \in used /\ heap[b].kind = "device"
       /\ heap[b].calltable \in used /\ heap[heap[b].calltable] \in {CallTable(d) : d \in Driver}
       /\ heap[b].name \in used /\ heap[heap[b].name] \in {Label(n) : n \in Name}
  /\ \A h \in open : heap[h].kind = "handle"

\* No block leaks and none is shared: after any sequence of calls, failed ones
\* included, the blocks in use are those of the listed devices, three for each,
\* and the open handles.
BlocksOwned ==
  LET l == Listed IN
  /\ used = open \union l \union {heap[b].calltable : b \in l}
                 \union {heap[b].name : b \in l}
  /\ Cardinality(used) = Cardinality(open) + 3 * Cardinality(l)

\* The list behaves as a table of devices in which the newest of a name is
\* found, and removal takes that one out.
Table == INSTANCE DeviceTable WITH
  list <- LET l == Devices(heap, devHead)
          IN  [i \in DOMAIN l |->
                 [name |-> NameOf(heap, l[i]), driver |-> heap[heap[l[i]].calltable].driver]]
ImplementsTable == Table!Spec

\* dfs_rename gives the device its new name before it takes the old one away,
\* so the device does not go missing; and whatever dfs_copy is read to have
\* returned, no other device is touched: the device has its new name alone, or
\* both names.
RenamesTheDevice ==
  [][\A s, t \in Name :
       RenameDevice(s, t) => Table!Rename(s, t) \/ Table!Copy(s, t)]_vars
===============================================================================
