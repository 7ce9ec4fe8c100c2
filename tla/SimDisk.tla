-------------------------------- MODULE SimDisk --------------------------------
(***************************************************************************)
(* The simulated disk of kernal/file_system: my_mkfs and find (simdisk.c), *)
(* block and inode allocation (block.c), my_open, my_creat and my_close    *)
(* (file.c).  Every block is written through to the device by a call of    *)
(* its own; any of these calls may fail, which the code ignores, and the   *)
(* process may crash between two of them.  A write that fails leaves the   *)
(* block as it was; the reads of an open device are taken to succeed.      *)
(*                                                                         *)
(* Files are created in the root directory.  The code finds a file as "/f" *)
(* and creates it as "//f": the name of a directory keeps no slash of its  *)
(* own.  Block numbers and inode numbers are the code's.                   *)
(***************************************************************************)
EXTENDS Integers, FiniteSetsExt

CONSTANTS Name,            \* names of files
          NoName,          \* the name in an entry that was never written
          Dots,            \* the names of the directory's first two entries
          MAX_OPEN_FILES,
          DENTRIES         \* directory entries in a block (16 on the disk)

ASSUME DiskAssumption ==
  /\ {".", ".."} \subseteq Dots
  /\ MAX_OPEN_FILES \in Nat
  /\ DENTRIES \in Nat /\ DENTRIES >= 2

BLOCK_TABLE_START == 2516
INODE_TABLE_START == 16
RootInode == 1

Free   == 0     \* a descriptor that was never used
Closed == -1

VARIABLES magic,   \* the super block has the magic number
          bmap,    \* bits set in the first block of the block map
          imap,    \* bits set in the first block of the inode map
          inodes,  \* the inodes on the disk that were ever written
          dentry,  \* the root directory's block
          opened,  \* dev_open has opened the device: devsize is not 0
          fd,      \* the table of descriptors
          pc, job, \* the call in progress: its step, its local variables
          listed,  \* history: names whose entry was written since the format
          lost     \* history: the blocks that my_mkfs failed to write

disk    == <<magic, bmap, imap, inodes, dentry>>
memory  == <<opened, fd>>
history == <<listed, lost>>
vars    == <<disk, memory, pc, job, history>>

Inode  == {RootInode} \union {INODE_TABLE_START + k : k \in 0 .. 8}
Block  == {BLOCK_TABLE_START + k : k \in 0 .. 8}
Slot   == 0 .. DENTRIES - 1
NoSlot == DENTRIES
Dentry == [inode : Inode \union {0}, type : {"none", "file", "dir"},
           name : Name \union Dots \union {NoName}]
NoDentry == [inode |-> 0, type |-> "none", name |-> NoName]
NoJob    == [name |-> NoName, slot |-> NoSlot, inode |-> 0, block |-> 0,
             entered |-> FALSE]

Init ==
  /\ magic = FALSE /\ bmap = {} /\ imap = {}
  /\ inodes = [n \in {} |-> 0]
  /\ dentry = [s \in Slot |-> NoDentry]
  /\ opened = FALSE /\ fd = [i \in 0 .. MAX_OPEN_FILES - 1 |-> Free]
  /\ pc = "start" /\ job = NoJob /\ listed = {} /\ lost = {}

-------------------------------------------------------------------------------
(***************************************************************************)
(* The device.  dev_open opens it once; until then its size is 0, and      *)
(* every read and write fails.                                             *)
(***************************************************************************)
DevOpen == opened' \in (IF opened THEN {TRUE} ELSE BOOLEAN)

\* The results that write_block and write_inode may have.
Results(isOpen) == IF isOpen THEN BOOLEAN ELSE {FALSE}

\* my_mkfs goes on whether the block was written or not.
Note(ok, part) == lost' = IF ok THEN lost ELSE lost \union {part}

-------------------------------------------------------------------------------
(***************************************************************************)
(* my_mkfs: one action for each block that is written, in the code's       *)
(* order.  The directory's block comes from malloc in a fresh process:     *)
(* past its two entries it is taken to be zero.                            *)
(***************************************************************************)
\* Altered form: the device is opened before the super block is read.
AlreadyFormattedOnDevice == magic

\* read_block fails until dev_open has set the size of the device.
AlreadyFormatted == opened /\ magic

WriteSuper ==
  /\ pc \in {"start", "idle"} /\ ~ AlreadyFormatted
  /\ DevOpen
  /\ \E ok \in Results(opened') :
       /\ magic' = (magic \/ ok)
       /\ lost' = IF ok THEN {} ELSE {"super"}
  /\ pc' = "bmap"
  /\ UNCHANGED <<bmap, imap, inodes, dentry, fd, job, listed>>

\* Nothing is written.
SkipFormat ==
  /\ pc \in {"start", "idle"} /\ AlreadyFormatted
  /\ opened' = TRUE
  /\ pc' = "idle"
  /\ UNCHANGED <<disk, fd, job, history>>

WriteBlockMap ==
  /\ pc = "bmap"
  /\ fd' = [i \in DOMAIN fd |-> Closed]
  /\ \E ok \in Results(opened) : bmap' = (IF ok THEN {0} ELSE bmap) /\ Note(ok, "bmap")
  /\ pc' = "imap"
  /\ UNCHANGED <<magic, imap, inodes, dentry, opened, job, listed>>

WriteInodeMap ==
  /\ pc = "imap"
  /\ \E ok \in Results(opened) : imap' = (IF ok THEN {0, 1} ELSE imap) /\ Note(ok, "imap")
  /\ pc' = "root"
  /\ UNCHANGED <<magic, bmap, inodes, dentry, memory, job, listed>>

NodeOf(n, type, b) == [num |-> n, type |-> type, block |-> b]

\* The inodes on the disk once node is written.
Written(node) ==
  [n \in DOMAIN inodes \union {node.num} |->
     IF n = node.num THEN node ELSE inodes[n]]

WriteRoot ==
  /\ pc = "root"
  /\ \E ok \in Results(opened) :
       /\ inodes' = IF ok THEN Written(NodeOf(RootInode, "dir", BLOCK_TABLE_START))
                    ELSE inodes
       /\ Note(ok, "root")
  /\ pc' = "dir"
  /\ UNCHANGED <<magic, bmap, imap, dentry, memory, job, listed>>

RootEntries ==
  [s \in Slot |-> IF s < 2 THEN [inode |-> RootInode, type |-> "dir",
                                 name |-> IF s = 0 THEN "." ELSE ".."]
                  ELSE NoDentry]

WriteRootBlock ==
  /\ pc = "dir"
  /\ \E ok \in Results(opened) :
       /\ dentry' = IF ok THEN RootEntries ELSE dentry
       /\ listed' = IF ok THEN {} ELSE listed
       /\ Note(ok, "dir")
  /\ pc' = "idle"
  /\ UNCHANGED <<magic, bmap, imap, inodes, memory, job>>

-------------------------------------------------------------------------------
(***************************************************************************)
(* get_block and get_inode: the search is for a byte that is not full, and *)
(* compares a signed char with 0xff, so it ends at the first byte; the bit *)
(* that is set is numbered by the block or inode, not by its place.        *)
(***************************************************************************)
FirstClear(map) == Min({k \in 0 .. 7 : k \notin map} \union {8})

GetBlock == BLOCK_TABLE_START + FirstClear(bmap)

GetInode == INODE_TABLE_START + FirstClear(imap)

-------------------------------------------------------------------------------
(***************************************************************************)
(* find, my_open and my_close.  On a device that is not open find returns  *)
(* an inode that nothing has filled: what the process does with it is      *)
(* undefined, and is not followed.  None of it can reach the disk.         *)
(***************************************************************************)
Astray ==
  /\ pc = "idle" /\ ~ opened
  /\ pc' = "astray"
  /\ UNCHANGED <<disk, memory, job, history>>

Entries(n) == {s \in Slot : dentry[s].type = "file" /\ dentry[s].name = n}

\* An inode that was never written is read as zeros.
NumberIn(n) == IF n \in DOMAIN inodes THEN inodes[n].num ELSE 0

\* Altered form: any descriptor will do.
AnyDescriptor == DOMAIN fd

FreeDescriptor == {i \in DOMAIN fd : fd[i] \in {Free, Closed}}

\* The first free descriptor is set to the inode; without one, nothing is.
Open(inum) ==
  IF FreeDescriptor = {} THEN UNCHANGED fd
  ELSE fd' = [fd EXCEPT ![Min(FreeDescriptor)] = inum]

OpenRoot ==
  /\ pc = "idle" /\ opened
  /\ Open(NumberIn(RootInode))
  /\ UNCHANGED <<disk, opened, pc, job, history>>

\* The last component of a path is copied without a terminating zero, so a
\* file that exists may also not be found.
OpenFile(n) ==
  /\ pc = "idle" /\ opened
  /\ Entries(n) # {}
  /\ Open(NumberIn(dentry[Min(Entries(n))].inode))
  /\ UNCHANGED <<disk, opened, pc, job, history>>

Close(i) ==
  /\ pc = "idle" /\ fd[i] \notin {Free, Closed}
  /\ fd' = [fd EXCEPT ![i] = Closed]
  /\ UNCHANGED <<disk, opened, pc, job, history>>

-------------------------------------------------------------------------------
(***************************************************************************)
(* my_creat.                                                               *)
(***************************************************************************)
\* Altered form: an entry of the name is no reason to stop.
NameIsFreeAlways(n) == TRUE

NameIsFree(n) == Entries(n) = {}

\* Altered form: the entries of files are free to take.
EmptySlotsNotDirectories == {s \in Slot : dentry[s].type # "dir"}

EmptySlots == {s \in Slot : dentry[s].inode = 0}

\* The blocks of a root that was never written are read as block 0, whose rest
\* the entry goes into.
HasRoot == RootInode \in DOMAIN inodes

ChosenSlot == IF HasRoot THEN Min(EmptySlots \union {NoSlot}) ELSE NoSlot

\* A directory has 32 entries in memory, of which a block holds 16: an entry
\* that goes past the block, or into a second block that the directory's inode
\* never lists, is not on the disk.  The second block is taken in the map.
BeginCreate(n) ==
  /\ pc = "idle" /\ opened
  /\ NameIsFree(n)
  /\ job' = [NoJob EXCEPT !.name = n, !.slot = ChosenSlot]
  /\ bmap' \in {bmap} \union
               (IF EmptySlots = {} THEN {bmap \union {GetBlock}} ELSE {})
  /\ pc' = "inode"
  /\ UNCHANGED <<magic, imap, inodes, dentry, memory, history>>

TakeInode ==
  /\ pc = "inode"
  /\ \E ok \in Results(opened) : imap' = IF ok THEN imap \union {GetInode} ELSE imap
  /\ job' = [job EXCEPT !.inode = GetInode]
  /\ pc' = "entry"
  /\ UNCHANGED <<magic, bmap, inodes, dentry, memory, history>>

WriteDentry ==
  /\ pc = "entry"
  /\ \E ok \in Results(opened) :
       /\ dentry' = IF ok /\ job.slot # NoSlot
                    THEN [dentry EXCEPT ![job.slot] =
                            [inode |-> job.inode, type |-> "file", name |-> job.name]]
                    ELSE dentry
       /\ job' = [job EXCEPT !.entered = ok /\ HasRoot]
  /\ pc' = "block"
  /\ UNCHANGED <<magic, bmap, imap, inodes, memory, history>>

TakeBlock ==
  /\ pc = "block"
  /\ \E ok \in Results(opened) : bmap' = IF ok THEN bmap \union {GetBlock} ELSE bmap
  /\ job' = [job EXCEPT !.block = GetBlock]
  /\ pc' = "node"
  /\ UNCHANGED <<magic, imap, inodes, dentry, memory, history>>

WriteNode ==
  /\ pc = "node"
  /\ \E ok \in Results(opened) :
       inodes' = IF ok THEN Written(NodeOf(job.inode, "file", job.block)) ELSE inodes
  /\ pc' = "open"
  /\ UNCHANGED <<magic, bmap, imap, dentry, memory, job, history>>

\* A descriptor is taken, and returned, whatever has failed.
EndCreate ==
  /\ pc = "open"
  /\ Open(job.inode)
  /\ listed' = IF job.entered THEN listed \union {job.name} ELSE listed
  /\ job' = NoJob
  /\ pc' = "idle"
  /\ UNCHANGED <<disk, opened, lost>>

-------------------------------------------------------------------------------
\* The process dies; its memory is gone and the disk is as it was written.
Crash ==
  /\ opened' = FALSE
  /\ fd' = [i \in DOMAIN fd |-> Free]
  /\ pc' = "start" /\ job' = NoJob
  /\ lost' = {}
  /\ UNCHANGED <<disk, listed>>

Format == \/ WriteSuper \/ SkipFormat \/ WriteBlockMap \/ WriteInodeMap
          \/ WriteRoot \/ WriteRootBlock

Create == \/ \E n \in Name : BeginCreate(n)
          \/ TakeInode \/ WriteDentry \/ TakeBlock \/ WriteNode \/ EndCreate

Next ==
  \/ Format \/ Create
  \/ OpenRoot \/ \E n \in Name : OpenFile(n)
  \/ \E i \in DOMAIN fd : Close(i)
  \/ Astray \/ Crash

Spec == Init /\ [][Next]_vars
-------------------------------------------------------------------------------
(***************************************************************************)
(* Properties.                                                             *)
(***************************************************************************)

\* Type invariant of the disk, of the descriptors and of the call in progress.
TypeOK ==
  /\ magic \in BOOLEAN /\ bmap \subseteq Nat /\ imap \subseteq Nat
  /\ DOMAIN inodes \subseteq Inode
  /\ \A n \in DOMAIN inodes :
       inodes[n] \in [num : {n}, type : {"file", "dir"}, block : Block]
  /\ dentry \in [Slot -> Dentry]
  /\ opened \in BOOLEAN
  /\ fd \in [0 .. MAX_OPEN_FILES - 1 -> Inode \union {Free, Closed}]
  /\ pc \in {"start", "idle", "astray", "bmap", "imap", "root", "dir",
             "inode", "entry", "block", "node", "open"}
  /\ job \in [name : Name \union {NoName}, slot : 0 .. NoSlot,
              inode : Inode \union {0}, block : Block \union {0},
              entered : BOOLEAN]
  /\ listed \subseteq Name
  /\ lost \subseteq {"super", "bmap", "imap", "root", "dir"}

\* my_mkfs has returned in this process.
Formatted == pc \notin {"start", "bmap", "imap", "root", "dir"}

\* Once my_mkfs has returned, each of the five things it writes is on the disk,
\* or this format failed to write that one: the magic number is the first thing
\* that is written, so a disk that has it may lack the rest, and a format that
\* an earlier process did not finish must never be taken for a whole one.
FormattedIsWhole ==
  Formatted =>
    /\ magic \/ "super" \in lost
    /\ 0 \in bmap \/ "bmap" \in lost
    /\ {0, 1} \subseteq imap \/ "imap" \in lost
    /\ \/ HasRoot /\ inodes[RootInode] = NodeOf(RootInode, "dir", BLOCK_TABLE_START)
       \/ "root" \in lost
    /\ (\A s \in {0, 1} : dentry[s] = RootEntries[s]) \/ "dir" \in lost

\* No two entries of the directory have the same name: my_creat looks at all
\* of them, over every sequence of creations, failed writes, crashes and formats.
NamesUnique == \A n \in Name : Cardinality(Entries(n)) <= 1

\* A file whose entry my_creat has written stays in the directory until the
\* directory is formatted: no later creation takes its entry, whichever writes
\* fail.  (The directory must have room on the disk for every name.)
CreatedIsListed == \A n \in listed : Entries(n) # {}

\* A descriptor keeps the inode it was opened for until it is closed, or the
\* process formats the disk or dies: my_open and my_creat never reuse one.
DescriptorsKept ==
  [][\A i \in DOMAIN fd :
       fd[i] \in Inode /\ fd'[i] # fd[i] =>
         fd'[i] = Closed \/ pc' = "start"]_vars
===============================================================================
