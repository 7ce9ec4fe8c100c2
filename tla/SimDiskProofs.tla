----------------------------- MODULE SimDiskProofs -----------------------------
(***************************************************************************)
(* Proofs about the simulated disk, for every set of names and every size  *)
(* of the directory and of the table of descriptors.                       *)
(***************************************************************************)
EXTENDS SimDisk, FiniteSetTheorems, WellFoundedInduction, TLAPS

Formatting == {"bmap", "imap", "root", "dir"}
Creating   == {"inode", "entry", "block", "node", "open"}

IsFile(s) == dentry[s].type = "file"

\* What this process's format has written so far, or failed to write.  A process
\* in which the device is open has begun one, so an older disk never counts as
\* whole.
SuperThere == magic \/ "super" \in lost
BmapThere  == 0 \in bmap \/ "bmap" \in lost
ImapThere  == {0, 1} \subseteq imap \/ "imap" \in lost
RootThere  == \/ /\ RootInode \in DOMAIN inodes
                 /\ inodes[RootInode] = NodeOf(RootInode, "dir", BLOCK_TABLE_START)
              \/ "root" \in lost
DirThere   == (\A s \in {0, 1} : dentry[s] = RootEntries[s]) \/ "dir" \in lost

Whole ==
  /\ opened => pc # "start"
  /\ pc # "start" => SuperThere
  /\ pc \notin {"start", "bmap"} => BmapThere
  /\ pc \notin {"start", "bmap", "imap"} => ImapThere
  /\ pc \notin {"start", "bmap", "imap", "root"} => RootThere
  /\ pc \notin {"start"} \union Formatting => DirThere

\* The local variables of my_creat: the entry it has chosen is still empty and
\* the name still free when it writes the entry.
Job ==
  /\ pc \in Creating => job.name \in Name
  /\ pc \in Creating \ {"inode"} => job.inode \in Inode \ {RootInode}
  /\ pc \in {"node", "open"} => job.block \in Block
  /\ pc \in {"inode", "entry"} =>
       /\ Entries(job.name) = {}
       /\ job.slot # NoSlot => dentry[job.slot].inode = 0

\* What is in the directory, the first two entries aside, are files, no two of
\* a name; an entry that is free to take is none of them.
Directory ==
  /\ \A s \in Slot : dentry[s].inode # 0 => s \in {0, 1} \/ IsFile(s)
  /\ \A s \in Slot : IsFile(s) => dentry[s].name \in Name /\ dentry[s].inode # 0
  /\ \A s, t \in Slot :
       IsFile(s) /\ IsFile(t) /\ dentry[s].name = dentry[t].name => s = t

Inv == TypeOK /\ Whole /\ Job /\ Directory

-------------------------------------------------------------------------------
(***************************************************************************)
(* Numbers.                                                                *)
(***************************************************************************)
\* The least number principle, from the well-foundedness of strict inclusion
\* on finite sets.
LEMMA LeastNumber ==
  ASSUME NEW S \in SUBSET Nat, S # {}
  PROVE  \E m \in S : \A n \in S : m <= n
<1> PICK b \in S : TRUE
  OBVIOUS
<1> DEFINE U == 0 .. b
           R == StrictSubsetOrdering(U)
           T == {0 .. m : m \in {n \in S : n <= b}}
<1>1. FiniteSubsetsOf(U) = SUBSET U
  <2>1. IsFiniteSet(U)
    BY FS_Interval
  <2> HIDE DEF U
  <2>2. QED
    BY <2>1, FS_FiniteSubsetsOfFinite
<1>2. IsWellFoundedOn(R, FiniteSubsetsOf(U))
  BY FS_StrictSubsetOrderingWellFounded
<1>3. T \subseteq SUBSET U /\ 0 .. b \in T
  OBVIOUS
<1> HIDE DEF R, T
<1>4. PICK x \in T : \A y \in T : ~ (<<y, x>> \in R)
  <2> DEFINE F == SUBSET U
  <2>1. IsWellFoundedOn(R, F) /\ T \subseteq F /\ T # {}
    BY <1>1, <1>2, <1>3
  <2> HIDE DEF F
  <2>2. QED
    BY <2>1, WFMin
<1>5. PICK m \in S : m <= b /\ x = 0 .. m
  BY DEF T
<1>6. ASSUME NEW n \in S, n < m
      PROVE  FALSE
  <2>1. 0 .. n \in T /\ 0 .. n \subseteq x /\ 0 .. n # x
    BY <1>5, <1>6 DEF T
  <2>2. <<0 .. n, x>> \in R
    BY <1>3, <2>1 DEF R, StrictSubsetOrdering
  <2>3. QED
    BY <1>4, <2>1, <2>2
<1>7. QED
  BY <1>5, <1>6

\* Min of a set of numbers is its least.
LEMMA MinIsLeast ==
  ASSUME NEW S \in SUBSET Nat, S # {}
  PROVE  Min(S) \in S /\ \A n \in S : Min(S) <= n
BY LeastNumber DEF Min

\* The bit that get_block and get_inode find is one of nine.
LEMMA FirstClearType == ASSUME NEW map PROVE FirstClear(map) \in 0 .. 8
<1> DEFINE S == {k \in 0 .. 7 : k \notin map} \union {8}
<1>1. S \in SUBSET Nat /\ S # {} /\ S \subseteq 0 .. 8
  OBVIOUS
<1> HIDE DEF S
<1>2. Min(S) \in S
  BY <1>1, MinIsLeast
<1>3. QED
  BY <1>1, <1>2 DEF FirstClear, S

\* The numbers that get_inode and get_block return.
LEMMA NumbersType ==
  /\ GetInode \in Inode \ {RootInode} /\ GetBlock \in Block
  /\ GetInode \in Nat /\ GetBlock \in Nat
  /\ 0 \notin Inode /\ -1 \notin Inode
<1>1. FirstClear(imap) \in 0 .. 8 /\ FirstClear(bmap) \in 0 .. 8
  BY FirstClearType
<1>2. QED
  BY <1>1 DEF GetInode, GetBlock, Inode, Block, INODE_TABLE_START, BLOCK_TABLE_START, RootInode

\* my_open and my_creat put an inode in a descriptor that was free.
LEMMA OpenDescriptor ==
  ASSUME TypeOK, NEW inum \in Inode \union {Free}, Open(inum)
  PROVE  /\ fd' \in [0 .. MAX_OPEN_FILES - 1 -> Inode \union {Free, Closed}]
         /\ \A i \in DOMAIN fd : fd[i] \in Inode => fd'[i] = fd[i]
<1>1. FreeDescriptor \in SUBSET Nat /\ FreeDescriptor \subseteq DOMAIN fd
  BY DiskAssumption DEF TypeOK, FreeDescriptor
<1>2. CASE FreeDescriptor = {}
  BY <1>2 DEF Open, TypeOK
<1>3. CASE FreeDescriptor # {}
  <2> DEFINE i == Min(FreeDescriptor)
  <2>1. i \in FreeDescriptor
    BY <1>1, <1>3, MinIsLeast
  <2>2. fd' = [fd EXCEPT ![i] = inum]
    BY <1>3 DEF Open
  <2> HIDE DEF i
  <2>3. fd[i] \notin Inode
    BY <2>1, NumbersType DEF FreeDescriptor, Free, Closed
  <2>4. QED
    BY <1>1, <2>1, <2>2, <2>3 DEF TypeOK
<1>4. QED
  BY <1>2, <1>3

\* my_creat chooses an entry that is empty, or finds none on the disk.
LEMMA SlotIsEmpty ==
  /\ ChosenSlot \in 0 .. NoSlot
  /\ ChosenSlot # NoSlot => ChosenSlot \in Slot /\ dentry[ChosenSlot].inode = 0
  /\ ChosenSlot = NoSlot /\ HasRoot => EmptySlots = {}
<1> DEFINE S == EmptySlots \union {NoSlot}
           slot == Min(S)
<1>1. S \in SUBSET Nat /\ S # {} /\ \A s \in EmptySlots : s < NoSlot
  BY DiskAssumption DEF EmptySlots, Slot, NoSlot
<1> HIDE DEF S, slot
<1>2. slot \in S /\ \A s \in S : slot <= s
  BY <1>1, MinIsLeast DEF slot
<1>3. slot \in EmptySlots \/ slot = NoSlot
  BY <1>2 DEF S
<1>4. slot = NoSlot => EmptySlots = {}
  <2>1. SUFFICES ASSUME slot = NoSlot, NEW s \in EmptySlots
                 PROVE  FALSE
    OBVIOUS
  <2>2. NoSlot <= s /\ s < NoSlot /\ s \in Nat /\ NoSlot \in Nat
    BY <1>1, <1>2, <2>1 DEF S
  <2>3. QED
    BY <2>2
<1>5. ChosenSlot = IF HasRoot THEN slot ELSE NoSlot
  BY DEF ChosenSlot, slot, S
<1>6. NoSlot \in 0 .. NoSlot /\ \A s \in Slot : s \in 0 .. NoSlot
  BY DiskAssumption DEF Slot, NoSlot
<1>7. QED
  BY <1>3, <1>4, <1>5, <1>6 DEF EmptySlots

-------------------------------------------------------------------------------
(***************************************************************************)
(* my_mkfs.                                                                *)
(***************************************************************************)
LEMMA InitInv == Init => Inv
<1> SUFFICES ASSUME Init PROVE Inv
  OBVIOUS
<1> USE DEF Init
<1>1. NoDentry \in Dentry
  BY DEF NoDentry, Dentry
<1>2. NoJob \in [name : Name \union {NoName}, slot : 0 .. NoSlot,
                 inode : Inode \union {0}, block : Block \union {0},
                 entered : BOOLEAN]
  BY DiskAssumption DEF NoJob, NoSlot
<1>3. TypeOK
  BY <1>1, <1>2 DEF TypeOK
<1>4. \A s \in Slot : dentry[s].inode = 0 /\ dentry[s].type = "none"
  BY DEF NoDentry
<1>5. QED
  BY <1>3, <1>4 DEF Inv, Whole, Job, Directory, IsFile, Creating

\* The inodes on the disk keep their numbers when one is written, or none.
LEMMA WrittenType ==
  ASSUME TypeOK, NEW n \in Inode, NEW type \in {"file", "dir"}, NEW b \in Block,
         inodes' = Written(NodeOf(n, type, b))
  PROVE  /\ DOMAIN inodes' = DOMAIN inodes \union {n}
         /\ inodes'[n] = NodeOf(n, type, b)
         /\ \A m \in DOMAIN inodes \ {n} : inodes'[m] = inodes[m]
         /\ DOMAIN inodes' \subseteq Inode
         /\ \A m \in DOMAIN inodes' :
              inodes'[m] \in [num : {m}, type : {"file", "dir"}, block : Block]
<1> DEFINE node == NodeOf(n, type, b)
<1>1. node.num = n /\ node \in [num : {n}, type : {"file", "dir"}, block : Block]
  BY DEF NodeOf
<1> HIDE DEF node
<1>2. /\ DOMAIN inodes' = DOMAIN inodes \union {n}
      /\ inodes'[n] = node
      /\ \A m \in DOMAIN inodes \ {n} : inodes'[m] = inodes[m]
  BY <1>1 DEF Written, node
<1>3. QED
  BY <1>1, <1>2 DEF TypeOK, node

\* my_mkfs opens the device and writes the super block.
LEMMA WriteSuperStep == ASSUME Inv, WriteSuper PROVE Inv'
<1> USE DEF Inv, WriteSuper
<1>1. opened' \in BOOLEAN
  BY DEF DevOpen, TypeOK
<1>2. PICK ok \in Results(opened') :
        magic' = (magic \/ ok) /\ lost' = IF ok THEN {} ELSE {"super"}
  OBVIOUS
<1>3. ok \in BOOLEAN
  BY DEF Results
<1>4. magic' \in BOOLEAN /\ lost' \subseteq {"super"} /\ SuperThere'
  BY <1>2, <1>3 DEF TypeOK, SuperThere
<1>5. TypeOK'
  BY <1>1, <1>4 DEF TypeOK
<1>6. Whole'
  BY <1>4 DEF Whole, Formatting
<1>7. Job'
  BY DEF Job, Creating
<1>8. Directory'
  BY DEF Directory, IsFile
<1>9. QED
  BY <1>5, <1>6, <1>7, <1>8

\* The parts that a step leaves on the disk, and does not lose, stay there.
LEMMA PartsStay ==
  ASSUME lost \subseteq lost'
  PROVE  /\ SuperThere /\ magic' = magic => SuperThere'
         /\ BmapThere /\ bmap \subseteq bmap' => BmapThere'
         /\ ImapThere /\ imap \subseteq imap' => ImapThere'
         /\ RootThere /\ UNCHANGED inodes => RootThere'
         /\ DirThere /\ UNCHANGED dentry => DirThere'
<1>1. SuperThere /\ magic' = magic => SuperThere'
  BY DEF SuperThere
<1>2. BmapThere /\ bmap \subseteq bmap' => BmapThere'
  BY DEF BmapThere
<1>3. ImapThere /\ imap \subseteq imap' => ImapThere'
  BY DEF ImapThere
<1>4. RootThere /\ UNCHANGED inodes => RootThere'
  BY DEF RootThere
<1>5. DirThere /\ UNCHANGED dentry => DirThere'
  BY DEF DirThere, RootEntries
<1>6. QED
  BY <1>1, <1>2, <1>3, <1>4, <1>5

\* A disk that is read as formatted is left alone.
LEMMA SkipFormatStep == ASSUME Inv, SkipFormat PROVE Inv'
<1> USE DEF Inv, SkipFormat, disk, history, AlreadyFormatted
<1>1. TypeOK'
  BY DEF TypeOK
<1>2. pc = "idle"
  BY DEF Whole
<1>3. Whole'
  BY <1>2, PartsStay DEF Whole, Formatting
<1>4. Job'
  BY DEF Job, Creating, Entries
<1>5. Directory'
  BY DEF Directory, IsFile
<1>6. QED
  BY <1>1, <1>3, <1>4, <1>5

\* my_mkfs writes the map of blocks.
LEMMA WriteBlockMapStep == ASSUME Inv, WriteBlockMap PROVE Inv'
<1> USE DEF Inv, WriteBlockMap
<1>1. PICK ok \in Results(opened) :
        bmap' = (IF ok THEN {0} ELSE bmap) /\ Note(ok, "bmap")
  OBVIOUS
<1>2. /\ bmap' \subseteq Nat /\ lost \subseteq lost'
      /\ lost' \subseteq {"super", "bmap", "imap", "root", "dir"} /\ BmapThere'
  BY <1>1 DEF Note, TypeOK, BmapThere
<1>3. TypeOK'
  BY <1>2 DEF TypeOK
<1>4. Whole'
  BY <1>2, PartsStay DEF Whole, Formatting
<1>5. Job'
  BY DEF Job, Creating
<1>6. Directory'
  BY DEF Directory, IsFile
<1>7. QED
  BY <1>3, <1>4, <1>5, <1>6

\* my_mkfs writes the map of inodes.
LEMMA WriteInodeMapStep == ASSUME Inv, WriteInodeMap PROVE Inv'
<1> USE DEF Inv, WriteInodeMap, memory
<1>1. PICK ok \in Results(opened) :
        imap' = (IF ok THEN {0, 1} ELSE imap) /\ Note(ok, "imap")
  OBVIOUS
<1>2. /\ imap' \subseteq Nat /\ lost \subseteq lost'
      /\ lost' \subseteq {"super", "bmap", "imap", "root", "dir"} /\ ImapThere'
  BY <1>1 DEF Note, TypeOK, ImapThere
<1>3. TypeOK'
  BY <1>2 DEF TypeOK
<1>4. Whole'
  BY <1>2, PartsStay DEF Whole, Formatting
<1>5. Job'
  BY DEF Job, Creating
<1>6. Directory'
  BY DEF Directory, IsFile
<1>7. QED
  BY <1>3, <1>4, <1>5, <1>6

\* my_mkfs writes the inode of the root.
LEMMA WriteRootStep == ASSUME Inv, WriteRoot PROVE Inv'
<1> USE DEF Inv, WriteRoot, memory
<1> DEFINE node == NodeOf(RootInode, "dir", BLOCK_TABLE_START)
<1>1. RootInode \in Inode /\ BLOCK_TABLE_START \in Block
  BY DEF Inode, Block, BLOCK_TABLE_START
<1>2. PICK ok \in Results(opened) :
        inodes' = (IF ok THEN Written(node) ELSE inodes) /\ Note(ok, "root")
  OBVIOUS
<1>3. /\ lost \subseteq lost'
      /\ lost' \subseteq {"super", "bmap", "imap", "root", "dir"}
  BY <1>2 DEF Note, TypeOK
<1>4. /\ RootThere'
      /\ DOMAIN inodes' \subseteq Inode
      /\ \A m \in DOMAIN inodes' :
           inodes'[m] \in [num : {m}, type : {"file", "dir"}, block : Block]
  <2>1. CASE ok
    BY <1>1, <1>2, <2>1, WrittenType DEF RootThere
  <2>2. CASE ~ ok
    BY <1>2, <2>2 DEF Note, RootThere, TypeOK
  <2>3. QED
    BY <2>1, <2>2
<1>5. TypeOK'
  BY <1>3, <1>4 DEF TypeOK
<1>6. Whole'
  BY <1>3, <1>4, PartsStay DEF Whole, Formatting
<1>7. Job'
  BY DEF Job, Creating
<1>8. Directory'
  BY DEF Directory, IsFile
<1>9. QED
  BY <1>5, <1>6, <1>7, <1>8

\* A directory that has just been formatted has its first two entries only.
LEMMA RootEntriesType ==
  /\ RootEntries \in [Slot -> Dentry]
  /\ \A s \in Slot : /\ RootEntries[s].type # "file"
                     /\ RootEntries[s].inode # 0 <=> s \in {0, 1}
  /\ {0, 1} \subseteq Slot
<1>1. NoDentry \in Dentry /\ NoDentry.inode = 0 /\ NoDentry.type = "none"
  BY DEF NoDentry, Dentry
<1>2. \A n \in {".", ".."} :
        [inode |-> RootInode, type |-> "dir", name |-> n] \in Dentry
  BY DiskAssumption DEF Dentry, Inode
<1>3. \A s \in Slot : s \in Nat /\ (s < 2 <=> s \in {0, 1})
  BY DiskAssumption DEF Slot
<1>4. {0, 1} \subseteq Slot
  BY DiskAssumption DEF Slot
<1>5. \A s \in Slot :
        /\ RootEntries[s] \in Dentry
        /\ RootEntries[s].type # "file"
        /\ RootEntries[s].inode # 0 <=> s < 2
  BY <1>1, <1>2 DEF RootEntries, RootInode
<1>6. RootEntries = [s \in Slot |-> RootEntries[s]]
  BY DEF RootEntries
<1>7. QED
  BY <1>3, <1>4, <1>5, <1>6

\* my_mkfs writes the root's block last.
LEMMA WriteRootBlockStep == ASSUME Inv, WriteRootBlock PROVE Inv'
<1> USE DEF Inv, WriteRootBlock, memory
<1>1. PICK ok \in Results(opened) :
        /\ dentry' = IF ok THEN RootEntries ELSE dentry
        /\ listed' = IF ok THEN {} ELSE listed
        /\ Note(ok, "dir")
  OBVIOUS
<1>2. /\ lost \subseteq lost'
      /\ lost' \subseteq {"super", "bmap", "imap", "root", "dir"}
      /\ listed' \subseteq Name /\ dentry' \in [Slot -> Dentry]
      /\ DirThere'
  BY <1>1, RootEntriesType DEF Note, TypeOK, DirThere, RootEntries
<1>3. TypeOK'
  BY <1>2 DEF TypeOK
<1>4. Whole'
  BY <1>2, PartsStay DEF Whole, Formatting
<1>5. Job'
  BY DEF Job, Creating
<1>6. Directory'
  <2>1. CASE ok
    BY <1>1, <2>1, RootEntriesType DEF Directory, IsFile
  <2>2. CASE ~ ok
    BY <1>1, <2>2 DEF Directory, IsFile
  <2>3. QED
    BY <2>1, <2>2
<1>7. QED
  BY <1>3, <1>4, <1>5, <1>6

-------------------------------------------------------------------------------
(***************************************************************************)
(* my_open, my_close and crashes.                                          *)
(***************************************************************************)

\* Only the descriptors change.
LEMMA DescriptorsStep ==
  ASSUME Inv, fd' \in [0 .. MAX_OPEN_FILES - 1 -> Inode \union {Free, Closed}],
         UNCHANGED <<disk, opened, pc, job, history>>
  PROVE  Inv'
<1> USE DEF Inv, disk, history
<1>1. TypeOK'
  BY DEF TypeOK
<1>2. Whole'
  BY PartsStay DEF Whole, Formatting
<1>3. Job'
  BY DEF Job, Creating, Entries
<1>4. Directory'
  BY DEF Directory, IsFile
<1>5. QED
  BY <1>1, <1>2, <1>3, <1>4

\* What my_open reads as a number is an inode's, or 0.
LEMMA NumberInType ==
  ASSUME TypeOK, NEW n
  PROVE  NumberIn(n) \in Inode \union {Free}
BY DEF TypeOK, NumberIn, Free

\* my_open fills a descriptor that was free.
LEMMA OpensStep ==
  ASSUME Inv, OpenRoot \/ \E n \in Name : OpenFile(n)
  PROVE  Inv'
<1>1. CASE OpenRoot
  BY <1>1, NumberInType, OpenDescriptor, DescriptorsStep DEF OpenRoot, Inv
<1>2. ASSUME NEW n \in Name, OpenFile(n)
      PROVE  Inv'
  BY <1>2, NumberInType, OpenDescriptor, DescriptorsStep DEF OpenFile, Inv
<1>3. QED
  BY <1>1, <1>2

\* my_close empties one descriptor.
LEMMA CloseStep == ASSUME Inv, NEW i \in DOMAIN fd, Close(i) PROVE Inv'
<1>1. fd' \in [0 .. MAX_OPEN_FILES - 1 -> Inode \union {Free, Closed}]
  BY DEF Inv, TypeOK, Close
<1>2. QED
  BY <1>1, DescriptorsStep DEF Close

\* A call on a device that could not be opened.
LEMMA AstrayStep == ASSUME Inv, Astray PROVE Inv'
<1> USE DEF Inv, Astray, disk, memory, history
<1>1. TypeOK'
  BY DEF TypeOK
<1>2. Whole'
  BY PartsStay DEF Whole, Formatting
<1>3. Job'
  BY DEF Job, Creating
<1>4. Directory'
  BY DEF Directory, IsFile
<1>5. QED
  BY <1>1, <1>2, <1>3, <1>4

\* A crash leaves what is on the disk.
LEMMA CrashStep == ASSUME Inv, Crash PROVE Inv'
<1> USE DEF Inv, Crash, disk
<1>1. NoJob \in [name : Name \union {NoName}, slot : 0 .. NoSlot,
                 inode : Inode \union {0}, block : Block \union {0},
                 entered : BOOLEAN]
  BY DiskAssumption DEF NoJob, NoSlot
<1>2. TypeOK'
  BY <1>1 DEF TypeOK
<1>3. Whole'
  BY DEF Whole
<1>4. Job'
  BY DEF Job, Creating
<1>5. Directory'
  BY DEF Directory, IsFile
<1>6. QED
  BY <1>2, <1>3, <1>4, <1>5

-------------------------------------------------------------------------------
(***************************************************************************)
(* my_creat.                                                               *)
(***************************************************************************)
\* The name is free and the entry is chosen.
LEMMA BeginCreateStep ==
  ASSUME Inv, NEW n \in Name, BeginCreate(n) PROVE Inv'
<1> DEFINE slot == ChosenSlot
<1>1. /\ slot \in 0 .. NoSlot
      /\ slot # NoSlot => slot \in Slot /\ dentry[slot].inode = 0
  BY SlotIsEmpty
<1>2. job' = [name |-> n, slot |-> slot, inode |-> 0, block |-> 0,
              entered |-> FALSE]
  BY DEF BeginCreate, NoJob
<1>3. /\ pc = "idle" /\ opened /\ Entries(n) = {}
      /\ pc' = "inode"
      /\ UNCHANGED <<magic, imap, inodes, dentry, opened, fd, listed, lost>>
  BY DEF BeginCreate, NameIsFree, memory, history
<1>4. bmap \subseteq bmap' /\ (Inv => bmap' \subseteq Nat)
  BY NumbersType DEF BeginCreate, Inv, TypeOK
<1> HIDE DEF slot
<1> USE DEF Inv
<1>5. job'.name = n /\ job'.slot = slot
  BY <1>2
<1>6. TypeOK'
  BY <1>1, <1>2, <1>3, <1>4 DEF TypeOK
<1>7. Whole'
  BY <1>3, <1>4, PartsStay DEF Whole, Formatting
<1>8. Job'
  <2>1. (Entries(job.name))' = {}
    BY <1>3, <1>5 DEF Entries
  <2>2. QED
    BY <1>1, <1>3, <1>5, <2>1 DEF Job, Creating
<1>9. Directory'
  BY <1>3 DEF Directory, IsFile
<1>10. QED
  BY <1>6, <1>7, <1>8, <1>9

\* An inode is taken in the map, which never frees one.
LEMMA TakeInodeStep == ASSUME Inv, TakeInode PROVE Inv'
<1> USE DEF Inv, TakeInode, memory, history
<1>1. GetInode \in Inode \ {RootInode} /\ GetInode \in Nat
  BY NumbersType
<1>2. job' = [job EXCEPT !.inode = GetInode]
  OBVIOUS
<1>3. imap \subseteq imap' /\ imap' \subseteq Nat
  BY <1>1 DEF TypeOK
<1>4. TypeOK'
  BY <1>1, <1>3 DEF TypeOK
<1>5. Whole'
  BY <1>3, PartsStay DEF Whole, Formatting
<1>6. job'.name = job.name /\ job'.slot = job.slot /\ job'.inode = GetInode
  BY <1>2 DEF TypeOK
<1>7. Job'
  BY <1>1, <1>6 DEF Job, Creating, Entries
<1>8. Directory'
  BY DEF Directory, IsFile
<1>9. QED
  BY <1>4, <1>5, <1>7, <1>8

\* The entry is written, or not: it was empty, and no other has the name.
LEMMA WriteDentryStep == ASSUME Inv, WriteDentry PROVE Inv'
<1> USE DEF Inv, WriteDentry, memory, history
<1> DEFINE e == [inode |-> job.inode, type |-> "file", name |-> job.name]
<1>1. /\ job.name \in Name /\ job.inode \in Inode \ {RootInode}
      /\ Entries(job.name) = {}
      /\ job.slot \in 0 .. NoSlot
      /\ job.slot # NoSlot => job.slot \in Slot /\ dentry[job.slot].inode = 0
  BY DiskAssumption DEF Job, Creating, TypeOK, Slot, NoSlot
<1>2. e \in Dentry /\ job.inode # 0
  BY <1>1, NumbersType DEF Dentry
<1>3. PICK ok \in Results(opened) :
        /\ dentry' = IF ok /\ job.slot # NoSlot
                     THEN [dentry EXCEPT ![job.slot] = e] ELSE dentry
        /\ job' = [job EXCEPT !.entered = ok /\ HasRoot]
  OBVIOUS
<1>4. /\ job'.name = job.name /\ job'.inode = job.inode
      /\ job' \in [name : Name \union {NoName}, slot : 0 .. NoSlot,
                   inode : Inode \union {0}, block : Block \union {0},
                   entered : BOOLEAN]
  <2>1. (ok /\ HasRoot) \in BOOLEAN
    BY DEF Results, HasRoot
  <2>2. QED
    BY <1>3, <2>1 DEF TypeOK
<1>5. Job'
  BY <1>1, <1>4 DEF Job, Creating
<1>6. CASE ~ (ok /\ job.slot # NoSlot)
  <2>1. dentry' = dentry
    BY <1>3, <1>6
  <2>2. TypeOK'
    BY <1>4, <2>1 DEF TypeOK
  <2>3. Whole'
    BY <2>1, PartsStay DEF Whole, Formatting
  <2>4. Directory'
    BY <2>1 DEF Directory, IsFile
  <2>5. QED
    BY <1>5, <2>2, <2>3, <2>4
<1>7. CASE ok /\ job.slot # NoSlot
  <2>1. /\ dentry' = [dentry EXCEPT ![job.slot] = e]
        /\ job.slot \in Slot /\ dentry[job.slot].inode = 0
    BY <1>1, <1>3, <1>7
  <2>2. /\ e.inode = job.inode /\ e.type = "file" /\ e.name = job.name
    OBVIOUS
  <2> HIDE DEF e
  <2>3. /\ dentry'[job.slot] = e
        /\ \A s \in Slot \ {job.slot} : dentry'[s] = dentry[s]
        /\ dentry' \in [Slot -> Dentry]
    BY <1>2, <2>1 DEF TypeOK
  <2>4. TypeOK'
    BY <1>4, <2>3 DEF TypeOK
  <2>5. DirThere'
    <3>1. DirThere
      BY DEF Whole, Formatting
    <3>2. CASE "dir" \in lost
      BY <3>2 DEF DirThere
    <3>3. CASE \A s \in {0, 1} : dentry[s] = RootEntries[s]
      <4>1. job.slot \notin {0, 1}
        BY <2>1, <3>3, RootEntriesType
      <4>2. \A s \in {0, 1} : dentry'[s] = RootEntries[s]
        BY <2>3, <3>3, <4>1, RootEntriesType
      <4>3. QED
        BY <4>2 DEF DirThere, RootEntries
    <3>4. QED
      BY <3>1, <3>2, <3>3 DEF DirThere
  <2>6. Whole'
    BY <2>5, PartsStay DEF Whole, Formatting
  <2>7. Directory'
    <3>1. \A s \in Slot : dentry'[s].inode # 0 => s \in {0, 1} \/ IsFile(s)'
      BY <2>2, <2>3 DEF Directory, IsFile
    <3>2. \A s \in Slot : IsFile(s)' => dentry'[s].name \in Name /\ dentry'[s].inode # 0
      BY <1>1, <1>2, <2>2, <2>3 DEF Directory, IsFile
    <3>3. \A s \in Slot \ {job.slot} : IsFile(s)' => dentry'[s].name # job.name
      BY <1>1, <2>3 DEF Entries, IsFile
    <3>4. \A s, t \in Slot :
            IsFile(s)' /\ IsFile(t)' /\ dentry'[s].name = dentry'[t].name => s = t
      BY <2>2, <2>3, <3>3 DEF Directory, IsFile
    <3>5. QED
      BY <3>1, <3>2, <3>4 DEF Directory
  <2>8. QED
    BY <1>5, <2>4, <2>6, <2>7
<1>8. QED
  BY <1>6, <1>7

\* my_creat takes a block after the entry is written.
LEMMA TakeBlockStep == ASSUME Inv, TakeBlock PROVE Inv'
<1> USE DEF Inv, TakeBlock, memory, history
<1>1. GetBlock \in Block /\ GetBlock \in Nat
  BY NumbersType
<1>2. bmap \subseteq bmap' /\ bmap' \subseteq Nat
  BY <1>1 DEF TypeOK
<1>3. TypeOK'
  BY <1>1, <1>2 DEF TypeOK
<1>4. /\ job'.name = job.name /\ job'.slot = job.slot /\ job'.inode = job.inode
      /\ job'.block = GetBlock
  BY DEF TypeOK
<1>5. Whole'
  BY <1>2, PartsStay DEF Whole, Formatting
<1>6. Job'
  BY <1>1, <1>4 DEF Job, Creating
<1>7. Directory'
  BY DEF Directory, IsFile
<1>8. QED
  BY <1>3, <1>5, <1>6, <1>7

\* The inode of the new file is written or not, and no other is lost.
LEMMA WriteNodeStep == ASSUME Inv, WriteNode PROVE Inv'
<1> USE DEF Inv, WriteNode, memory, history
<1>1. job.inode \in Inode \ {RootInode} /\ job.block \in Block
  BY DEF Job, Creating
<1>2. PICK ok \in Results(opened) :
        inodes' = IF ok THEN Written(NodeOf(job.inode, "file", job.block)) ELSE inodes
  OBVIOUS
<1>3. /\ RootThere => RootThere'
      /\ DOMAIN inodes' \subseteq Inode
      /\ \A m \in DOMAIN inodes' :
           inodes'[m] \in [num : {m}, type : {"file", "dir"}, block : Block]
  <2>1. CASE ok
    BY <1>1, <1>2, <2>1, WrittenType DEF RootThere
  <2>2. CASE ~ ok
    BY <1>2, <2>2 DEF RootThere, TypeOK
  <2>3. QED
    BY <2>1, <2>2
<1>4. TypeOK'
  BY <1>3 DEF TypeOK
<1>5. Whole'
  BY <1>3, PartsStay DEF Whole, Formatting
<1>6. Job'
  BY DEF Job, Creating
<1>7. Directory'
  BY DEF Directory, IsFile
<1>8. QED
  BY <1>4, <1>5, <1>6, <1>7

\* The new file is opened and my_creat returns.
LEMMA EndCreateStep == ASSUME Inv, EndCreate PROVE Inv'
<1> USE DEF Inv, EndCreate, disk
<1>1. job.inode \in Inode /\ job.name \in Name
  BY DEF Job, Creating
<1>2. fd' \in [0 .. MAX_OPEN_FILES - 1 -> Inode \union {Free, Closed}]
  BY <1>1, OpenDescriptor
<1>3. NoJob \in [name : Name \union {NoName}, slot : 0 .. NoSlot,
                 inode : Inode \union {0}, block : Block \union {0},
                 entered : BOOLEAN]
  BY DiskAssumption DEF NoJob, NoSlot
<1>4. TypeOK'
  BY <1>1, <1>2, <1>3 DEF TypeOK
<1>5. Whole'
  BY PartsStay DEF Whole, Formatting
<1>6. Job'
  BY DEF Job, Creating
<1>7. Directory'
  BY DEF Directory, IsFile
<1>8. QED
  BY <1>4, <1>5, <1>6, <1>7

\* One case for each action.
LEMMA InvNext == Inv /\ [Next]_vars => Inv'
<1> SUFFICES ASSUME Inv, [Next]_vars PROVE Inv'
  OBVIOUS
<1>1. CASE Format
  BY <1>1, WriteSuperStep, SkipFormatStep, WriteBlockMapStep, WriteInodeMapStep,
     WriteRootStep, WriteRootBlockStep DEF Format
<1>2. CASE Create
  BY <1>2, BeginCreateStep, TakeInodeStep, WriteDentryStep, TakeBlockStep,
     WriteNodeStep, EndCreateStep DEF Create
<1>3. CASE OpenRoot \/ \E n \in Name : OpenFile(n)
  BY <1>3, OpensStep
<1>4. CASE \E i \in DOMAIN fd : Close(i)
  BY <1>4, CloseStep
<1>5. CASE Astray \/ Crash
  BY <1>5, AstrayStep, CrashStep
<1>6. CASE UNCHANGED vars
  <2>1. fd' \in [0 .. MAX_OPEN_FILES - 1 -> Inode \union {Free, Closed}]
    BY <1>6 DEF Inv, TypeOK, vars, memory
  <2>2. UNCHANGED <<disk, opened, pc, job, history>>
    BY <1>6 DEF vars, memory
  <2>3. QED
    BY <2>1, <2>2, DescriptorsStep
<1>7. QED
  BY <1>1, <1>2, <1>3, <1>4, <1>5, <1>6 DEF Next

\* Every state of the disk and of the descriptors satisfies the invariant.
LEMMA Invariance == Spec => []Inv
BY InitInv, InvNext, PTL DEF Spec

-------------------------------------------------------------------------------
\* The disk, the descriptors and the locals of the call in progress keep their
\* types, over every sequence of calls, failing writes and crashes.
THEOREM TypeCorrect == Spec => []TypeOK
<1>1. Inv => TypeOK
  BY DEF Inv
<1>2. QED
  BY <1>1, Invariance, PTL

\* When my_mkfs has returned, the super block, both maps, the root's inode and
\* its two entries are each on the disk or were not written by this very format,
\* however many formats a crash cut short: an older disk is never taken for whole.
THEOREM FormatCompletes == Spec => []FormattedIsWhole
<1>1. Inv => FormattedIsWhole
  <2>1. SUFFICES ASSUME Inv, Formatted PROVE FormattedIsWhole
    BY DEF FormattedIsWhole
  <2>2. SuperThere /\ BmapThere /\ ImapThere /\ RootThere /\ DirThere
    BY <2>1 DEF Formatted, Formatting, Inv, Whole
  <2>3. QED
    BY <2>2 DEF FormattedIsWhole, SuperThere, BmapThere, ImapThere, RootThere,
       DirThere, HasRoot
<1>2. QED
  BY <1>1, Invariance, PTL

\* my_creat never lists two files of one name.
THEOREM NamesAreUnique == Spec => []NamesUnique
<1>1. Inv => NamesUnique
  <2>1. SUFFICES ASSUME Inv, NEW n \in Name
                 PROVE  Cardinality(Entries(n)) <= 1
    BY DEF NamesUnique
  <2>2. \A s, t \in Entries(n) : s = t
    BY <2>1 DEF Inv, Directory, IsFile, Entries
  <2>3. Entries(n) = {} \/ \E s : Entries(n) = {s}
    BY <2>2
  <2>4. Cardinality(Entries(n)) \in {0, 1}
    BY <2>3, FS_EmptySet, FS_Singleton
  <2>5. QED
    BY <2>4
<1>2. QED
  BY <1>1, Invariance, PTL

\* A descriptor keeps its inode until it is closed, or the process formats the
\* disk or dies: opening a file takes a descriptor that nobody holds.
THEOREM DescriptorsAreKept == Spec => DescriptorsKept
<1> DEFINE Kept == \A i \in DOMAIN fd :
                     fd[i] \in Inode /\ fd'[i] # fd[i] =>
                       fd'[i] = Closed \/ pc' = "start"
<1>1. ASSUME Inv, Next PROVE Kept
  <2>1. CASE Format
    <3>1. WriteBlockMap => Kept
      BY DEF WriteBlockMap, Inv, TypeOK
    <3>2. QED
      BY <2>1, <3>1 DEF Format, WriteSuper, SkipFormat, WriteInodeMap, WriteRoot,
         WriteRootBlock, memory
  <2>2. CASE Create
    <3>1. CASE EndCreate
      <4>1. job.inode \in Inode
        BY <1>1, <3>1 DEF Inv, Job, Creating, EndCreate
      <4>2. QED
        BY <1>1, <3>1, <4>1, OpenDescriptor DEF Inv, EndCreate
    <3>2. QED
      BY <2>2, <3>1 DEF Create, BeginCreate, TakeInode, WriteDentry, TakeBlock,
         WriteNode, memory
  <2>3. CASE OpenRoot
    BY <1>1, <2>3, NumberInType, OpenDescriptor DEF OpenRoot, Inv
  <2>4. ASSUME NEW n \in Name, OpenFile(n) PROVE Kept
    BY <1>1, <2>4, NumberInType, OpenDescriptor DEF OpenFile, Inv
  <2>5. CASE \E i \in DOMAIN fd : Close(i)
    BY <1>1, <2>5 DEF Close, Inv, TypeOK
  <2>6. CASE Astray \/ Crash
    BY <2>6 DEF Astray, Crash, memory
  <2>7. QED
    BY <1>1, <2>1, <2>2, <2>3, <2>4, <2>5, <2>6 DEF Next
<1>2. Inv /\ [Next]_vars => [Kept]_vars
  BY <1>1
<1>3. QED
  BY <1>2, Invariance, PTL DEF Spec, DescriptorsKept

-------------------------------------------------------------------------------
(***************************************************************************)
(* A created file stays listed.  The directory must have room: a file whose *)
(* entry goes past the block is not on the disk.                           *)
(***************************************************************************)
Room == IsFiniteSet(Name) /\ Cardinality(Name) + 2 <= DENTRIES

\* What my_creat has entered for the file it is creating.
Entered ==
  /\ pc \in {"inode", "entry"} /\ HasRoot => job.slot \in Slot
  /\ pc \in {"block", "node", "open"} /\ job.entered =>
       job.slot \in Slot /\ job.slot \in Entries(job.name)

ListedInv == Inv /\ Entered /\ CreatedIsListed

\* A directory that has room for every name has an empty entry while one of
\* them is free: entries and names of files correspond.
LEMMA RoomForOne ==
  ASSUME Room, Inv, NEW n \in Name, Entries(n) = {}
  PROVE  EmptySlots # {}
<1> SUFFICES ASSUME EmptySlots = {} PROVE FALSE
  OBVIOUS
<1> DEFINE S == 2 .. DENTRIES - 1
           T == Name \ {n}
           f == [s \in S |-> dentry[s].name]
<1>1. IsFiniteSet(S) /\ Cardinality(S) = DENTRIES - 2
  BY FS_Interval, DiskAssumption
<1>2. IsFiniteSet(T) /\ Cardinality(T) = Cardinality(Name) - 1
  BY FS_RemoveElement DEF Room
<1>3. \A s \in S : s \in Slot /\ s \notin {0, 1}
  BY DiskAssumption DEF Slot
<1>4. \A s \in S : IsFile(s) /\ dentry[s].name \in T
  BY <1>3 DEF EmptySlots, Inv, Directory, Entries, IsFile
<1>5. Cardinality(T) < Cardinality(S)
  <2>1. Cardinality(Name) \in Nat
    BY FS_CardinalityType DEF Room
  <2>2. QED
    BY <1>1, <1>2, <2>1, DiskAssumption DEF Room
<1>6. f \in [S -> T]
  BY <1>4
<1> HIDE DEF S, T
<1>7. \E x, y \in S : x # y /\ f[x] = f[y]
  <2> HIDE DEF f
  <2>1. QED
    BY <1>1, <1>2, <1>5, <1>6, FS_PigeonHole
<1>8. QED
  BY <1>3, <1>4, <1>7 DEF Inv, Directory

\* No name has been created at the start.
LEMMA ListedInit == Init => ListedInv
<1>1. Init => Entered /\ CreatedIsListed
  BY DEF Init, Entered, CreatedIsListed
<1>2. QED
  BY <1>1, InitInv DEF ListedInv

\* my_mkfs, my_open, my_close and a crash leave the entries, but for the block of
\* the directory that ends a format.
LEMMA ListedOthers ==
  ASSUME ListedInv,
         \/ Format \/ OpenRoot \/ \E n \in Name : OpenFile(n)
         \/ \E i \in DOMAIN fd : Close(i)
         \/ Astray \/ Crash \/ UNCHANGED vars
  PROVE  Entered' /\ CreatedIsListed'
<1>1. CASE WriteRootBlock
  <2>1. listed' = {} \/ UNCHANGED <<listed, dentry>>
    BY <1>1 DEF WriteRootBlock
  <2>2. QED
    BY <1>1, <2>1 DEF WriteRootBlock, ListedInv, Entered, CreatedIsListed, Entries
<1>2. CASE \/ WriteSuper \/ SkipFormat \/ WriteBlockMap \/ WriteInodeMap \/ WriteRoot
           \/ OpenRoot \/ \E n \in Name : OpenFile(n)
           \/ \E i \in DOMAIN fd : Close(i)
           \/ Astray \/ Crash \/ UNCHANGED vars
  <2>1. /\ UNCHANGED <<dentry, listed>>
        /\ pc' \notin Creating \/ UNCHANGED <<inodes, pc, job>>
    BY <1>2 DEF WriteSuper, SkipFormat, WriteBlockMap, WriteInodeMap, WriteRoot,
       OpenRoot, OpenFile, Close, Astray, Crash, vars, disk, history, Creating
  <2>2. CreatedIsListed'
    BY <2>1 DEF ListedInv, CreatedIsListed, Entries
  <2>3. Entered'
    BY <2>1 DEF ListedInv, Entered, Entries, Creating, HasRoot
  <2>4. QED
    BY <2>2, <2>3
<1>3. QED
  BY <1>1, <1>2 DEF Format

\* my_creat fills an empty entry, and lists the file last.
LEMMA ListedCreate ==
  ASSUME Room, ListedInv, Create
  PROVE  Entered' /\ CreatedIsListed'
<1> USE DEF ListedInv
<1>1. ASSUME NEW n \in Name, BeginCreate(n)
      PROVE  Entered' /\ CreatedIsListed'
  <2>1. /\ Entries(n) = {} /\ pc' = "inode"
        /\ job'.slot = ChosenSlot
        /\ UNCHANGED <<inodes, dentry, listed>>
    BY <1>1 DEF BeginCreate, NameIsFree, NoJob, history
  <2>2. EmptySlots # {}
    BY <2>1, RoomForOne
  <2>3. HasRoot => ChosenSlot \in Slot
    BY <2>2, SlotIsEmpty
  <2>4. Entered'
    BY <2>1, <2>3 DEF Entered, HasRoot, Slot
  <2>5. CreatedIsListed'
    BY <2>1 DEF CreatedIsListed, Entries
  <2>6. QED
    BY <2>4, <2>5
<1>2. CASE TakeInode
  <2>1. job'.slot = job.slot /\ pc = "inode" /\ pc' = "entry"
        /\ UNCHANGED <<inodes, dentry, listed>>
    BY <1>2 DEF TakeInode, Inv, TypeOK, history
  <2>2. QED
    BY <2>1 DEF Entered, HasRoot, Slot, CreatedIsListed, Entries
<1>3. CASE WriteDentry
  <2> DEFINE e == [inode |-> job.inode, type |-> "file", name |-> job.name]
  <2>1. PICK ok \in Results(opened) :
          /\ dentry' = IF ok /\ job.slot # NoSlot
                       THEN [dentry EXCEPT ![job.slot] = e] ELSE dentry
          /\ job' = [job EXCEPT !.entered = ok /\ HasRoot]
    BY <1>3 DEF WriteDentry
  <2>2. pc = "entry" /\ pc' = "block" /\ UNCHANGED <<inodes, listed>>
    BY <1>3 DEF WriteDentry, history
  <2>3. /\ job'.slot = job.slot /\ job'.name = job.name
        /\ job'.entered = (ok /\ HasRoot)
    BY <2>1 DEF Inv, TypeOK
  <2>4. e.type = "file" /\ e.name = job.name
    OBVIOUS
  <2> HIDE DEF e
  <2>5. CASE ~ (ok /\ job.slot # NoSlot)
    <3>1. dentry' = dentry
      BY <2>1, <2>5
    <3>2. HasRoot => job.slot # NoSlot
      BY <2>2, DiskAssumption DEF Entered, Slot, NoSlot
    <3>3. ~ (ok /\ HasRoot)
      BY <2>5, <3>2
    <3>4. ~ job'.entered
      BY <2>3, <3>3, Zenon
    <3>5. QED
      BY <2>2, <3>1, <3>4 DEF Entered, CreatedIsListed, Entries
  <2>6. CASE ok /\ job.slot # NoSlot
    <3>1. /\ dentry' = [dentry EXCEPT ![job.slot] = e]
          /\ dentry[job.slot].inode = 0 /\ job.slot \in Slot
      BY <2>1, <2>2, <2>6, DiskAssumption DEF Inv, TypeOK, Job, Slot, NoSlot
    <3>2. /\ dentry'[job.slot] = e
          /\ \A s \in Slot \ {job.slot} : dentry'[s] = dentry[s]
      BY <3>1 DEF Inv, TypeOK
    <3>3. Entered'
      BY <2>2, <2>3, <2>4, <3>1, <3>2 DEF Entered, Entries, Slot
    <3>4. \A n \in listed : Entries(n) \subseteq Entries(n)'
      BY <3>1, <3>2 DEF Inv, Directory, IsFile, Entries
    <3>5. CreatedIsListed'
      BY <2>2, <3>4 DEF CreatedIsListed
    <3>6. QED
      BY <3>3, <3>5
  <2>7. QED
    BY <2>5, <2>6
<1>4. CASE TakeBlock
  <2>1. /\ job'.slot = job.slot /\ job'.entered = job.entered /\ job'.name = job.name
        /\ pc = "block" /\ pc' = "node"
        /\ UNCHANGED <<dentry, listed>>
    BY <1>4 DEF TakeBlock, Inv, TypeOK, history
  <2>2. QED
    BY <2>1 DEF Entered, Slot, CreatedIsListed, Entries
<1>5. CASE WriteNode
  <2>1. /\ pc = "node" /\ pc' = "open"
        /\ UNCHANGED <<dentry, job, listed>>
    BY <1>5 DEF WriteNode, history
  <2>2. QED
    BY <2>1 DEF Entered, Slot, CreatedIsListed, Entries
<1>6. CASE EndCreate
  <2>1. /\ pc = "open" /\ pc' = "idle" /\ UNCHANGED dentry
        /\ listed' = IF job.entered THEN listed \union {job.name} ELSE listed
    BY <1>6 DEF EndCreate, disk
  <2>2. job.entered => Entries(job.name) # {}
    BY <2>1 DEF Entered
  <2>3. \A n \in listed' : Entries(n) # {}
    BY <2>1, <2>2 DEF CreatedIsListed
  <2>4. CreatedIsListed'
    BY <2>1, <2>3 DEF CreatedIsListed, Entries
  <2>5. QED
    BY <2>1, <2>4 DEF Entered
<1>7. QED
  BY <1>1, <1>2, <1>3, <1>4, <1>5, <1>6 DEF Create

\* A file whose entry my_creat has written stays in the directory until the
\* directory is formatted, whichever writes fail; the directory must have room
\* for every name.
THEOREM CreatedStays == Room /\ Spec => []CreatedIsListed
<1>1. (Room /\ ListedInv) /\ [Next]_vars => (Room /\ ListedInv)'
  <2>1. SUFFICES ASSUME Room, ListedInv, [Next]_vars PROVE ListedInv'
    BY DEF Room
  <2>2. Inv'
    BY <2>1, InvNext DEF ListedInv
  <2>3. Entered' /\ CreatedIsListed'
    BY <2>1, ListedOthers, ListedCreate DEF Next
  <2>4. QED
    BY <2>2, <2>3 DEF ListedInv
<1>2. ListedInv => CreatedIsListed
  BY DEF ListedInv
<1>3. QED
  BY <1>1, <1>2, ListedInit, PTL DEF Spec
===============================================================================
