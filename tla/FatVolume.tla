------------------------------ MODULE FatVolume ------------------------------
(***************************************************************************)
(* The FAT file system of kernel/fs/fat.c on a FAT12 volume: the FAT in    *)
(* memory and on the device, one directory, the files that are open, and   *)
(* the modes in which vfs.c opened them.  Which bytes of which clusters a  *)
(* transfer moves is modelled, what is in them is not.                     *)
(*                                                                         *)
(* The directory is in the root directory, and its cluster holds Slots     *)
(* entries; the other clusters hold ClusterSize bytes each.  Cluster 0,    *)
(* where a file without clusters begins, is the last block of the root     *)
(* directory (fat_cluster2block); what is in it is not modelled.  One call *)
(* runs at a time: the code has no lock.                                   *)
(*                                                                         *)
(* A call that leaves the code without a meaning stops the model: status   *)
(* says whether it left a buffer, overwrote the directory with data, or    *)
(* used a volume that is not mounted any more.                             *)
(***************************************************************************)
EXTENDS Integers

CONSTANTS Name,         \* names of files
          DirName,      \* the name of the directory
          Prefix,       \* pairs of names of which one begins with the other
          Clusters,     \* total_clusters
          ClusterSize,  \* bytes in a cluster
          Slots,        \* entries in a cluster
          DirCluster,   \* start_cluster of the directory
          FatBytes,     \* fat_size
          Images,       \* volumes that may be mounted: a FAT and a directory
          Garbage,      \* what memory that held no FAT_FILE may read as one
          Sizes,        \* numbers of bytes that are read or written
          Offsets,      \* offsets of a seek
          Modes,        \* modes of vfs_open
          Word,         \* numbers of 32 bits
          MaxSize,      \* bound on the size of a file
          MaxOpen       \* bound on the files that are open

Cluster == 0 .. Clusters - 1
Byte    == 0 .. 255

Null    == "null"     \* name[0] is 0x00: no entry here, nor behind it
Deleted == "deleted"  \* FAT_ENTRY_DELETED
NoEntry == [name |-> Null, archive |-> FALSE, start |-> 0, size |-> 0]
Entry   == [name : Name \union {Null, Deleted}, archive : BOOLEAN,
            start : Cluster, size : Nat]

\* struct FAT_FILE, but for its position.  dir is dir_cluster.
FatFile == [entry : Entry, dir : Cluster, index : 1 .. Slots]

ASSUME VolumeAssumption ==
  /\ DirName \in Name /\ {Null, Deleted} \intersect Name = {}
  /\ Clusters \in 2 .. 4084                          \* fat_determineType: FAT12
  /\ DirCluster \in Cluster \ {0}
  /\ FatBytes \in Nat /\ 3 * Clusters < 2 * FatBytes
  /\ {ClusterSize, Slots, Word, MaxSize} \subseteq Nat \ {0} /\ MaxSize < Word
  /\ Modes \subseteq (SUBSET {"read", "write", "truncate"}) \ {{}}
  /\ MaxOpen \in Nat /\ Offsets \subseteq 0 .. Word - 1
  /\ Sizes \subseteq 1 .. Word - 1
  /\ Images \subseteq [fat : [0 .. FatBytes - 1 -> Byte], dir : [1 .. Slots -> Entry]]
  /\ Garbage \subseteq FatFile

Free == 0    \* FAT_FREECLUSTER
Fail == -1   \* FAIL
Wild == -2   \* what is read behind the end of fat_data

\* The FAT_FILE of entry i of the directory.
File(e, i) == [entry |-> e, dir |-> DirCluster, index |-> i]
Zeros      == [entry |-> NoEntry, dir |-> 0, index |-> 1]

\* A handle is a FAT_FILE, with its position, and the mode of its VFS_HANDLE;
\* {} when it is closed.
AppendMode == {"read", "truncate"}   \* VFS_MODE_APPEND is 9
Handle == 1 .. MaxOpen
Opened(f, m) == [entry |-> f.entry, dir |-> f.dir, index |-> f.index, pos |-> 0,
                 mode |-> m]
Closed == Opened(Zeros, {})

VARIABLES fat,      \* mount->fat_data
          fatDisk,  \* the FAT on the device
          dir,      \* the entries in the directory's cluster
          open,     \* the handles
          io,       \* the fat_rw in progress
          stale,    \* the FAT_FILE freed before that mm_kmalloc may find again
          status    \* "ok", or why the volume is not to be trusted any more

vars   == <<fat, fatDisk, dir, open, io, stale, status>>
fats   == <<fat, fatDisk>>
volume == <<fat, fatDisk, dir>>

NoIo == [kind |-> "none"]
Io   == [kind : {"read", "write"}, h : Handle, at : Int, offset : Nat,
         left : Nat, done : Nat]

Init ==
  /\ \E m \in Images : fat = m.fat /\ fatDisk = m.fat /\ dir = m.dir
  /\ open = [h \in Handle |-> Closed]
  /\ io = NoIo /\ stale = Zeros /\ status = "ok"

Idle  == status = "ok" /\ io = NoIo

\* What the kernel's memory holds does not count any more.
Stops(why) ==
  /\ status' = why /\ open' = [h \in Handle |-> Closed] /\ io' = NoIo /\ stale' = Zeros
  /\ UNCHANGED volume

-------------------------------------------------------------------------------
(***************************************************************************)
(* The FAT.  Entries have 12 bits: two bytes are read to get one, and one  *)
(* byte is written to set one.                                             *)
(***************************************************************************)
At(c)    == (3 * c) \div 2
InFat(c) == At(c) + 1 < FatBytes

\* Altered form: all 12 bits are put where there is room for a byte.
SetWide(f, c, v) == [f EXCEPT ![At(c)] = IF v = Fail THEN 4095 ELSE v]

\* fat_setFATCluster, of a cluster or of FAT_ENDOFCLUSTER.
Set(f, c, v) == [f EXCEPT ![At(c)] = IF v = Fail THEN 255 ELSE v % 256]

\* fat_getFATCluster.
Get(f, c) ==
  LET w == f[At(c)] + 256 * f[At(c) + 1]
      v == IF c % 2 = 1 THEN w \div 16 ELSE w % 4096
  IN  IF v = 4095 THEN Fail ELSE v

\* fat_getFreeCluster.
FreeCluster(f) ==
  IF \E c \in Cluster : Get(f, c) = Free
  THEN CHOOSE c \in Cluster : Get(f, c) = Free /\ \A d \in 0 .. c - 1 : Get(f, d) # Free
  ELSE Fail

\* The cluster behind c in its chain, as the loops of fat_rw test it.
After(f, c) ==
  IF ~ InFat(c) THEN Wild ELSE LET n == Get(f, c) IN IF n = Free THEN Fail ELSE n

\* The first loop of fat_rw: i clusters along the chain from c.
Along(f, c, i) ==
  LET walk[k \in 0 .. i] ==
        IF k = 0 THEN c
        ELSE IF walk[k - 1] < 0 THEN walk[k - 1] ELSE After(f, walk[k - 1])
  IN  walk[i]

\* The second loop of fat_rw: n times, the first free cluster behind the last.
Links(f, c, n) ==
  LET linked[j \in 0 .. n] ==
        IF j = 0 THEN [fat |-> f, last |-> c, full |-> FALSE]
        ELSE LET g == linked[j - 1]
                 x == FreeCluster(g.fat)
             IN  IF g.full \/ x = Fail THEN [g EXCEPT !.full = TRUE]
                 ELSE [fat |-> Set(g.fat, g.last, x), last |-> x, full |-> FALSE]
  IN  linked[n]

\* The growth of a file: n clusters are linked behind c, or as many as there
\* are free, and the last one ends the chain.
Grown(f, c, n) ==
  LET g == Links(f, c, n)
  IN  IF g.full THEN g ELSE [g EXCEPT !.fat = Set(g.fat, g.last, Fail)]

-------------------------------------------------------------------------------
(***************************************************************************)
(* The directory.                                                          *)
(***************************************************************************)
\* fat_compareName.  The end of the name that is sought is not looked at.
Matches(e, n) == e.name = n \/ <<e.name, n>> \in Prefix

\* The entries before the first one that is null, as loops that stop there
\* see them.
Scanned(d) == {i \in 1 .. Slots : \A j \in 1 .. i : d[j].name # Null}

\* fat_getIndex: the first entry of that name, or none.
Named(d, n) ==
  {i \in Scanned(d) : /\ d[i].name # Deleted
                      /\ d[i].start # Free \/ d[i].archive
                      /\ Matches(d[i], n)}
Finds(d, n, i) == i \in Named(d, n) /\ \A j \in Named(d, n) : i <= j
Missing(d, n)  == Named(d, n) = {}

\* fat_updateFileEntry, of an entry that has its place, in whatever cluster:
\* what another one holds, and for 0 the root directory, is not modelled.
Updated(d, f) == IF f.dir = DirCluster THEN [d EXCEPT ![f.index] = f.entry] ELSE d

\* mm_kfree of a FAT_FILE: its block may be the one that is taken next.  What
\* other blocks leave for a FAT_FILE to find is in Garbage.
Release(f) == stale' \in {stale, [entry |-> f.entry, dir |-> f.dir, index |-> f.index]}

\* fat_create, of a name that is not found: fat_file2entry has cut the path
\* behind its first part, and the entry gets the name of the directory.
NewEntry == [name |-> DirName, archive |-> TRUE, start |-> Free, size |-> 0]

\* Altered form: the place of a deleted entry is taken again.
CreateInDeleted(n) ==
  /\ Idle /\ Missing(dir, n)
  /\ \E i \in 1 .. Slots :
       /\ i - 1 \in Scanned(dir) \union {0} /\ dir[i].name \in {Null, Deleted}
       /\ dir' = [dir EXCEPT ![i] = NewEntry]
       /\ Release(File(NewEntry, i))
  /\ UNCHANGED <<fats, open, io, status>>

Create(n) ==
  /\ Idle /\ Missing(dir, n)
  /\ \E i \in 1 .. Slots :
       /\ i - 1 \in Scanned(dir) \union {0} /\ i \notin Scanned(dir)
       /\ dir' = IF i = Slots THEN dir
                 ELSE [dir EXCEPT ![i] = NewEntry, ![i + 1] = [@ EXCEPT !.name = Null]]
       /\ Release(File(NewEntry, i))
  /\ UNCHANGED <<fats, open, io, status>>

\* A directory without a null entry: the new one is copied behind the buffer.
CreateInFull(n) ==
  /\ Idle /\ Missing(dir, n) /\ Slots \in Scanned(dir)
  /\ Stops("overrun")

\* fat_delete.  The new size is written with the name, unless it is the old one.
Delete(n) ==
  /\ Idle
  /\ \E i \in 1 .. Slots :
       /\ Finds(dir, n, i)
       /\ LET f == File([dir[i] EXCEPT !.name = Deleted, !.size = 0], i)
          IN  /\ dir' = IF dir[i].size = 0 THEN dir ELSE Updated(dir, f)
              /\ Release(f)
  /\ UNCHANGED <<fats, open, io, status>>

\* fat_rename.  Whether there is a file of the new name is not asked.
Rename(n, m) ==
  /\ Idle
  /\ \E i \in 1 .. Slots :
       /\ Finds(dir, n, i)
       /\ LET f == File([dir[i] EXCEPT !.name = m], i) IN dir' = Updated(dir, f) /\ Release(f)
  /\ UNCHANGED <<fats, open, io, status>>

-------------------------------------------------------------------------------
(***************************************************************************)
(* Opening, closing, and the position of a file.                           *)
(***************************************************************************)
\* vfs_open of a file that is there: fat_open takes SUCCESS, which is 0, for
\* NULL, and frees what it has read.
OpenFound(n) ==
  /\ Idle
  /\ \E i \in 1 .. Slots : Finds(dir, n, i) /\ Release(File(dir[i], i))
  /\ UNCHANGED <<volume, open, io, status>>

\* fat_setFileSize of an open file: a new size is written to its directory.
Resized(f, s) == [f EXCEPT !.entry = [@ EXCEPT !.size = s]]

Moved(f, p) == [f EXCEPT !.pos = p]

\* vfs_open of a file that is not there: the FAT_FILE of the handle is what
\* its block held before, as a FAT_FILE or as anything else.  The test for
\* VFS_MODE_TRUNCATE is a test for VFS_MODE_READ ("&" binds less than "==").
OpenMissing(n, h, m) ==
  /\ Idle /\ Missing(dir, n)
  /\ open[h] = Closed /\ \A g \in 1 .. h - 1 : open[g] # Closed
  /\ \E found \in {stale} \union Garbage :
     LET f == Opened(found, m)
         g == IF "read" \in m THEN Resized(f, 0) ELSE f
     IN  /\ open' = [open EXCEPT ![h] = g]
         /\ dir' = IF g.entry = f.entry THEN dir ELSE Updated(dir, g)
  /\ UNCHANGED <<fats, io, stale, status>>

Close(h) ==
  /\ Idle /\ open[h] # Closed
  /\ open' = [open EXCEPT ![h] = Closed]
  /\ Release(open[h])
  /\ UNCHANGED <<volume, io, status>>

\* fat_seek, to p in 32 bits without sign.
Seek(h, p) ==
  /\ Idle /\ open[h] # Closed
  /\ p % Word <= open[h].entry.size
  /\ open' = [open EXCEPT ![h] = Moved(@, p % Word)]
  /\ UNCHANGED <<volume, io, stale, status>>

\* vfs_unmount and vfs_mount.  Open files keep a pointer to what is freed.
Remount ==
  /\ Idle
  /\ IF \A h \in Handle : open[h] = Closed
     THEN fat' = fatDisk /\ UNCHANGED <<fatDisk, dir, open, io, stale, status>>
     ELSE Stops("dangling")

-------------------------------------------------------------------------------
(***************************************************************************)
(* fat_rw: the cluster of the position is sought, a write that goes past   *)
(* the end of the file adds clusters, and the bytes are moved cluster by   *)
(* cluster.                                                                *)
(***************************************************************************)
Start(h) == Along(fat, open[h].entry.start, open[h].pos \div ClusterSize)

Starts(k, h, n) ==
  io' = [kind |-> k, h |-> h, at |-> Start(h), offset |-> open[h].pos % ClusterSize,
         left |-> n, done |-> 0]

\* Altered form: the size is not reduced at the end of the file.
BeginReadPastEnd(h, n) ==
  /\ Idle /\ "read" \in open[h].mode /\ Start(h) >= 0
  /\ Starts("read", h, n)
  /\ UNCHANGED <<volume, open, stale, status>>

\* current_pos + size, and what there is behind the position, as DWORDs.
EndOf(h, n) == (open[h].pos + n) % Word
Rest(h)     == (open[h].entry.size - open[h].pos) % Word

BeginRead(h, n) ==
  /\ Idle /\ "read" \in open[h].mode /\ Start(h) >= 0
  /\ Starts("read", h, IF EndOf(h, n) > open[h].entry.size THEN Rest(h) ELSE n)
  /\ UNCHANGED <<volume, open, stale, status>>

\* The chain leads out of the FAT.
BeginWild(h) ==
  /\ Idle /\ open[h] # Closed /\ Start(h) = Wild
  /\ Stops("overrun")

CanWrite(h, n) ==
  /\ Idle /\ "write" \in open[h].mode /\ Start(h) >= 0
  /\ EndOf(h, n) <= MaxSize   \* bound: files are small

BeginOverwrite(h, n) ==
  /\ CanWrite(h, n) /\ EndOf(h, n) <= open[h].entry.size
  /\ Starts("write", h, n)
  /\ UNCHANGED <<volume, open, stale, status>>

\* Altered form: the FAT is not written to the device.
CommitNothing(g) == fat' = g.fat /\ UNCHANGED fatDisk

\* fat_setFATCluster commits with the end of the chain, which is not reached
\* when there is no free cluster left.
Commit(g) ==
  /\ fat' = g.fat
  /\ fatDisk' = IF g.full THEN fatDisk ELSE g.fat

BeginAppend(h, n) ==
  /\ CanWrite(h, n) /\ EndOf(h, n) > open[h].entry.size
  /\ IF ~ InFat(Start(h)) THEN Stops("overrun")
     ELSE LET g == Grown(fat, Start(h), n \div ClusterSize + 1) IN
          /\ Commit(g)
          /\ IF g.full THEN UNCHANGED io ELSE Starts("write", h, n)
          /\ UNCHANGED <<dir, open, stale, status>>

\* The bytes that one turn of the loop moves, of those that are left.
Chunk(p, offset, left) ==
  LET most == IF left > ClusterSize THEN ClusterSize ELSE left
      end  == (p \div ClusterSize + 1) * ClusterSize
  IN  IF offset + most > end THEN left - (offset + most - end) ELSE most

Moving == status = "ok" /\ io # NoIo /\ io.left > 0

\* What io is after a turn that moved n bytes.  Altered form: the next cluster
\* is entered where this one was.
TurnedInside(n) ==
  [kind |-> io.kind, h |-> io.h,
   at |-> IF n = io.left THEN Fail ELSE After(fat, io.at), offset |-> io.offset,
   left |-> io.left - n, done |-> io.done + n]

Turned(n) ==
  [kind |-> io.kind, h |-> io.h,
   at |-> IF n = io.left THEN Fail ELSE After(fat, io.at), offset |-> 0,
   left |-> io.left - n, done |-> io.done + n]

\* One turn of the loop.  The FAT holds every cluster, so the next one of a
\* chain is read from it; the data goes to the cluster wherever that is, and the
\* model stops when that is the directory's.
Transfer ==
  /\ Moving /\ io.at \in Cluster
  /\ LET n == Chunk(open[io.h].pos, io.offset, io.left) IN
     \/ /\ io.offset + n > ClusterSize
        /\ Stops("overrun")
     \/ /\ io.offset + n <= ClusterSize
        /\ io.kind = "write" /\ io.at = DirCluster
        /\ Stops("crossed")
     \/ /\ io.offset + n <= ClusterSize
        /\ io.kind = "read" \/ io.at # DirCluster
        /\ io' = Turned(n)
        /\ UNCHANGED <<volume, open, stale, status>>

\* All is moved, the chain is at its end, or the device has no such cluster
\* and vfs_seek fails.
Ended ==
  /\ status = "ok" /\ io # NoIo
  /\ io.left = 0 \/ io.at \notin Cluster
  /\ io' = NoIo

Position == open[io.h].pos + io.done

EndRead ==
  /\ Ended /\ io.kind = "read"
  /\ open' = [open EXCEPT ![io.h] = Moved(@, Position)]
  /\ UNCHANGED <<volume, stale, status>>

\* fat_write: the entry gets the new size when the file has grown; vfs_write in
\* append mode goes to the end of the file afterwards.
EndWrite ==
  /\ Ended /\ io.kind = "write"
  /\ LET f == open[io.h]
         g == IF Position > f.entry.size THEN Resized(f, Position) ELSE f
         p == IF AppendMode \subseteq f.mode THEN g.entry.size ELSE Position
     IN  /\ open' = [open EXCEPT ![io.h] = Moved(g, p)]
         /\ dir' = IF g.entry = f.entry THEN dir ELSE Updated(dir, g)
  /\ UNCHANGED <<fats, stale, status>>

-------------------------------------------------------------------------------
Halted == status # "ok" /\ UNCHANGED vars

Next ==
  \/ \E n \in Name :
       \/ Create(n) \/ CreateInFull(n) \/ Delete(n) \/ OpenFound(n)
       \/ \E m \in Name : Rename(n, m)
       \/ \E h \in Handle, m \in Modes : OpenMissing(n, h, m)
  \/ \E h \in Handle :
       \/ Close(h) \/ BeginWild(h)
       \/ \E o \in Offsets : \/ Seek(h, o) \/ Seek(h, open[h].pos + o)
                            \/ Seek(h, open[h].entry.size - o)
       \/ \E n \in Sizes : BeginRead(h, n) \/ BeginOverwrite(h, n) \/ BeginAppend(h, n)
  \/ Remount \/ Transfer \/ EndRead \/ EndWrite
  \/ Halted

Spec == Init /\ [][Next]_vars
-------------------------------------------------------------------------------
(***************************************************************************)
(* Properties.                                                             *)
(***************************************************************************)
\* Type invariant: the FATs are bytes, the entries, handles and the transfer
\* are what their structures hold, and a transfer is of an open file.
TypeOK ==
  /\ fat \in [0 .. FatBytes - 1 -> Byte] /\ fatDisk \in [0 .. FatBytes - 1 -> Byte]
  /\ dir \in [1 .. Slots -> Entry]
  /\ open \in [Handle -> [entry : Entry, dir : Cluster, index : 1 .. Slots,
                          pos : Nat, mode : Modes \union {{}}]]
  /\ io \in Io \union {NoIo} /\ stale \in FatFile
  /\ status \in {"ok", "overrun", "crossed", "dangling"}

\* The position of an open file stays inside the file, and a read does not go
\* past its end, also through a handle whose copy of the entry is out of date:
\* fat_rw subtracts one from the other without sign.
PositionInFile ==
  /\ \A h \in Handle : open[h].pos <= open[h].entry.size
  /\ io # NoIo /\ io.kind = "read" => Position + io.left <= open[io.h].entry.size

\* Where byte p of an open file is.
Place(h, p) ==
  <<Along(fat, open[h].entry.start, p \div ClusterSize), p % ClusterSize>>

\* What a read, or a write inside the file, moves are the file's own bytes from
\* its position on, none left out, in every turn of the loop that keeps to the
\* buffer of a cluster.
TransfersTheFile ==
  [][LET p == Position IN
     io # NoIo /\ io' # NoIo
       /\ (io.kind = "read" \/ p + io.left <= open[io.h].entry.size) =>
     \A j \in 0 .. io'.done - io.done - 1 :
       Place(io.h, p + j) = <<io.at, io.offset + j>>]_vars


\* An entry's place is its file's for good: creations take a fresh one, and what
\* is written through a handle, however old, never lands on the entry of
\* another file.
SlotsKept ==
  [][\A i \in Scanned(dir) : i \in Scanned(dir)' /\ dir'[i].start = dir[i].start]_vars

\* The FAT in memory is the one on the device, except when the last free cluster
\* was taken by a write that failed: that is what a mount afterwards forgets.
UncommittedOnlyWhenFull == fat # fatDisk => FreeCluster(fat) = Fail
===============================================================================
