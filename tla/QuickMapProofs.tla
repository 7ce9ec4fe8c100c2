---------------------------- MODULE QuickMapProofs ----------------------------
(***************************************************************************)
(* The quick-map slot with any number of contexts, frames and entries, as  *)
(* long as contexts that create directories and contexts that copy memory  *)
(* do not run at the same time.                                            *)
(***************************************************************************)
EXTENDS QuickMap, TLAPS

\* The kinds of users take turns: paging_lock keeps the ones apart, disabled
\* interrupts the others, and nothing the ones from the others.
Alternate == \A S \in Together : S \subseteq Creator \/ S \subseteq Copier

\* A context that creates a directory: where it has the lock, the frame and the
\* slot, and what it has written.
Creating(c) ==
  /\ pc[c] \in {"idle", "alloc", "map", "clear", "entries", "created", "panic"}
  /\ pc[c] \in {"alloc", "map", "clear", "entries"} => lock = c
  /\ frame[c] \in Directory \union {None}
  /\ pc[c] \in {"map", "clear", "entries", "created"} => frame[c] # None
  /\ pc[c] \in {"clear", "entries"} => slot = frame[c]
  /\ pc[c] = "entries" =>
       \A i \in Word : i < index[c] => mem[frame[c]][i] = DirectoryEntry(frame[c], i)
  /\ pc[c] = "created" => \A i \in Word : mem[frame[c]][i] = DirectoryEntry(frame[c], i)
  /\ \A d \in Creator : d # c /\ frame[c] = frame[d] => frame[c] = None

Same(w) == \A i, j \in Word : w[i] = w[j]

\* A context that copies: it has the processor, and has copied so much.
Copying(c) ==
  /\ pc[c] \in {"idle", "read", "write"}
  /\ pc[c] \in {"read", "write"} => cli = c /\ frame[c] \in Data /\ slot = frame[c]
  /\ pc[c] = "idle" => frame[c] = None
  /\ pc[c] = "write" => \A i \in Word : i < index[c] => mem[frame[c]][i] = Copied(c)
  /\ pc[c] = "read" => \A i \in Word : i < index[c] => buffer[c][i] = mem[frame[c]][i]
  /\ pc[c] # "read" => Same(buffer[c])

\* Only the frame that is being written is not the same throughout.
Settled == \A f \in Data : (\A c \in Copier : pc[c] = "write" => frame[c] # f) => Same(mem[f])

Inv ==
  /\ TypeOK
  /\ \A c \in Context \ active : pc[c] = "idle"
  /\ \A c \in Creator : Creating(c)
  /\ \A c \in Copier : Copying(c)
  /\ Settled
-------------------------------------------------------------------------------
LEMMA Contents ==
  /\ Junk \in Content /\ Absent \in Content
  /\ \A f \in Frame, i \in Word : DirectoryEntry(f, i) \in Content
  /\ \A c \in Copier : Copied(c) \in Content
  BY DEF Content, DirectoryEntry

\* What is where after a word has been written through the slot.
LEMMA Poked ==
  ASSUME TypeOK, NEW k \in Word, NEW v \in Content, Poke(k, v)
  PROVE  /\ mem' \in [Frame -> [Word -> Content]]
         /\ \A f \in Frame, i \in Word :
              mem'[f][i] = IF f = slot /\ i = k THEN v ELSE mem[f][i]
<1>1. mem \in [Frame -> [Word -> Content]]
  BY DEF TypeOK
<1>2. mem' = [mem EXCEPT ![slot] = [mem[slot] EXCEPT ![k] = v]]
  BY DEF Poke
<1>3. CASE slot \in Frame
  <2>1. [mem[slot] EXCEPT ![k] = v] \in [Word -> Content]
    BY <1>1, <1>3
  <2>2. \A i \in Word : [mem[slot] EXCEPT ![k] = v][i] = IF i = k THEN v ELSE mem[slot][i]
    BY <1>1, <1>3
  <2> QED
    BY <1>1, <1>2, <1>3, <2>1, <2>2
<1>4. CASE slot \notin Frame
  <2>1. mem' = mem
    BY <1>1, <1>2, <1>4
  <2> QED
    BY <1>1, <1>4, <2>1
<1> QED
  BY <1>3, <1>4

\* A directory frame is not a frame of data, and None is neither.
LEMMA Frames ==
  /\ \A f \in Directory : f \notin Data /\ f # None /\ f \in Frame
  /\ \A f \in Data : f # None /\ f \in Frame
  BY ContextAssumption DEF Frame

\* While contexts create directories, none copies.
LEMMA NoneCopies ==
  ASSUME Alternate, Inv, NEW c \in Creator, c \in active
  PROVE  \A k \in Copier : pc[k] = "idle"
<1>1. active \subseteq Creator
  BY ContextAssumption DEF Alternate, Inv, TypeOK
<1> QED
  BY <1>1, ContextAssumption DEF Inv, Context

\* And the other way round.
LEMMA NoneCreates ==
  ASSUME Alternate, Inv, NEW c \in Copier, c \in active
  PROVE  \A k \in Creator : pc[k] = "idle"
<1>1. active \subseteq Copier
  BY ContextAssumption DEF Alternate, Inv, TypeOK
<1> QED
  BY <1>1, ContextAssumption DEF Inv, Context
-------------------------------------------------------------------------------
\* A step of a creator c leaves everybody else alone when it writes to no frame
\* but its own.
LEMMA CreatorMoves ==
  ASSUME Alternate, Inv, NEW c \in Creator, c \in active, UNCHANGED <<active, cli, buffer>>,
         TypeOK', Creating(c)',
         \A d \in Context \ {c} : pc'[d] = pc[d] /\ frame'[d] = frame[d] /\ index'[d] = index[d],
         \A d \in Creator \ {c} : /\ lock = d => lock' = d /\ slot' = slot
                                  /\ frame'[c] = frame[d] => frame[d] = None,
         \A f \in Frame, i \in Word : f # frame[c] => mem'[f][i] = mem[f][i]
  PROVE  Inv'
<1>1. \A k \in Copier : pc[k] = "idle" /\ k # c /\ k \in Context
  BY NoneCopies, ContextAssumption DEF Context
<1>2. \A k \in Context \ active : pc'[k] = "idle"
  BY DEF Inv
<1>3. ASSUME NEW d \in Creator, d # c PROVE Creating(d)'
  <2>1. Creating(d) /\ Creating(c)
    BY DEF Inv
  <2>2. pc'[d] = pc[d] /\ frame'[d] = frame[d] /\ index'[d] = index[d]
    BY <1>3 DEF Context
  <2>3. pc[d] \in {"alloc", "map", "clear", "entries"} => lock' = d /\ slot' = slot
    BY <1>3, <2>1 DEF Creating
  <2>4. frame[d] \in Directory => \A i \in Word : mem'[frame[d]][i] = mem[frame[d]][i]
    <3> SUFFICES ASSUME frame[d] \in Directory
                 PROVE  \A i \in Word : mem'[frame[d]][i] = mem[frame[d]][i]
      OBVIOUS
    <3>1. frame[d] # frame[c] /\ frame[d] \in Frame
      BY <1>3, <2>1, Frames DEF Creating
    <3> QED
      BY <3>1
  <2>5. \A e \in Creator : e # d /\ frame'[d] = frame'[e] => frame'[d] = None
    <3> TAKE e \in Creator
    <3>1. CASE e = c
      BY <1>3, <2>2, <3>1
    <3>2. CASE e # c
      BY <1>3, <2>1, <2>2, <3>2 DEF Creating, Context
    <3> QED
      BY <3>1, <3>2
  <2> QED
    BY <2>1, <2>2, <2>3, <2>4, <2>5 DEF Creating
<1>4. ASSUME NEW k \in Copier PROVE Copying(k)'
  BY <1>1, <1>4 DEF Inv, Copying
<1>5. Settled'
  <2>1. \A f \in Data : Same(mem[f])
    BY <1>1 DEF Inv, Settled
  <2>2. \A f \in Data, i \in Word : mem'[f][i] = mem[f][i]
    BY Frames DEF Inv, Creating
  <2> QED
    BY <2>1, <2>2 DEF Settled, Same
<1> QED
  BY <1>2, <1>3, <1>4, <1>5 DEF Inv
-------------------------------------------------------------------------------
\* The steps of paging_createDirectory.
LEMMA LockPagingKeeps ==
  ASSUME Alternate, Inv, NEW c \in Creator, c \in active, UNCHANGED active, LockPaging(c)
  PROVE  Inv'
<1>1. /\ pc' = [pc EXCEPT ![c] = "alloc"] /\ lock' = c /\ lock = None /\ pc[c] = "idle"
      /\ UNCHANGED <<mem, slot, cli, frame, index, buffer>>
  BY DEF LockPaging, Goto
<1>2. TypeOK'
  BY <1>1 DEF Inv, TypeOK, Context
<1>3. pc'[c] = "alloc" /\ \A d \in Context \ {c} : pc'[d] = pc[d]
  BY <1>1 DEF Inv, TypeOK, Context
<1>4. Creating(c)'
  BY <1>1, <1>3 DEF Inv, Creating
<1>5. \A d \in Creator \ {c} : lock # d /\ (frame'[c] = frame[d] => frame[d] = None)
  BY <1>1, ContextAssumption DEF Inv, Creating
<1> QED
  BY <1>1, <1>2, <1>3, <1>4, <1>5, CreatorMoves

LEMMA AllocDirectoryKeeps ==
  ASSUME Alternate, Inv, NEW c \in Creator, c \in active, UNCHANGED active, AllocDirectory(c)
  PROVE  Inv'
<1>1. PICK f \in Unused : frame' = [frame EXCEPT ![c] = f]
  BY DEF AllocDirectory
<1>2. /\ pc' = [pc EXCEPT ![c] = "map"] /\ pc[c] = "alloc"
      /\ UNCHANGED <<mem, slot, lock, cli, index, buffer>>
  BY DEF AllocDirectory, Goto
<1>3. f \in Directory /\ f \in Frame /\ f # None /\ \A d \in Creator : frame[d] # f
  BY Frames DEF Unused
<1>4. TypeOK'
  BY <1>1, <1>2, <1>3 DEF Inv, TypeOK, Context
<1>5. /\ pc'[c] = "map" /\ \A d \in Context \ {c} : pc'[d] = pc[d]
      /\ frame'[c] = f /\ \A d \in Context \ {c} : frame'[d] = frame[d]
  BY <1>1, <1>2 DEF Inv, TypeOK, Context
<1>6. Creating(c)'
  BY <1>2, <1>3, <1>5 DEF Inv, Creating, Context
<1>7. \A d \in Creator \ {c} : frame'[c] # frame[d] /\ lock # d
  BY <1>2, <1>3, <1>5 DEF Inv, Creating
<1> QED
  BY <1>2, <1>4, <1>5, <1>6, <1>7, CreatorMoves

LEMMA AllocPanicsKeeps ==
  ASSUME Alternate, Inv, NEW c \in Creator, c \in active, UNCHANGED active, AllocPanics(c)
  PROVE  Inv'
<1>1. /\ pc' = [pc EXCEPT ![c] = "panic"] /\ pc[c] = "alloc"
      /\ UNCHANGED <<mem, slot, lock, cli, frame, index, buffer>>
  BY DEF AllocPanics, Goto
<1>2. TypeOK'
  BY <1>1 DEF Inv, TypeOK, Context
<1>3. pc'[c] = "panic" /\ \A d \in Context \ {c} : pc'[d] = pc[d]
  BY <1>1 DEF Inv, TypeOK, Context
<1>4. Creating(c)'
  BY <1>1, <1>3 DEF Inv, Creating
<1>5. \A d \in Creator \ {c} : lock # d /\ (frame'[c] = frame[d] => frame[d] = None)
  BY <1>1 DEF Inv, Creating
<1> QED
  BY <1>1, <1>2, <1>3, <1>4, <1>5, CreatorMoves

LEMMA MapDirectoryKeeps ==
  ASSUME Alternate, Inv, NEW c \in Creator, c \in active, UNCHANGED active, MapDirectory(c)
  PROVE  Inv'
<1>1. /\ pc' = [pc EXCEPT ![c] = "clear"] /\ pc[c] = "map" /\ slot' = frame[c]
      /\ UNCHANGED <<mem, lock, cli, frame, index, buffer>>
  BY DEF MapDirectory, Goto, MapQuick
<1>2. TypeOK'
  BY <1>1 DEF Inv, TypeOK, Context
<1>3. pc'[c] = "clear" /\ \A d \in Context \ {c} : pc'[d] = pc[d]
  BY <1>1 DEF Inv, TypeOK, Context
<1>4. Creating(c)'
  BY <1>1, <1>3 DEF Inv, Creating
<1>5. \A d \in Creator \ {c} : lock # d /\ (frame'[c] = frame[d] => frame[d] = None)
  BY <1>1 DEF Inv, Creating
<1> QED
  BY <1>1, <1>2, <1>3, <1>4, <1>5, CreatorMoves

LEMMA ClearDirectoryKeeps ==
  ASSUME Alternate, Inv, NEW c \in Creator, c \in active, UNCHANGED active, ClearDirectory(c)
  PROVE  Inv'
<1>1. /\ pc' = [pc EXCEPT ![c] = "entries"] /\ pc[c] = "clear"
      /\ mem' = [mem EXCEPT ![slot] = [i \in Word |-> Absent]]
      /\ index' = [index EXCEPT ![c] = 0]
      /\ UNCHANGED <<slot, lock, cli, frame, buffer>>
  BY DEF ClearDirectory, Goto
<1>2. slot = frame[c] /\ slot \in Frame
  BY <1>1, Frames DEF Inv, Creating
<1>3. mem' \in [Frame -> [Word -> Content]]
  BY <1>1, Contents DEF Inv, TypeOK
<1>4. index' \in [Context -> 0 .. ENTRIES]
  <2>1. 0 \in 0 .. ENTRIES
    BY ContextAssumption
  <2> QED
    BY <1>1, <2>1 DEF Inv, TypeOK
<1>5. TypeOK'
  BY <1>1, <1>3, <1>4 DEF Inv, TypeOK, Context
<1>6. /\ pc'[c] = "entries" /\ \A d \in Context \ {c} : pc'[d] = pc[d]
      /\ index'[c] = 0 /\ \A d \in Context \ {c} : index'[d] = index[d]
  BY <1>1 DEF Inv, TypeOK, Context
<1>7. \A i \in Word : ~ (i < 0)
  BY ContextAssumption DEF Word
<1>8. Creating(c)'
  BY <1>1, <1>2, <1>6, <1>7 DEF Inv, Creating
<1>9. \A d \in Creator \ {c} : lock # d /\ (frame'[c] = frame[d] => frame[d] = None)
  BY <1>1 DEF Inv, Creating
<1>10. \A f \in Frame, i \in Word : f # frame[c] => mem'[f][i] = mem[f][i]
  BY <1>1, <1>2 DEF Inv, TypeOK
<1> QED
  BY <1>1, <1>5, <1>6, <1>8, <1>9, <1>10, CreatorMoves

LEMMA WriteEntryKeeps ==
  ASSUME Alternate, Inv, NEW c \in Creator, c \in active, UNCHANGED active, WriteEntry(c)
  PROVE  Inv'
<1> DEFINE k == index[c]
           v == DirectoryEntry(frame[c], k)
<1>1. /\ pc[c] = "entries" /\ k < ENTRIES /\ Poke(k, v)
      /\ index' = [index EXCEPT ![c] = k + 1]
      /\ UNCHANGED <<slot, lock, cli, pc, frame, buffer>>
  BY DEF WriteEntry
<1>2. slot = frame[c] /\ slot \in Frame
  BY <1>1, Frames DEF Inv, Creating
<1>3. k \in 0 .. ENTRIES
  BY DEF Inv, TypeOK, Context
<1>4. k \in Word /\ k + 1 \in 0 .. ENTRIES /\ \A i \in Word : i < k + 1 => i < k \/ i = k
  BY <1>1, <1>3, ContextAssumption DEF Word
<1>5. v \in Content
  BY <1>2, <1>4, Contents
<1> HIDE DEF v
<1>6. /\ mem' \in [Frame -> [Word -> Content]]
      /\ \A f \in Frame, i \in Word : mem'[f][i] = IF f = slot /\ i = k THEN v ELSE mem[f][i]
  BY <1>1, <1>4, <1>5, Poked DEF Inv
<1>7. index' \in [Context -> 0 .. ENTRIES]
  BY <1>1, <1>4 DEF Inv, TypeOK
<1>8. TypeOK'
  BY <1>1, <1>6, <1>7 DEF Inv, TypeOK
<1>9. index'[c] = k + 1 /\ \A d \in Context \ {c} : index'[d] = index[d]
  BY <1>1 DEF Inv, TypeOK, Context
<1>10. \A i \in Word : i < index'[c] => mem'[frame[c]][i] = DirectoryEntry(frame[c], i)
  <2> SUFFICES ASSUME NEW i \in Word, i < index'[c]
               PROVE  mem'[frame[c]][i] = DirectoryEntry(frame[c], i)
    OBVIOUS
  <2>1. CASE i = k
    BY <1>2, <1>6, <2>1 DEF v
  <2>2. CASE i # k
    <3>1. i < k
      BY <1>4, <1>9, <2>2
    <3> QED
      BY <1>1, <1>2, <1>6, <2>2, <3>1 DEF Inv, Creating
  <2> QED
    BY <2>1, <2>2
<1>11. Creating(c)'
  BY <1>1, <1>10 DEF Inv, Creating
<1>12. \A d \in Creator \ {c} : lock # d /\ (frame'[c] = frame[d] => frame[d] = None)
  BY <1>1 DEF Inv, Creating
<1>13. \A f \in Frame, i \in Word : f # frame[c] => mem'[f][i] = mem[f][i]
  BY <1>2, <1>6
<1> QED
  BY <1>1, <1>8, <1>9, <1>11, <1>12, <1>13, CreatorMoves

LEMMA UnlockPagingKeeps ==
  ASSUME Alternate, Inv, NEW c \in Creator, c \in active, UNCHANGED active, UnlockPaging(c)
  PROVE  Inv'
<1>1. /\ pc' = [pc EXCEPT ![c] = "created"] /\ pc[c] = "entries" /\ index[c] = ENTRIES
      /\ lock' = None /\ UNCHANGED <<mem, slot, cli, frame, index, buffer>>
  BY DEF UnlockPaging, Goto
<1>2. TypeOK'
  BY <1>1 DEF Inv, TypeOK, Context
<1>3. pc'[c] = "created" /\ \A d \in Context \ {c} : pc'[d] = pc[d]
  BY <1>1 DEF Inv, TypeOK, Context
<1>4. \A i \in Word : i < index[c]
  BY <1>1, ContextAssumption DEF Word
<1>5. Creating(c)'
  BY <1>1, <1>3, <1>4 DEF Inv, Creating
<1>6. \A d \in Creator \ {c} : lock # d /\ (frame'[c] = frame[d] => frame[d] = None)
  BY <1>1 DEF Inv, Creating
<1> QED
  BY <1>1, <1>2, <1>3, <1>5, <1>6, CreatorMoves
-------------------------------------------------------------------------------
(***************************************************************************)
(* The steps of mm_pmemcpyto and mm_pmemcpyfrom.                           *)
(***************************************************************************)
\* The context that has the processor is the only one inside a copy.
LEMMA OthersWait ==
  ASSUME Alternate, Inv, NEW c \in Copier, Runs(c)
  PROVE  /\ \A k \in Creator : pc[k] = "idle" /\ k # c
         /\ \A k \in Copier \ {c} : pc[k] = "idle"
<1>1. \A k \in Creator : pc[k] = "idle" /\ k # c
  BY NoneCreates, ContextAssumption DEF Runs
<1>2. \A k \in Copier \ {c} : cli # k
  BY ContextAssumption DEF Runs
<1> QED
  BY <1>1, <1>2 DEF Inv, Copying

LEMMA CopierMoves ==
  ASSUME Alternate, Inv, NEW c \in Copier, Runs(c), UNCHANGED active,
         TypeOK', Copying(c)', Settled',
         \A d \in Context \ {c} : pc'[d] = pc[d] /\ frame'[d] = frame[d],
         \A d \in Copier \ {c} : buffer'[d] = buffer[d]
  PROVE  Inv'
<1>1. \A k \in Context \ active : pc'[k] = "idle"
  BY DEF Inv, Runs
<1>2. ASSUME NEW k \in Creator PROVE Creating(k)'
  <2>1. pc'[k] = "idle" /\ \A d \in Creator : frame'[d] = frame[d]
    BY OthersWait DEF Context
  <2> QED
    BY <2>1 DEF Inv, Creating
<1>3. ASSUME NEW k \in Copier, k # c PROVE Copying(k)'
  <2>1. pc'[k] = "idle" /\ pc[k] = "idle" /\ frame'[k] = frame[k] /\ buffer'[k] = buffer[k]
    BY <1>3, OthersWait DEF Context
  <2> QED
    BY <2>1 DEF Inv, Copying
<1> QED
  BY <1>1, <1>2, <1>3 DEF Inv

LEMMA BeginCopyKeeps ==
  ASSUME Alternate, Inv, NEW c \in Copier, Runs(c), UNCHANGED active, BeginCopy(c)
  PROVE  Inv'
<1>1. PICK f \in Data : slot' = f /\ frame' = [frame EXCEPT ![c] = f]
  BY DEF BeginCopy, MapQuick
<1>2. PICK way \in {"read", "write"} : pc' = [pc EXCEPT ![c] = way]
  BY DEF BeginCopy, Goto
<1>3. /\ pc[c] = "idle" /\ cli' = c /\ index' = [index EXCEPT ![c] = 0]
      /\ UNCHANGED <<mem, lock, buffer>>
  BY DEF BeginCopy
<1>4. index' \in [Context -> 0 .. ENTRIES]
  <2>1. 0 \in 0 .. ENTRIES
    BY ContextAssumption
  <2> QED
    BY <1>3, <2>1 DEF Inv, TypeOK
<1>5. TypeOK'
  BY <1>1, <1>2, <1>3, <1>4, Frames DEF Inv, TypeOK, Context
<1>6. /\ pc'[c] = way /\ \A d \in Context \ {c} : pc'[d] = pc[d]
      /\ frame'[c] = f /\ \A d \in Context \ {c} : frame'[d] = frame[d]
      /\ index'[c] = 0
  BY <1>1, <1>2, <1>3 DEF Inv, TypeOK, Context
<1>7. \A i \in Word : ~ (i < 0)
  BY ContextAssumption DEF Word
<1>8. Copying(c)'
  BY <1>1, <1>3, <1>6, <1>7 DEF Inv, Copying
<1>9. Settled'
  <2>1. \A d \in Copier : pc[d] = "idle"
    BY <1>3, OthersWait
  <2> QED
    BY <1>3, <2>1 DEF Inv, Settled
<1> QED
  BY <1>3, <1>5, <1>6, <1>8, <1>9, CopierMoves

LEMMA CopyToKeeps ==
  ASSUME Alternate, Inv, NEW c \in Copier, Runs(c), UNCHANGED active, CopyTo(c)
  PROVE  Inv'
<1> DEFINE k == index[c]
<1>1. /\ pc[c] = "write" /\ k < ENTRIES /\ Poke(k, Copied(c))
      /\ index' = [index EXCEPT ![c] = k + 1]
      /\ UNCHANGED <<slot, lock, cli, pc, frame, buffer>>
  BY DEF CopyTo
<1>2. slot = frame[c] /\ slot \in Frame /\ frame[c] \in Data
  BY <1>1, Frames DEF Inv, Copying
<1>3. k \in 0 .. ENTRIES
  BY DEF Inv, TypeOK, Context
<1>4. k \in Word /\ k + 1 \in 0 .. ENTRIES /\ \A i \in Word : i < k + 1 => i < k \/ i = k
  BY <1>1, <1>3, ContextAssumption DEF Word
<1>5. /\ mem' \in [Frame -> [Word -> Content]]
      /\ \A f \in Frame, i \in Word :
           mem'[f][i] = IF f = slot /\ i = k THEN Copied(c) ELSE mem[f][i]
  BY <1>1, <1>4, Contents, Poked DEF Inv
<1>6. index' \in [Context -> 0 .. ENTRIES] /\ index'[c] = k + 1
  BY <1>1, <1>4 DEF Inv, TypeOK, Context
<1>7. TypeOK'
  BY <1>1, <1>5, <1>6 DEF Inv, TypeOK
<1>8. \A i \in Word : i < index'[c] => mem'[frame[c]][i] = Copied(c)
  <2> SUFFICES ASSUME NEW i \in Word, i < index'[c] PROVE mem'[frame[c]][i] = Copied(c)
    OBVIOUS
  <2>1. CASE i = k
    BY <1>2, <1>5, <2>1
  <2>2. CASE i # k
    <3>1. i < k
      BY <1>4, <1>6, <2>2
    <3> QED
      BY <1>1, <1>2, <1>5, <2>2, <3>1 DEF Inv, Copying
  <2> QED
    BY <2>1, <2>2
<1>9. Copying(c)'
  BY <1>1, <1>8 DEF Inv, Copying
<1>10. Settled'
  <2>1. \A f \in Data : f # frame[c] => Same(mem[f])
    BY OthersWait DEF Inv, Settled
  <2>2. \A f \in Data, i \in Word : f # frame[c] => mem'[f][i] = mem[f][i]
    BY <1>2, <1>5, Frames
  <2> QED
    BY <1>1, <2>1, <2>2 DEF Settled, Same
<1> QED
  BY <1>1, <1>7, <1>9, <1>10, CopierMoves

LEMMA CopyFromKeeps ==
  ASSUME Alternate, Inv, NEW c \in Copier, Runs(c), UNCHANGED active, CopyFrom(c)
  PROVE  Inv'
<1> DEFINE k == index[c]
           b == [buffer[c] EXCEPT ![k] = mem[slot][k]]
<1>1. /\ pc[c] = "read" /\ k < ENTRIES /\ buffer' = [buffer EXCEPT ![c] = b]
      /\ index' = [index EXCEPT ![c] = k + 1]
      /\ UNCHANGED <<mem, slot, lock, cli, pc, frame>>
  BY DEF CopyFrom
<1>2. slot = frame[c] /\ slot \in Frame /\ frame[c] \in Data
  BY <1>1, Frames DEF Inv, Copying
<1>3. k \in 0 .. ENTRIES
  BY DEF Inv, TypeOK, Context
<1>4. k \in Word /\ k + 1 \in 0 .. ENTRIES /\ \A i \in Word : i < k + 1 => i < k \/ i = k
  BY <1>1, <1>3, ContextAssumption DEF Word
<1>5. /\ b \in [Word -> Content]
      /\ \A i \in Word : b[i] = IF i = k THEN mem[slot][i] ELSE buffer[c][i]
  BY <1>2, <1>4 DEF Inv, TypeOK
<1> HIDE DEF b
<1>6. /\ buffer' \in [Copier -> [Word -> Content]] /\ buffer'[c] = b
      /\ \A d \in Copier \ {c} : buffer'[d] = buffer[d]
  BY <1>1, <1>5 DEF Inv, TypeOK
<1>7. index' \in [Context -> 0 .. ENTRIES] /\ index'[c] = k + 1
  BY <1>1, <1>4 DEF Inv, TypeOK, Context
<1>8. TypeOK'
  BY <1>1, <1>6, <1>7 DEF Inv, TypeOK
<1>9. \A i \in Word : i < index'[c] => buffer'[c][i] = mem[frame[c]][i]
  <2> SUFFICES ASSUME NEW i \in Word, i < index'[c] PROVE b[i] = mem[frame[c]][i]
    BY <1>6
  <2>1. CASE i = k
    BY <1>2, <1>5, <2>1
  <2>2. CASE i # k
    <3>1. i < k
      BY <1>4, <1>7, <2>2
    <3> QED
      BY <1>1, <1>5, <2>2, <3>1 DEF Inv, Copying
  <2> QED
    BY <2>1, <2>2
<1>10. Copying(c)'
  BY <1>1, <1>9 DEF Inv, Copying
<1>11. Settled'
  BY <1>1 DEF Inv, Settled
<1> QED
  BY <1>1, <1>6, <1>8, <1>10, <1>11, CopierMoves

LEMMA EndCopyKeeps ==
  ASSUME Alternate, Inv, NEW c \in Copier, Runs(c), UNCHANGED active, EndCopy(c)
  PROVE  Inv'
<1>1. /\ pc[c] \in {"read", "write"} /\ index[c] = ENTRIES /\ cli' = None
      /\ frame' = [frame EXCEPT ![c] = None] /\ pc' = [pc EXCEPT ![c] = "idle"]
      /\ UNCHANGED <<mem, slot, lock, index, buffer>>
  BY DEF EndCopy, Goto
<1>2. TypeOK'
  BY <1>1 DEF Inv, TypeOK, Context
<1>3. /\ pc'[c] = "idle" /\ \A d \in Context \ {c} : pc'[d] = pc[d]
      /\ frame'[c] = None /\ \A d \in Context \ {c} : frame'[d] = frame[d]
  BY <1>1 DEF Inv, TypeOK, Context
<1>4. \A i \in Word : i < index[c]
  BY <1>1, ContextAssumption DEF Word
<1>5. \A f \in Data : Same(mem[f])
  <2> TAKE f \in Data
  <2>1. CASE pc[c] = "write" /\ frame[c] = f
    BY <1>4, <2>1 DEF Inv, Copying, Same
  <2>2. CASE ~ (pc[c] = "write" /\ frame[c] = f)
    <3>1. \A d \in Copier : pc[d] = "write" => frame[d] # f
      BY <2>2, OthersWait
    <3> QED
      BY <3>1 DEF Inv, Settled
  <2> QED
    BY <2>1, <2>2
<1>6. Same(buffer[c])
  <2>1. CASE pc[c] = "read"
    <3>1. Same(mem[frame[c]])
      BY <1>1, <1>5 DEF Inv, Copying
    <3> QED
      BY <1>4, <2>1, <3>1 DEF Inv, Copying, Same
  <2>2. CASE pc[c] = "write"
    BY <2>2 DEF Inv, Copying
  <2> QED
    BY <1>1, <2>1, <2>2
<1>7. Copying(c)'
  BY <1>1, <1>3, <1>6 DEF Copying
<1>8. Settled'
  BY <1>1, <1>5 DEF Settled
<1> QED
  BY <1>1, <1>2, <1>3, <1>7, <1>8, CopierMoves
-------------------------------------------------------------------------------
LEMMA InvInit == ASSUME Init PROVE Inv
<1>1. 0 \in 0 .. ENTRIES
  BY ContextAssumption
<1>2. TypeOK
  BY <1>1, Contents DEF Init, TypeOK
<1>3. \A c \in Context : pc[c] = "idle" /\ frame[c] = None
  BY DEF Init
<1>4. \A c \in Creator : Creating(c)
  BY <1>3 DEF Creating, Context
<1>5. \A c \in Copier : Same(buffer[c])
  BY DEF Init, Same
<1>6. \A c \in Copier : Copying(c)
  BY <1>3, <1>5 DEF Copying, Context
<1>7. \A f \in Data : Same(mem[f])
  BY DEF Init, Same, Frame
<1> QED
  BY <1>2, <1>3, <1>4, <1>6, <1>7 DEF Inv, Settled

LEMMA InvNext == ASSUME Alternate, Inv, [Next]_vars PROVE Inv'
<1>1. ASSUME NEW c \in Creator, Runs(c), Create(c), UNCHANGED active PROVE Inv'
  <2>1. c \in active
    BY <1>1 DEF Runs
  <2> QED
    BY <1>1, <2>1, LockPagingKeeps, AllocDirectoryKeeps, AllocPanicsKeeps, MapDirectoryKeeps,
       ClearDirectoryKeeps, WriteEntryKeeps, UnlockPagingKeeps DEF Create
<1>2. ASSUME NEW c \in Copier, Runs(c), Copy(c), UNCHANGED active PROVE Inv'
  BY <1>2, BeginCopyKeeps, CopyToKeeps, CopyFromKeeps, EndCopyKeeps DEF Copy
<1>3. CASE UNCHANGED vars
  <2>1. \A c \in Creator : Creating(c)'
    BY <1>3 DEF Inv, vars, Creating
  <2>2. \A c \in Copier : Copying(c)'
    BY <1>3 DEF Inv, vars, Copying
  <2>3. TypeOK' /\ Settled' /\ \A c \in Context \ active' : pc'[c] = "idle"
    BY <1>3 DEF Inv, vars, TypeOK, Settled
  <2> QED
    BY <2>1, <2>2, <2>3 DEF Inv
<1> QED
  BY <1>1, <1>2, <1>3 DEF Next, AllCreated

LEMMA Invariance == ASSUME Alternate PROVE Spec => []Inv
<1>1. Inv /\ [Next]_vars => Inv'
  BY InvNext
<1> QED
  BY <1>1, InvInit, PTL DEF Spec

\* The quick-map slot, the frames and the contexts are well typed.
THEOREM TypeCorrect == ASSUME Alternate PROVE Spec => []TypeOK
<1>1. Inv => TypeOK
  BY DEF Inv
<1> QED
  BY <1>1, Invariance, PTL

\* However many contexts create directories at the same time, paging_lock keeps
\* each directory whole while it is filled through the slot.
THEOREM DirectoriesAreWhole == ASSUME Alternate PROVE Spec => []DirectoriesWhole
<1>1. Inv => DirectoriesWhole
  BY DEF Inv, Creating, DirectoriesWhole
<1> QED
  BY <1>1, Invariance, PTL

\* However many contexts copy, disabled interrupts alone keep each copy whole.
THEOREM CopiesAreWhole == ASSUME Alternate PROVE Spec => []CopiesWhole
<1>1. ASSUME Inv PROVE CopiesWhole
  <2>1. ASSUME NEW f \in Data, \A c \in Copier : frame[c] # f PROVE Same(mem[f])
    BY <1>1, <2>1 DEF Inv, Settled
  <2>2. ASSUME NEW c \in Copier, pc[c] # "read" PROVE Same(buffer[c])
    BY <1>1, <2>2 DEF Inv, Copying
  <2> QED
    BY <2>1, <2>2 DEF CopiesWhole, Same
<1> QED
  BY <1>1, Invariance, PTL
===============================================================================
