-------------------------- MODULE AddressSpaceProofs --------------------------
(***************************************************************************)
(* For any number of frames and of indexes: address spaces keep out of one *)
(* another's tables, map only live pages, and implement Translation.       *)
(***************************************************************************)
EXTENDS AddressSpace, TLAPS

IInv == TypeOK /\ TablesPrivate /\ MapsLivePages


-------------------------------------------------------------------------------
(***************************************************************************)
(* Operators.                                                              *)
(***************************************************************************)

\* An address is made of its two indexes (page_directory_index and
\* page_table_index).
LEMMA AddressParts ==
  /\ \A a \in Address : DirIndex(a) \in Index /\ TableIndex(a) \in Index
  /\ \A i, j \in Index : /\ <<i, j>> \in Address
                         /\ DirIndex(<<i, j>>) = i /\ TableIndex(<<i, j>>) = j
  /\ \A a, b \in Address : a = b <=> /\ DirIndex(a) = DirIndex(b)
                                     /\ TableIndex(a) = TableIndex(b)
  BY DEF Address, DirIndex, TableIndex

\* set_page_entry writes an entry, and allocate_page returns cleared ones.
LEMMA Entries ==
  /\ \A f \in Frame : /\ EntryOf(f) \in Entry
                      /\ EntryOf(f).present /\ EntryOf(f).frame = f
                      /\ Noise(f) \in [Index -> Entry]
                      /\ FreshFrame(f) \in [Index -> Entry]
                      /\ \A i \in Index : ~ FreshFrame(f)[i].present
  /\ Zeroed \in [Index -> Entry]
  BY DEF EntryOf, Entry, Noise, FreshFrame, Zeroed, Cleared

-------------------------------------------------------------------------------
(***************************************************************************)
(* The invariant, action by action.                                        *)
(***************************************************************************)

\* Nothing is mapped before the first directory is allocated.
LEMMA InitInv == Init => IInv
<1> SUFFICES ASSUME Init PROVE IInv
  OBVIOUS
<1>1. {Zeroed} \union {Noise(f) : f \in Frame} \subseteq [Index -> Entry]
  BY Entries
<1>2. TypeOK
  BY <1>1 DEF Init, TypeOK
<1> QED
  BY <1>2 DEF Init, IInv, TablesPrivate, MapsLivePages

LEMMA CreateSpaceInv ==
  ASSUME IInv, NEW d \in Frame, CreateSpace(d)
  PROVE  /\ IInv'
         /\ \A b \in Address :
              /\ Translate(d, b)' = NoFrame
              /\ \A e \in spaces : Translate(e, b)' = Translate(e, b)
<1>1. /\ mem'[d] = FreshFrame(d)
      /\ \A f \in Frame \ {d} : mem'[f] = mem[f]
      /\ mem' \in [Frame -> [Index -> Entry]]
      /\ \A i \in Index : ~ mem'[d][i].present
  BY Entries DEF IInv, TypeOK, CreateSpace
<1>2. d \notin spaces /\ d \notin tables /\ d \notin pages
  BY DEF CreateSpace, Unused
<1>3. TypeOK'
  BY <1>1 DEF IInv, TypeOK, CreateSpace
<1>4. TablesPrivate'
  BY <1>1, <1>2 DEF IInv, TypeOK, TablesPrivate, CreateSpace
<1>5. \A b \in Address : Translate(d, b)' = NoFrame
  BY <1>1, AddressParts DEF Translate, HasTable
<1>6. ASSUME NEW b \in Address, NEW e \in spaces
      PROVE  Translate(e, b)' = Translate(e, b)
  <2>1. HasTable(e, b)' = HasTable(e, b) /\ TableOf(e, b)' = TableOf(e, b)
    BY <1>1, <1>2 DEF IInv, TypeOK, HasTable, TableOf
  <2>2. CASE HasTable(e, b)
    <3>1. TableOf(e, b) \in Frame \ {d}
      BY <1>2, <2>2, AddressParts
      DEF IInv, TypeOK, TablesPrivate, HasTable, TableOf
    <3> QED
      BY <1>1, <2>1, <3>1 DEF Translate
  <2>3. CASE ~ HasTable(e, b)
    BY <2>1, <2>3 DEF Translate
  <2> QED
    BY <2>2, <2>3
<1>7. MapsLivePages'
  BY <1>5, <1>6 DEF IInv, MapsLivePages, CreateSpace
<1> QED
  BY <1>3, <1>4, <1>5, <1>6, <1>7 DEF IInv

LEMMA CreatePageInv ==
  ASSUME IInv, NEW p \in Frame, CreatePage(p)
  PROVE  /\ IInv'
         /\ \A e \in spaces, b \in Address : Translate(e, b)' = Translate(e, b)
<1>1. /\ \A f \in Frame \ {p} : mem'[f] = mem[f]
      /\ mem' \in [Frame -> [Index -> Entry]]
  BY Entries DEF IInv, TypeOK, CreatePage
<1>2. p \notin spaces /\ p \notin tables
  BY DEF CreatePage, Unused
<1>3. TypeOK' /\ TablesPrivate'
  BY <1>1, <1>2 DEF IInv, TypeOK, TablesPrivate, CreatePage, Unused
<1>4. ASSUME NEW b \in Address, NEW e \in spaces
      PROVE  Translate(e, b)' = Translate(e, b)
  <2>1. HasTable(e, b)' = HasTable(e, b) /\ TableOf(e, b)' = TableOf(e, b)
    BY <1>1, <1>2 DEF IInv, TypeOK, HasTable, TableOf
  <2>2. CASE HasTable(e, b)
    <3>1. TableOf(e, b) \in Frame \ {p}
      BY <1>2, <2>2, AddressParts
      DEF IInv, TypeOK, TablesPrivate, HasTable, TableOf
    <3> QED
      BY <1>1, <2>1, <3>1 DEF Translate
  <2>3. CASE ~ HasTable(e, b)
    BY <2>1, <2>3 DEF Translate
  <2> QED
    BY <2>2, <2>3
<1>5. MapsLivePages'
  BY <1>4 DEF IInv, MapsLivePages, CreatePage
<1> QED
  BY <1>3, <1>4, <1>5 DEF IInv

LEMMA InsertInNewTableInv ==
  ASSUME IInv, NEW d \in spaces, NEW a \in Address, NEW p \in pages,
         NEW t \in Frame, InsertInNewTable(d, a, p, t)
  PROVE  /\ IInv'
         /\ \A e \in spaces, b \in Address :
              Translate(e, b)' = IF e = d /\ b = a THEN p ELSE Translate(e, b)
<1>1. /\ t \notin spaces /\ t \notin tables /\ t \notin pages
      /\ d \in Frame /\ d \notin tables /\ d # t /\ p \in Frame
      /\ DirIndex(a) \in Index /\ TableIndex(a) \in Index
      /\ ~ mem[d][DirIndex(a)].present
  BY AddressParts
  DEF IInv, TypeOK, TablesPrivate, InsertInNewTable, Unused, HasTable
<1>2. /\ mem' \in [Frame -> [Index -> Entry]]
      /\ \A f \in Frame \ {d, t} : mem'[f] = mem[f]
      /\ mem'[d] = [mem[d] EXCEPT ![DirIndex(a)] = EntryOf(t)]
      /\ mem'[t] = [FreshFrame(t) EXCEPT ![TableIndex(a)] = EntryOf(p)]
  BY <1>1, Entries DEF IInv, TypeOK, InsertInNewTable
<1>3. /\ \A i \in Index \ {DirIndex(a)} : mem'[d][i] = mem[d][i]
      /\ mem'[d][DirIndex(a)].present /\ mem'[d][DirIndex(a)].frame = t
      /\ \A i \in Index \ {TableIndex(a)} : ~ mem'[t][i].present
      /\ mem'[t][TableIndex(a)].present /\ mem'[t][TableIndex(a)].frame = p
  BY <1>1, <1>2, Entries DEF IInv, TypeOK
<1>4. TypeOK'
  BY <1>2 DEF IInv, TypeOK, InsertInNewTable
<1>5. ASSUME NEW e \in spaces, NEW i \in Index
      PROVE  IF e = d /\ i = DirIndex(a)
               THEN mem'[e][i].present /\ mem'[e][i].frame = t
               ELSE mem'[e][i] = mem[e][i]
  BY <1>1, <1>2, <1>3 DEF IInv, TypeOK
<1>6. TablesPrivate'
  <2>1. /\ spaces \intersect tables' = {} /\ spaces' = spaces
        /\ tables' \intersect pages' = {} /\ pages' = pages
        /\ spaces \intersect pages = {}
        /\ tables' = tables \union {t}
    BY <1>1 DEF IInv, TablesPrivate, InsertInNewTable
  <2>2. \A e, g \in spaces, i, j \in Index :
          mem[e][i].present =>
            /\ mem[e][i].frame \in tables
            /\ mem[g][j].present /\ mem[g][j].frame = mem[e][i].frame =>
                 e = g /\ i = j
    BY DEF IInv, TablesPrivate
  <2>3. ASSUME NEW e \in spaces, NEW g \in spaces,
               NEW i \in Index, NEW j \in Index, mem'[e][i].present
        PROVE  /\ mem'[e][i].frame \in tables'
               /\ mem'[g][j].present /\ mem'[g][j].frame = mem'[e][i].frame =>
                    e = g /\ i = j
    BY <1>1, <1>5, <2>1, <2>2, <2>3
  <2> QED
    BY <2>1, <2>3 DEF TablesPrivate
<1>7. ASSUME NEW e \in spaces, NEW b \in Address
      PROVE  Translate(e, b)' = IF e = d /\ b = a THEN p ELSE Translate(e, b)
  <2>1. DirIndex(b) \in Index /\ TableIndex(b) \in Index
    BY AddressParts
  <2>2. CASE e = d /\ DirIndex(b) = DirIndex(a)
    <3>1. HasTable(e, b)' /\ TableOf(e, b)' = t /\ ~ HasTable(e, b)
      BY <1>1, <1>5, <2>1, <2>2 DEF HasTable, TableOf
    <3>2. b = a <=> TableIndex(b) = TableIndex(a)
      BY <2>2, AddressParts
    <3> QED
      BY <1>3, <2>1, <2>2, <3>1, <3>2 DEF Translate
  <2>3. CASE ~ (e = d /\ DirIndex(b) = DirIndex(a))
    <3>1. HasTable(e, b)' = HasTable(e, b) /\ TableOf(e, b)' = TableOf(e, b)
      BY <1>5, <2>1, <2>3 DEF HasTable, TableOf
    <3>2. HasTable(e, b) => TableOf(e, b) \in Frame \ {d, t}
      BY <1>1, <2>1 DEF IInv, TypeOK, TablesPrivate, HasTable, TableOf
    <3>3. Translate(e, b)' = Translate(e, b)
      BY <1>2, <3>1, <3>2 DEF Translate
    <3> QED
      BY <2>3, <3>3
  <2> QED
    BY <2>2, <2>3
<1>8. MapsLivePages'
  BY <1>7 DEF IInv, MapsLivePages, InsertInNewTable
<1> QED
  BY <1>4, <1>6, <1>7, <1>8 DEF IInv

LEMMA InsertInTableInv ==
  ASSUME IInv, NEW d \in spaces, NEW a \in Address, NEW p \in pages,
         InsertInTable(d, a, p)
  PROVE  /\ IInv'
         /\ \A e \in spaces, b \in Address :
              Translate(e, b)' = IF e = d /\ b = a THEN p ELSE Translate(e, b)
<1> DEFINE T == TableOf(d, a)
<1>1. /\ T \in tables /\ T \in Frame /\ T \notin spaces /\ p \in Frame
      /\ DirIndex(a) \in Index /\ TableIndex(a) \in Index
  BY AddressParts
  DEF IInv, TypeOK, TablesPrivate, InsertInTable, TableOf, HasTable
<1>2. /\ mem' \in [Frame -> [Index -> Entry]]
      /\ \A f \in Frame \ {T} : mem'[f] = mem[f]
      /\ mem'[T] = [mem[T] EXCEPT ![TableIndex(a)] = EntryOf(p)]
  BY <1>1, Entries DEF IInv, TypeOK, InsertInTable
<1>3. /\ \A i \in Index \ {TableIndex(a)} : mem'[T][i] = mem[T][i]
      /\ mem'[T][TableIndex(a)].present /\ mem'[T][TableIndex(a)].frame = p
  BY <1>1, <1>2, Entries DEF IInv, TypeOK
<1>4. \A e \in spaces : mem'[e] = mem[e]
  BY <1>1, <1>2 DEF IInv, TypeOK
<1>5. TypeOK' /\ TablesPrivate'
  BY <1>2, <1>4 DEF IInv, TypeOK, TablesPrivate, InsertInTable
<1>6. ASSUME NEW e \in spaces, NEW b \in Address
      PROVE  Translate(e, b)' = IF e = d /\ b = a THEN p ELSE Translate(e, b)
  <2>1. DirIndex(b) \in Index /\ TableIndex(b) \in Index
    BY AddressParts
  <2>2. HasTable(e, b)' = HasTable(e, b) /\ TableOf(e, b)' = TableOf(e, b)
    BY <1>4 DEF HasTable, TableOf
  <2>3. CASE HasTable(e, b) /\ TableOf(e, b) = T
    <3>1. e = d /\ DirIndex(b) = DirIndex(a)
      BY <1>1, <2>1, <2>3
      DEF IInv, TablesPrivate, InsertInTable, HasTable, TableOf
    <3>2. b = a <=> TableIndex(b) = TableIndex(a)
      BY <3>1, AddressParts
    <3> QED
      BY <1>3, <2>1, <2>2, <2>3, <3>1, <3>2 DEF Translate
  <2>4. CASE ~ (HasTable(e, b) /\ TableOf(e, b) = T)
    <3>1. ~ (e = d /\ b = a)
      BY <2>4 DEF InsertInTable
    <3>2. HasTable(e, b) => TableOf(e, b) \in Frame \ {T}
      BY <2>1, <2>4 DEF IInv, TypeOK, TablesPrivate, HasTable, TableOf
    <3> HIDE DEF T
    <3>3. Translate(e, b)' = Translate(e, b)
      BY <1>2, <2>2, <3>2 DEF Translate
    <3> QED
      BY <3>1, <3>3
  <2> QED
    BY <2>3, <2>4
<1>7. MapsLivePages'
  BY <1>6 DEF IInv, MapsLivePages, InsertInTable
<1> QED
  BY <1>5, <1>6, <1>7 DEF IInv

LEMMA FreeInv ==
  ASSUME IInv, \/ \E d \in spaces : FreeSpace(d)
               \/ \E p \in pages : FreePage(p)
  PROVE  /\ IInv'
         /\ \A e \in spaces, b \in Address : Translate(e, b)' = Translate(e, b)
<1>1. TypeOK' /\ TablesPrivate'
  BY DEF IInv, TypeOK, TablesPrivate, FreeSpace, FreePage
<1>2. mem' = mem
  BY DEF FreeSpace, FreePage
<1>3. \A e \in spaces, b \in Address : Translate(e, b)' = Translate(e, b)
  BY <1>2 DEF Translate, TableOf, HasTable
<1>4. MapsLivePages'
  BY <1>3 DEF IInv, MapsLivePages, FreeSpace, FreePage
<1> QED
  BY <1>1, <1>3, <1>4 DEF IInv

\* What an assertion stops, and what stutters, changes no memory.
LEMMA QuietInv ==
  ASSUME IInv, \/ NoMemory
               \/ \E d \in spaces, a \in Address : LookupUnmapped(d, a)
               \/ Halted
               \/ UNCHANGED vars
  PROVE  IInv'
<1>1. UNCHANGED <<mem, spaces, tables, pages>> /\ failed' \in BOOLEAN
  BY DEF IInv, TypeOK, NoMemory, LookupUnmapped, Halted, vars
<1>2. TypeOK' /\ TablesPrivate'
  BY <1>1 DEF IInv, TypeOK, TablesPrivate
<1>3. MapsLivePages'
  BY <1>1 DEF IInv, MapsLivePages, Translate, TableOf, HasTable
<1> QED
  BY <1>2, <1>3 DEF IInv

LEMMA StepInv == IInv /\ [Next]_vars => IInv'
<1> SUFFICES ASSUME IInv, [Next]_vars
             PROVE  IInv'
  OBVIOUS
<1>1. CASE \E f \in Frame : CreateSpace(f) \/ CreatePage(f)
  BY <1>1, CreateSpaceInv, CreatePageInv
<1>2. CASE \E d \in spaces : Use(d)
  BY <1>2, InsertInNewTableInv, InsertInTableInv, QuietInv, FreeInv DEF Use, Insert
<1>3. CASE \E p \in pages : FreePage(p)
  BY <1>3, FreeInv
<1>4. CASE NoMemory \/ Halted \/ UNCHANGED vars
  BY <1>4, QuietInv
<1> QED
  BY <1>1, <1>2, <1>3, <1>4 DEF Next

\* Every state of the program satisfies the invariant.
THEOREM Invariance == Spec => []IInv
<1> QED
  BY InitInv, StepInv, PTL DEF Spec

\* Type correctness of the frames, the directories and the tables in them.
THEOREM TypeCorrect == Spec => []TypeOK
<1>1. IInv => TypeOK
  BY DEF IInv
<1> QED
  BY <1>1, Invariance, PTL

\* A frame has one use, and a table belongs to one entry of one directory,
\* with any number of frames: insert_page_into_address_space never writes
\* through a table of another address space.
THEOREM Privacy == Spec => [](TypeOK /\ TablesPrivate)
<1>1. IInv => TypeOK /\ TablesPrivate
  BY DEF IInv
<1> QED
  BY <1>1, Invariance, PTL

\* get_page_from_address_space returns live pages only, with any number of
\* frames: what a recycled frame held is never taken for a mapping.
THEOREM LivePages == Spec => []MapsLivePages
<1>1. IInv => MapsLivePages
  BY DEF IInv
<1> QED
  BY <1>1, Invariance, PTL
-------------------------------------------------------------------------------
(***************************************************************************)
(* Refinement: each operation is one operation of Translation, or changes  *)
(* no translation.                                                         *)
(***************************************************************************)

\* The map a step leaves, when it is known address by address.
LEMMA MapAfter ==
  ASSUME NEW m \in [Frame -> [Address -> Frame \union {NoFrame}]],
         \A e \in Frame, b \in Address :
           m[e][b] = IF e \in spaces' THEN Translate(e, b)' ELSE NoFrame
  PROVE  SpaceMap' = m
  BY DEF SpaceMap

LEMMA MapType ==
  ASSUME IInv
  PROVE  /\ SpaceMap \in [Frame -> [Address -> Frame \union {NoFrame}]]
         /\ \A e \in Frame, b \in Address :
              SpaceMap[e][b] = IF e \in spaces THEN Translate(e, b) ELSE NoFrame
  BY DEF SpaceMap, IInv, TypeOK, MapsLivePages

\* A step that changes no directory and no translation is a stutter.
LEMMA Unmoved ==
  ASSUME IInv, UNCHANGED spaces,
         \A e \in spaces, b \in Address : Translate(e, b)' = Translate(e, b)
  PROVE  UNCHANGED <<spaces, SpaceMap>>
<1>1. SpaceMap' = SpaceMap
  BY MapType, MapAfter
<1> QED
  BY <1>1

LEMMA CreateSpaceRefines ==
  ASSUME IInv, NEW d \in Frame, CreateSpace(d)
  PROVE  Spaces!Next
<1>1. d \notin spaces /\ spaces' = spaces \union {d}
  BY DEF CreateSpace, Unused
<1>2. SpaceMap' = SpaceMap
  BY <1>1, CreateSpaceInv, MapType, MapAfter
<1> QED
  BY <1>1, <1>2 DEF Spaces!Next, Spaces!Create

\* Both branches of insert_page_into_address_space map the page.
LEMMA InsertRefines ==
  ASSUME IInv, NEW d \in spaces, NEW a \in Address, NEW p \in pages,
         Insert(d, a, p)
  PROVE  Spaces!Map(d, a, p)
<1>1. d \in Frame /\ p \in Frame
  BY DEF IInv, TypeOK
<1>2. spaces' = spaces
  BY DEF Insert, InsertInNewTable, InsertInTable
<1>3. \A e \in spaces, b \in Address :
        Translate(e, b)' = IF e = d /\ b = a THEN p ELSE Translate(e, b)
  BY InsertInNewTableInv, InsertInTableInv DEF Insert
<1> DEFINE m == [SpaceMap EXCEPT ![d] = [@ EXCEPT ![a] = p]]
<1>4. m \in [Frame -> [Address -> Frame \union {NoFrame}]]
  BY <1>1, MapType
<1>5. \A e \in Frame, b \in Address :
        m[e][b] = IF e \in spaces' THEN Translate(e, b)' ELSE NoFrame
  BY <1>1, <1>2, <1>3, MapType
<1> HIDE DEF m
<1>6. SpaceMap' = m
  BY <1>4, <1>5, MapAfter
<1> QED
  BY <1>1, <1>2, <1>6 DEF m, Spaces!Map

LEMMA FreeSpaceRefines ==
  ASSUME IInv, NEW d \in spaces, FreeSpace(d)
  PROVE  Spaces!Next
<1>1. d \in Frame /\ spaces' = spaces \ {d}
  BY DEF IInv, TypeOK, FreeSpace
<1> DEFINE m == [SpaceMap EXCEPT ![d] = Spaces!Empty]
<1>2. m \in [Frame -> [Address -> Frame \union {NoFrame}]]
  BY <1>1, MapType DEF Spaces!Empty
<1>3. \A e \in Frame, b \in Address :
        m[e][b] = IF e \in spaces' THEN Translate(e, b)' ELSE NoFrame
  BY <1>1, FreeInv, MapType DEF Spaces!Empty
<1> HIDE DEF m
<1>4. SpaceMap' = m
  BY <1>2, <1>3, MapAfter
<1> QED
  BY <1>1, <1>4 DEF m, Spaces!Next, Spaces!Destroy

LEMMA StepRefines ==
  ASSUME IInv, [Next]_vars
  PROVE  [Spaces!Next]_<<spaces, SpaceMap>>
<1>1. CASE \E f \in Frame : CreateSpace(f)
  BY <1>1, CreateSpaceRefines
<1>2. CASE \E p \in Frame : CreatePage(p)
  BY <1>2, CreatePageInv, Unmoved DEF CreatePage
<1>3. CASE \E d \in spaces : Use(d)
  <2> PICK d \in spaces : Use(d)
    BY <1>3
  <2>1. CASE \E a \in Address : LookupUnmapped(d, a)
    BY <2>1, Unmoved DEF LookupUnmapped, Translate, TableOf, HasTable
  <2>2. CASE \E a \in Address, p \in pages : Insert(d, a, p)
    <3>1. PICK a \in Address, p \in pages : Insert(d, a, p)
      BY <2>2
    <3>2. Spaces!Map(d, a, p)
      BY <3>1, InsertRefines
    <3>3. d \in Frame /\ p \in Frame
      BY DEF IInv, TypeOK
    <3> QED
      BY <3>2, <3>3 DEF Spaces!Next
  <2> QED
    BY <2>1, <2>2, FreeSpaceRefines DEF Use
<1>4. CASE \E p \in pages : FreePage(p)
  BY <1>4, FreeInv, Unmoved DEF FreePage
<1>5. CASE NoMemory \/ Halted \/ UNCHANGED vars
  BY <1>5, Unmoved
  DEF NoMemory, Halted, vars, Translate, TableOf, HasTable
<1> QED
  BY <1>1, <1>2, <1>3, <1>4, <1>5 DEF Next

LEMMA InitRefines == Init => Spaces!Init
  BY DEF Init, SpaceMap, Spaces!Init, Spaces!Empty

\* With any number of frames and indexes, the page tables are a map from the
\* addresses of each directory to pages: an insertion changes one translation
\* of one directory, whatever frames it takes and whatever they held.
THEOREM Refinement == Spec => ImplementsTranslation
<1> QED
  BY InitRefines, InitInv, StepInv, StepRefines, PTL
  DEF Spec, ImplementsTranslation, Spaces!Spec

\* With any number of frames and indexes, insert_page_into_address_space maps
\* the page it is given, at its address and in its directory, whether it finds
\* a table or makes one, and leaves every other translation as it was.
THEOREM InsertionMaps == Spec => InsertsThePage
<1>1. ASSUME IInv, NEW d \in spaces, NEW a \in Address, NEW p \in pages,
             Insert(d, a, p)
      PROVE  Spaces!Map(d, a, p)
  BY <1>1, InsertRefines
<1>2. IInv => [\A d \in spaces, a \in Address, p \in pages :
                 Insert(d, a, p) => Spaces!Map(d, a, p)]_vars
  BY <1>1
<1> QED
  BY <1>2, Invariance, PTL DEF InsertsThePage
===============================================================================
