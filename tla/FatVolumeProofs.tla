--------------------------- MODULE FatVolumeProofs ---------------------------
(***************************************************************************)
(* For every volume, and any number of open files: positions stay inside   *)
(* their files, if sizes stay below 2^32 bytes together; what is written   *)
(* through a handle, however old its copy of the entry, goes to the place  *)
(* of its own file, if no handle was made of other data; and transfers     *)
(* move the bytes of their files.                                          *)
(***************************************************************************)
EXTENDS FatVolume, FiniteSetTheorems, WellFoundedInduction, TLAPS

\* A request and a file together stay below 2^32 bytes: fat_rw adds and
\* subtracts them as DWORDs.
Fitting(e) == e.size <= MaxSize
SizesFit ==
  /\ \A n \in Sizes : n + MaxSize < Word
  /\ \A m \in Images, i \in 1 .. Slots : Fitting(m.dir[i])
  /\ \A f \in Garbage : Fitting(f.entry)

\* No memory that held other data names the directory, read as a FAT_FILE.
CleanMemory == \A f \in Garbage : f.dir # DirCluster

\* What a FAT_FILE says of its entry's place: it has one, it lies in another
\* cluster, or its creation was given up at the last place.
Placed(d, f) ==
  /\ f.index \in Scanned(d) /\ d[f.index].start = f.entry.start /\ f.entry.name # Null
GivenUp(d, f) ==
  /\ f.index = Slots /\ f.entry.start = 0 /\ f.entry.name # Null
  /\ Slots \in Scanned(d) => d[Slots].start = 0
Held(d, f) ==
  CleanMemory => f.dir # DirCluster \/ Placed(d, f) \/ GivenUp(d, f)

\* Places stay, and the last one is taken only by what was given up.
Kept(d, e) ==
  CleanMemory =>
    /\ \A i \in Scanned(d) : i \in Scanned(e) /\ e[i].start = d[i].start
    /\ Slots \in Scanned(e) => Slots \in Scanned(d) \/ e[Slots].start = 0

\* The size of a FAT_FILE, and of one with a position.
Sized(f)   == SizesFit => Fitting(f.entry)
Fits(f)    == SizesFit => f.pos <= f.entry.size /\ Fitting(f.entry)

OpenFile == [entry : Entry, dir : Cluster, index : 1 .. Slots,
             pos : Nat, mode : Modes \union {{}}]

Typed ==
  /\ dir \in [1 .. Slots -> Entry]
  /\ stale \in FatFile
  /\ open \in [Handle -> OpenFile]

\* What is moved is the file's, or makes it larger.
Moves ==
  /\ io.kind \in {"read", "write"} /\ io.h \in Handle
  /\ io.offset \in 0 .. ClusterSize - 1 /\ io.left \in Nat /\ io.done \in Nat
  /\ SizesFit =>
       /\ io.kind = "read" => Position + io.left <= open[io.h].entry.size
       /\ io.kind = "write" => Position + io.left <= MaxSize

Files ==
  /\ Held(dir, stale) /\ Sized(stale)
  /\ \A i \in 1 .. Slots : SizesFit => Fitting(dir[i])
  /\ \A h \in Handle : Held(dir, open[h]) /\ Fits(open[h])

Inv == Typed /\ Files /\ (io = NoIo \/ Moves)
-------------------------------------------------------------------------------
(***************************************************************************)
(* The loops of fat_rw.  A recursive function is a choice among those that *)
(* satisfy its equation: one is shown to exist, extended number by number, *)
(* and all agree.                                                          *)
(***************************************************************************)
\* The least number principle, from the well-foundedness of strict inclusion
\* on finite sets.
LEMMA LeastNumber ==
  ASSUME NEW S \in SUBSET Nat, S # {}
  PROVE  \E m \in S : \A n \in S : m <= n
<1> PICK b \in S : TRUE
  OBVIOUS
<1> DEFINE U == 0 .. b
           R == StrictSubsetOrdering(U)
           T == {0 .. m : m \in {n \in S : n <= b}}
<1>1. FiniteSubsetsOf(U) = SUBSET U
  <2>1. IsFiniteSet(U)
    BY FS_Interval
  <2> HIDE DEF U
  <2>2. QED
    BY <2>1, FS_FiniteSubsetsOfFinite
<1>2. IsWellFoundedOn(R, FiniteSubsetsOf(U))
  BY FS_StrictSubsetOrderingWellFounded
<1>3. T \subseteq SUBSET U /\ 0 .. b \in T
  OBVIOUS
<1> HIDE DEF R, T
<1>4. PICK x \in T : \A y \in T : ~ (<<y, x>> \in R)
  <2> DEFINE F == SUBSET U
  <2>1. IsWellFoundedOn(R, F) /\ T \subseteq F /\ T # {}
    BY <1>1, <1>2, <1>3
  <2> HIDE DEF F
  <2>2. QED
    BY <2>1, WFMin
<1>5. PICK m \in S : m <= b /\ x = 0 .. m
  BY DEF T
<1>6. ASSUME NEW n \in S, n < m
      PROVE  FALSE
  <2>1. 0 .. n \in T /\ 0 .. n \subseteq x /\ 0 .. n # x
    BY <1>5, <1>6 DEF T
  <2>2. <<0 .. n, x>> \in R
    BY <1>3, <2>1 DEF R, StrictSubsetOrdering
  <2>3. QED
    BY <1>4, <2>1, <2>2
<1>7. QED
  BY <1>5, <1>6


\* One cluster further along a chain.
Further(f, x) == IF x < 0 THEN x ELSE After(f, x)

IsWalk(w, f, c, i) ==
  w = [k \in 0 .. i |-> IF k = 0 THEN c
                        ELSE IF w[k - 1] < 0 THEN w[k - 1] ELSE After(f, w[k - 1])]

\* What the equation says of each number.
LEMMA WalkFacts ==
  ASSUME NEW f, NEW c, NEW i \in Nat, NEW w, IsWalk(w, f, c, i)
  PROVE  w[0] = c /\ \A k \in 1 .. i : w[k] = Further(f, w[k - 1])
<1> DEFINE v == [k \in 0 .. i |-> IF k = 0 THEN c
                  ELSE IF w[k - 1] < 0 THEN w[k - 1] ELSE After(f, w[k - 1])]
<1>1. w = v
  BY DEF IsWalk
<1>2. v[0] = c /\ \A k \in 1 .. i : v[k] = Further(f, w[k - 1])
  BY DEF Further
<1> HIDE DEF v
<1>3. QED
  BY <1>1, <1>2

\* The walks of the loop exist, of any length.
LEMMA WalkExists ==
  ASSUME NEW f, NEW c, NEW i \in Nat PROVE \E w : IsWalk(w, f, c, i)
<1> DEFINE B == {n \in Nat : ~ \E w : IsWalk(w, f, c, n)}
<1>1. SUFFICES ASSUME B # {} PROVE FALSE
  OBVIOUS
<1>2. PICK m \in B : \A n \in B : m <= n
  <2> HIDE DEF B
  <2>1. B \in SUBSET Nat
    BY DEF B
  <2>2. QED
    BY <1>1, <2>1, LeastNumber
<1>3. m # 0
  <2>1. IsWalk([k \in 0 .. 0 |-> c], f, c, 0)
    BY DEF IsWalk
  <2>2. QED
    BY <2>1
<1>4. PICK w : IsWalk(w, f, c, m - 1)
  <2>1. m - 1 \in Nat /\ m - 1 \notin B
    BY <1>2, <1>3
  <2>2. QED
    BY <2>1
<1>5. w[0] = c /\ \A k \in 1 .. m - 1 : w[k] = Further(f, w[k - 1])
  <2>1. m - 1 \in Nat
    BY <1>3
  <2>2. QED
    BY <1>4, <2>1, WalkFacts
<1> DEFINE v == [k \in 0 .. m |-> IF k = m THEN Further(f, w[m - 1]) ELSE w[k]]
<1>6. \A k \in 0 .. m : v[k] = IF k = 0 THEN c ELSE Further(f, v[k - 1])
  <2>1. v[0] = c
    BY <1>3, <1>5
  <2>2. \A k \in 1 .. m - 1 : v[k] = w[k] /\ v[k - 1] = w[k - 1]
    OBVIOUS
  <2>3. v[m] = Further(f, w[m - 1]) /\ v[m - 1] = w[m - 1]
    BY <1>3
  <2> HIDE DEF v
  <2>4. QED
    BY <1>5, <2>1, <2>2, <2>3
<1>7. v = [k \in 0 .. m |-> v[k]]
  OBVIOUS
<1> HIDE DEF v
<1>8. IsWalk(v, f, c, m)
  BY <1>6, <1>7 DEF IsWalk, Further
<1>9. QED
  BY <1>8

\* Along is such a walk.
LEMMA AlongWalk ==
  ASSUME NEW f, NEW c, NEW i \in Nat
  PROVE  \E w : IsWalk(w, f, c, i) /\ Along(f, c, i) = w[i]
<1> DEFINE walk == CHOOSE w : IsWalk(w, f, c, i)
<1>1. IsWalk(walk, f, c, i)
  <2> HIDE DEF IsWalk
  <2>1. QED
    BY WalkExists
<1>2. Along(f, c, i) = walk[i]
  BY DEF Along, IsWalk
<1>3. QED
  BY <1>1, <1>2

\* Walks agree where both are defined.
LEMMA WalksAgree ==
  ASSUME NEW f, NEW c, NEW i \in Nat, NEW j \in Nat, i <= j,
         NEW w, IsWalk(w, f, c, i), NEW v, IsWalk(v, f, c, j)
  PROVE  v[i] = w[i]
<1> DEFINE B == {k \in 0 .. i : v[k] # w[k]}
<1>1. SUFFICES ASSUME B # {} PROVE FALSE
  OBVIOUS
<1>2. PICK m \in B : \A n \in B : m <= n
  <2> HIDE DEF B
  <2>1. B \in SUBSET Nat
    BY DEF B
  <2>2. QED
    BY <1>1, <2>1, LeastNumber
<1>3. /\ w[0] = c /\ \A k \in 1 .. i : w[k] = Further(f, w[k - 1])
      /\ v[0] = c /\ \A k \in 1 .. j : v[k] = Further(f, v[k - 1])
  BY WalkFacts
<1>4. m # 0
  BY <1>2, <1>3
<1>5. v[m - 1] = w[m - 1]
  BY <1>2, <1>4
<1>6. m \in 1 .. i /\ m \in 1 .. j
  BY <1>2, <1>4
<1>7. QED
  BY <1>2, <1>3, <1>5, <1>6

\* A file of size zero begins at its first cluster.
LEMMA StartsAtStart == ASSUME NEW f, NEW c PROVE Along(f, c, 0) = c
BY AlongWalk, WalkFacts

\* The first loop of fat_rw, turn by turn.
LEMMA AlongNext ==
  ASSUME NEW f, NEW c, NEW i \in Nat
  PROVE  Along(f, c, 0) = c /\ Along(f, c, i + 1) = Further(f, Along(f, c, i))
<1>1. PICK w : IsWalk(w, f, c, i) /\ Along(f, c, i) = w[i]
  BY AlongWalk
<1>2. PICK v : IsWalk(v, f, c, i + 1) /\ Along(f, c, i + 1) = v[i + 1]
  BY AlongWalk, i + 1 \in Nat
<1>3. v[i] = w[i]
  BY <1>1, <1>2, WalksAgree, i + 1 \in Nat, i <= i + 1
<1>4. v[i + 1] = Further(f, v[i + 1 - 1])
  <2>1. \A n \in Nat : IsWalk(v, f, c, n) =>
          \A k \in 1 .. n : v[k] = Further(f, v[k - 1])
    BY WalkFacts
  <2>2. i + 1 \in Nat /\ i + 1 \in 1 .. i + 1
    OBVIOUS
  <2>3. QED
    BY <1>2, <2>1, <2>2
<1>5. QED
  BY <1>1, <1>2, <1>3, <1>4, StartsAtStart

Fat == [0 .. FatBytes - 1 -> Byte]

\* The search for a free cluster ends at one, or finds none.
LEMMA FreeClusterType == ASSUME NEW f PROVE FreeCluster(f) \in Cluster \union {Fail}
<1> DEFINE S == {c \in Cluster : Get(f, c) = Free}
<1>1. CASE S = {}
  BY <1>1 DEF FreeCluster
<1>2. CASE S # {}
  <2>1. S \in SUBSET Nat
    BY VolumeAssumption DEF Cluster
  <2>2. PICK m \in S : \A n \in S : m <= n
    <3> HIDE DEF S
    <3>1. QED
      BY <1>2, <2>1, LeastNumber
  <2>3. \A d \in 0 .. m - 1 : d \in Cluster /\ ~ (m <= d)
    BY <2>2, VolumeAssumption DEF Cluster
  <2>4. m \in Cluster /\ Get(f, m) = Free /\ \A d \in 0 .. m - 1 : Get(f, d) # Free
    BY <2>2, <2>3
  <2> HIDE DEF S
  <2>5. FreeCluster(f) = CHOOSE c \in Cluster : Get(f, c) = Free
                           /\ \A d \in 0 .. c - 1 : Get(f, d) # Free
    BY <2>4 DEF FreeCluster
  <2>6. QED
    BY <2>4, <2>5
<1>3. QED
  BY <1>1, <1>2

\* An entry that is set leaves a FAT of bytes.
LEMMA SetType ==
  ASSUME NEW f \in Fat, NEW c, NEW v \in Cluster \union {Fail} PROVE Set(f, c, v) \in Fat
<1>1. v # Fail => v % 256 \in Byte
  BY VolumeAssumption DEF Cluster, Byte
<1>2. 255 \in Byte
  BY DEF Byte
<1>3. QED
  BY <1>1, <1>2 DEF Set, Fat

\* One turn of the second loop, and the loop.
Linked(g) ==
  LET x == FreeCluster(g.fat)
  IN  IF g.full \/ x = Fail THEN [g EXCEPT !.full = TRUE]
      ELSE [fat |-> Set(g.fat, g.last, x), last |-> x, full |-> FALSE]
Unlinked(f, c) == [fat |-> f, last |-> c, full |-> FALSE]

IsLinking(w, f, c, n) ==
  w = [j \in 0 .. n |-> IF j = 0 THEN Unlinked(f, c) ELSE Linked(w[j - 1])]

\* A loop that stops early has found no free cluster.
Linking(g) ==
  /\ g \in [fat : Fat, last : Int, full : BOOLEAN]
  /\ g.full => FreeCluster(g.fat) = Fail

\* Linking one more cluster keeps what growing a file has been doing.
LEMMA LinkedTurn == ASSUME NEW g, Linking(g) PROVE Linking(Linked(g))
<1> DEFINE x == FreeCluster(g.fat)
<1>1. x \in Cluster \union {Fail}
  BY FreeClusterType
<1>2. CASE g.full \/ x = Fail
  <2>1. Linked(g) = [g EXCEPT !.full = TRUE]
    BY <1>2 DEF Linked
  <2>2. x = Fail
    BY <1>2 DEF Linking
  <2> HIDE DEF x
  <2>3. Linked(g).fat = g.fat /\ Linked(g) \in [fat : Fat, last : Int, full : BOOLEAN]
    BY <2>1 DEF Linking
  <2>4. QED
    BY <2>2, <2>3 DEF Linking, x
<1>3. CASE ~ (g.full \/ x = Fail)
  <2>1. Linked(g) = [fat |-> Set(g.fat, g.last, x), last |-> x, full |-> FALSE]
    BY <1>3 DEF Linked
  <2>2. x \in Cluster /\ x \in Int
    BY <1>1, <1>3, VolumeAssumption DEF Cluster
  <2> HIDE DEF x
  <2>3. Set(g.fat, g.last, x) \in Fat
    BY <2>2, SetType DEF Linking
  <2>4. QED
    BY <2>1, <2>2, <2>3 DEF Linking
<1>4. QED
  BY <1>2, <1>3

\* What the equation says of each number.
LEMMA LinkingFacts ==
  ASSUME NEW f, NEW c, NEW n \in Nat, NEW w, IsLinking(w, f, c, n)
  PROVE  w[0] = Unlinked(f, c) /\ \A j \in 1 .. n : w[j] = Linked(w[j - 1])
<1> DEFINE v == [j \in 0 .. n |-> IF j = 0 THEN Unlinked(f, c) ELSE Linked(w[j - 1])]
<1>1. w = v
  BY DEF IsLinking
<1>2. v[0] = Unlinked(f, c) /\ \A j \in 1 .. n : v[j] = Linked(w[j - 1])
  OBVIOUS
<1> HIDE DEF v
<1>3. QED
  BY <1>1, <1>2

\* The second loop exists, for any number of clusters.
LEMMA LinkingExists ==
  ASSUME NEW f, NEW c, NEW n \in Nat PROVE \E w : IsLinking(w, f, c, n)
<1> DEFINE B == {j \in Nat : ~ \E w : IsLinking(w, f, c, j)}
<1>1. SUFFICES ASSUME B # {} PROVE FALSE
  OBVIOUS
<1>2. PICK m \in B : \A j \in B : m <= j
  <2> HIDE DEF B
  <2>1. B \in SUBSET Nat
    BY DEF B
  <2>2. QED
    BY <1>1, <2>1, LeastNumber
<1>3. m # 0
  <2>1. IsLinking([j \in 0 .. 0 |-> Unlinked(f, c)], f, c, 0)
    BY DEF IsLinking
  <2>2. QED
    BY <2>1
<1>4. PICK w : IsLinking(w, f, c, m - 1)
  <2>1. m - 1 \in Nat /\ m - 1 \notin B
    BY <1>2, <1>3
  <2>2. QED
    BY <2>1
<1>5. w[0] = Unlinked(f, c) /\ \A j \in 1 .. m - 1 : w[j] = Linked(w[j - 1])
  <2>1. m - 1 \in Nat
    BY <1>3
  <2>2. QED
    BY <1>4, <2>1, LinkingFacts
<1> DEFINE v == [j \in 0 .. m |-> IF j = m THEN Linked(w[m - 1]) ELSE w[j]]
<1>6. \A j \in 0 .. m : v[j] = IF j = 0 THEN Unlinked(f, c) ELSE Linked(v[j - 1])
  <2>1. v[0] = Unlinked(f, c)
    BY <1>3, <1>5
  <2>2. \A j \in 1 .. m - 1 : v[j] = w[j] /\ v[j - 1] = w[j - 1]
    OBVIOUS
  <2>3. v[m] = Linked(w[m - 1]) /\ v[m - 1] = w[m - 1]
    BY <1>3
  <2> HIDE DEF v
  <2>4. QED
    BY <1>5, <2>1, <2>2, <2>3
<1>7. v = [j \in 0 .. m |-> v[j]]
  OBVIOUS
<1> HIDE DEF v
<1>8. IsLinking(v, f, c, m)
  BY <1>6, <1>7 DEF IsLinking
<1>9. QED
  BY <1>8

\* The growth of a file leaves a FAT of bytes, and is cut short only when no
\* cluster is free any more.
LEMMA GrownType ==
  ASSUME NEW f \in Fat, NEW c \in Int, NEW n \in Nat
  PROVE  Linking(Grown(f, c, n))
<1> DEFINE linked == CHOOSE w : IsLinking(w, f, c, n)
<1>1. IsLinking(linked, f, c, n)
  <2> HIDE DEF IsLinking
  <2>1. QED
    BY LinkingExists
<1>2. Links(f, c, n) = linked[n]
  BY DEF Links, IsLinking, Linked, Unlinked
<1> HIDE DEF linked
<1>3. linked[0] = Unlinked(f, c) /\ \A j \in 1 .. n : linked[j] = Linked(linked[j - 1])
  BY <1>1, LinkingFacts
<1>4. \A j \in 0 .. n : Linking(linked[j])
  <2> DEFINE B == {j \in 0 .. n : ~ Linking(linked[j])}
  <2>1. SUFFICES ASSUME B # {} PROVE FALSE
    OBVIOUS
  <2>2. PICK m \in B : \A j \in B : m <= j
    <3> HIDE DEF B
    <3>1. B \in SUBSET Nat
      BY DEF B
    <3>2. QED
      BY <2>1, <3>1, LeastNumber
  <2>3. Linking(linked[0])
    BY <1>3 DEF Unlinked, Linking
  <2>4. m \in 1 .. n /\ m - 1 \in 0 .. n /\ m - 1 \notin B
    BY <2>2, <2>3
  <2>5. QED
    BY <1>3, <2>2, <2>4, LinkedTurn
<1>5. Linking(Links(f, c, n))
  BY <1>2, <1>4
<1> DEFINE g == Links(f, c, n)
<1>6. CASE g.full
  BY <1>5, <1>6 DEF Grown
<1>7. CASE ~ g.full
  <2>1. Grown(f, c, n) = [g EXCEPT !.fat = Set(g.fat, g.last, Fail)]
    BY <1>7 DEF Grown
  <2> HIDE DEF g
  <2>2. Set(g.fat, g.last, Fail) \in Fat
    BY <1>5, SetType DEF Linking, g
  <2>3. QED
    BY <1>5, <1>7, <2>1, <2>2 DEF Linking, g
<1>8. QED
  BY <1>6, <1>7

\* What is read of the FAT is a number.
LEMMA FurtherType == ASSUME NEW f \in Fat, NEW x \in Int PROVE Further(f, x) \in Int
<1>1. CASE x < 0
  BY <1>1 DEF Further
<1>2. CASE x >= 0 /\ InFat(x)
  <2>1. At(x) \in 0 .. FatBytes - 1 /\ At(x) + 1 \in 0 .. FatBytes - 1
    BY <1>2, VolumeAssumption DEF InFat, At
  <2>2. \A b \in 0 .. FatBytes - 1 : f[b] \in Int
    <3>1. Byte \subseteq Int
      BY DEF Byte
    <3>2. QED
      BY <3>1 DEF Fat
  <2>3. Get(f, x) \in Int
    BY <2>1, <2>2 DEF Get, Fail
  <2>4. QED
    BY <1>2, <2>3 DEF Further, After, Fail
<1>3. CASE x >= 0 /\ ~ InFat(x)
  BY <1>3 DEF Further, After, Wild
<1>4. QED
  BY <1>1, <1>2, <1>3

\* What is met on a chain is an integer.
LEMMA AlongType ==
  ASSUME NEW f \in Fat, NEW c \in Int, NEW i \in Nat PROVE Along(f, c, i) \in Int
<1> DEFINE B == {n \in Nat : Along(f, c, n) \notin Int}
<1>1. SUFFICES ASSUME B # {} PROVE FALSE
  OBVIOUS
<1>2. PICK m \in B : \A n \in B : m <= n
  <2> HIDE DEF B
  <2>1. B \in SUBSET Nat
    BY DEF B
  <2>2. QED
    BY <1>1, <2>1, LeastNumber
<1>3. m # 0
  BY <1>2, StartsAtStart
<1>4. m - 1 \in Nat /\ m - 1 \notin B
  BY <1>2, <1>3
<1>5. Along(f, c, m - 1 + 1) = Further(f, Along(f, c, m - 1))
  BY <1>4, AlongNext
<1>6. Along(f, c, m - 1 + 1) \in Int
  BY <1>4, <1>5, FurtherType
<1>7. QED
  BY <1>2, <1>6
-------------------------------------------------------------------------------
\* A place that is kept is the file's place still.
LEMMA HeldKept ==
  ASSUME NEW d, NEW e, NEW f, Kept(d, e), Held(d, f)
  PROVE  Held(e, f)
  BY DEF Kept, Held, Placed, GivenUp

\* A directory that is not written keeps its places.
LEMMA KeptSame == ASSUME NEW d PROVE Kept(d, d)
  BY DEF Kept

\* The directory's entries, and those that are written to it, are small.
Small(d) == d \in [1 .. Slots -> Entry] /\ \A i \in 1 .. Slots : SizesFit => Fitting(d[i])

\* An entry that is written to its own place keeps the places of all.
LEMMA UpdateKeeps ==
  ASSUME NEW d, Small(d), NEW f, f.entry \in Entry, f.index \in 1 .. Slots, Held(d, f),
         Sized(f)
  PROVE  Small(Updated(d, f)) /\ Kept(d, Updated(d, f)) /\ Held(Updated(d, f), f)
<1>1. CASE f.dir # DirCluster
  BY <1>1, KeptSame DEF Updated
<1>2. CASE f.dir = DirCluster
  <2> DEFINE e == [d EXCEPT ![f.index] = f.entry]
  <2>1. Updated(d, f) = e
    BY <1>2 DEF Updated
  <2>2. e \in [1 .. Slots -> Entry]
    BY DEF Small
  <2>3. \A j \in 1 .. Slots : e[j] = IF j = f.index THEN f.entry ELSE d[j]
    BY DEF Small
  <2> HIDE DEF e
  <2>4. Small(e)
    BY <2>2, <2>3 DEF Small, Sized
  <2>5. ASSUME CleanMemory
        PROVE  /\ \A i \in Scanned(d) : i \in Scanned(e) /\ e[i].start = d[i].start
               /\ Slots \in Scanned(e) => Slots \in Scanned(d) \/ e[Slots].start = 0
    <3>1. Placed(d, f) \/ GivenUp(d, f)
      BY <1>2, <2>5 DEF Held
    <3>2. f.entry.name # Null
      BY <3>1 DEF Placed, GivenUp
    <3>3. \A j \in 1 .. Slots : d[j].name # Null => e[j].name # Null
      BY <2>3, <3>2
    <3>4. \A i \in Scanned(d) : i \in 1 .. Slots /\ \A j \in 1 .. i : j \in 1 .. Slots /\ d[j].name # Null
      BY VolumeAssumption DEF Scanned
    <3>5. Scanned(d) \subseteq Scanned(e)
      BY <3>3, <3>4 DEF Scanned
    <3>6. f.index \in Scanned(d) => d[f.index].start = f.entry.start
      BY <3>1 DEF Placed, GivenUp
    <3>7. \A i \in Scanned(d) : e[i].start = d[i].start
      BY <2>3, <3>4, <3>6
    <3>8. ASSUME Slots \in Scanned(e), Slots \notin Scanned(d) PROVE e[Slots].start = 0
      <4>1. Slots \in 1 .. Slots
        BY VolumeAssumption
      <4>2. CASE GivenUp(d, f)
        BY <2>3, <4>1, <4>2 DEF GivenUp
      <4>3. CASE Placed(d, f)
        <5>1. \A j \in 1 .. Slots : e[j].name # Null
          BY <3>8 DEF Scanned
        <5>2. \A j \in 1 .. Slots : d[j].name # Null
          <6>1. d[f.index].name # Null
            <7>1. f.index \in 1 .. f.index
              OBVIOUS
            <7>2. QED
              BY <3>4, <4>3, <7>1 DEF Placed
          <6>2. QED
            BY <2>3, <5>1, <6>1
        <5>3. Slots \in Scanned(d)
          BY <4>1, <5>2 DEF Scanned
        <5>4. QED
          BY <3>8, <5>3
      <4>4. QED
        BY <3>1, <4>2, <4>3
    <3>9. QED
      BY <3>5, <3>7, <3>8
  <2>6. Kept(d, e)
    BY <2>5 DEF Kept
  <2>7. QED
    BY <2>1, <2>4, <2>6, HeldKept
<1>3. QED
  BY <1>1, <1>2
-------------------------------------------------------------------------------
Good == Inv' /\ Kept(dir, dir')

\* What a scan of the directory meets are entries with a name.
LEMMA FileHeld ==
  ASSUME Typed, NEW i \in Scanned(dir)
  PROVE  dir[i] \in Entry /\ dir[i].name # Null
<1>1. i \in 1 .. i /\ i \in 1 .. Slots
  BY VolumeAssumption DEF Scanned
<1> QED
  BY <1>1 DEF Typed, Scanned

\* A released FAT_FILE may be what the next allocation finds.
LEMMA ReleaseKeeps ==
  ASSUME Typed, Files, NEW d, Kept(dir, d), NEW f,
         f.entry \in Entry, f.dir \in Cluster, f.index \in 1 .. Slots,
         Held(d, f), Sized(f), Release(f)
  PROVE  stale' \in FatFile /\ Held(d, stale') /\ Sized(stale')
<1>1. CASE stale' = stale
  BY <1>1, HeldKept DEF Typed, Files
<1>2. CASE stale' = [entry |-> f.entry, dir |-> f.dir, index |-> f.index]
  BY <1>2 DEF FatFile, Held, Placed, GivenUp, Sized
<1> QED
  BY <1>1, <1>2 DEF Release

\* The handles stay good when only the directory changes under them.
LEMMA HandlesKeep ==
  ASSUME Inv, Kept(dir, dir'), UNCHANGED open
  PROVE  \A h \in Handle : Held(dir', open'[h]) /\ Fits(open'[h])
  BY HeldKept DEF Inv, Files

\* A step that stops the model changes no file.
LEMMA StopsKeeps == ASSUME Inv, NEW why, Stops(why) PROVE Good
<1>1. Closed \in OpenFile /\ Zeros \in FatFile
  BY VolumeAssumption
  DEF Closed, Opened, OpenFile, Zeros, NoEntry, Entry, FatFile, Cluster
<1>2. Held(dir', Closed) /\ Held(dir', Zeros) /\ Fits(Closed) /\ Sized(Zeros)
  BY VolumeAssumption
  DEF Held, Closed, Opened, Zeros, NoEntry, Fits, Sized, Fitting
<1>3. UNCHANGED dir /\ io' = NoIo /\ stale' = Zeros /\ open' = [h \in Handle |-> Closed]
  BY DEF Stops, volume
<1> QED
  BY <1>1, <1>2, <1>3, KeptSame DEF Good, Inv, Typed, Files

\* What fat_create writes for a new file is an entry (fat.c:694-699).
LEMMA NewEntryType == NewEntry \in Entry
<1>1. Clusters \in 2 .. 4084
  BY VolumeAssumption
<1>2. DirName \in Name
  BY VolumeAssumption
<1>3. 0 \in Cluster
  BY <1>1 DEF Cluster
<1>4. QED
  BY <1>2, <1>3 DEF NewEntry, Entry, Free

LEMMA CreateKeeps == ASSUME Inv, NEW n \in Name, Create(n) PROVE Good
<1>1. PICK i \in 1 .. Slots :
        /\ i - 1 \in Scanned(dir) \union {0} /\ i \notin Scanned(dir)
        /\ dir' = IF i = Slots THEN dir
                  ELSE [dir EXCEPT ![i] = NewEntry, ![i + 1] = [@ EXCEPT !.name = Null]]
        /\ Release(File(NewEntry, i))
  BY DEF Create
<1>2. NewEntry \in Entry
  BY NewEntryType
<1>3. Small(dir') /\ Kept(dir, dir')
  <2>1. CASE i = Slots
    BY <1>1, <2>1, KeptSame DEF Inv, Typed, Files, Small
  <2>2. CASE i # Slots
    <3>1. i + 1 \in 1 .. Slots
      BY <1>1, <2>2, VolumeAssumption
    <3>2. dir \in [1 .. Slots -> Entry]
      BY DEF Inv, Typed
    <3>3. [dir[i + 1] EXCEPT !.name = Null] \in Entry
      BY <3>1, <3>2 DEF Entry
    <3>4. dir' = [dir EXCEPT ![i] = NewEntry, ![i + 1] = [dir[i + 1] EXCEPT !.name = Null]]
      BY <1>1, <2>2, <3>1, <3>2
    <3>5. dir' \in [1 .. Slots -> Entry]
      BY <1>2, <3>2, <3>3, <3>4
    <3>6. \A j \in 1 .. Slots :
            dir'[j] = IF j = i + 1 THEN [dir[i + 1] EXCEPT !.name = Null]
                      ELSE IF j = i THEN NewEntry ELSE dir[j]
      BY <3>1, <3>2, <3>4
    <3>7. \A k \in Scanned(dir) : k \in 1 .. Slots /\ k < i
      BY <1>1 DEF Scanned
    <3>8. \A k \in Scanned(dir) : k \in Scanned(dir') /\ dir'[k].start = dir[k].start
      <4> TAKE k \in Scanned(dir)
      <4>1. \A j \in 1 .. k : j \in 1 .. Slots /\ dir'[j] = dir[j] /\ dir[j].name # Null
        <5> TAKE j \in 1 .. k
        <5>1. j \in 1 .. Slots /\ j # i /\ j # i + 1
          BY <3>7, VolumeAssumption
        <5>2. dir[j].name # Null
          BY DEF Scanned
        <5> QED
          BY <3>6, <5>1, <5>2
      <4>2. k \in 1 .. Slots /\ k \in 1 .. k
        BY <3>7
      <4> QED
        BY <4>1, <4>2 DEF Scanned
    <3>9. Slots \notin Scanned(dir')
      <4>1. dir'[i + 1].name = Null
        <5>1. dir'[i + 1] = [dir[i + 1] EXCEPT !.name = Null] /\ dir[i + 1] \in Entry
          BY <3>1, <3>2, <3>6
        <5>2. QED
          BY <5>1 DEF Entry
      <4>2. i + 1 \in 1 .. Slots
        BY <3>1
      <4>3. QED
        BY <4>1, <4>2 DEF Scanned
    <3>10. \A j \in 1 .. Slots : SizesFit => Fitting(dir'[j])
      <4> SUFFICES ASSUME SizesFit, NEW j \in 1 .. Slots PROVE Fitting(dir'[j])
        OBVIOUS
      <4>1. \A k \in 1 .. Slots : Fitting(dir[k])
        BY DEF Inv, Files
      <4>2. Fitting([dir[i + 1] EXCEPT !.name = Null])
        BY <3>1, <3>2, <4>1 DEF Fitting, Entry
      <4>3. Fitting(NewEntry)
        BY VolumeAssumption DEF Fitting, NewEntry
      <4>4. QED
        BY <3>6, <4>1, <4>2, <4>3
    <3> QED
      BY <3>5, <3>8, <3>9, <3>10 DEF Kept, Small
  <2> QED
    BY <2>1, <2>2
<1>4. Held(dir', File(NewEntry, i)) /\ Sized(File(NewEntry, i))
  <2>1. Sized(File(NewEntry, i))
    BY VolumeAssumption DEF Sized, Fitting, File, NewEntry
  <2>2. NewEntry.name # Null /\ NewEntry.start = 0
    BY VolumeAssumption DEF NewEntry, Free
  <2>3. CASE i = Slots
    BY <1>1, <2>1, <2>2, <2>3 DEF Held, GivenUp, File
  <2>4. CASE i # Slots
    <3>1. i + 1 \in 1 .. Slots /\ dir \in [1 .. Slots -> Entry]
      BY <1>1, <2>4, VolumeAssumption DEF Inv, Typed
    <3>2. dir'[i] = NewEntry /\ \A j \in 1 .. i - 1 : dir'[j] = dir[j]
      <4>1. dir' = [[dir EXCEPT ![i] = NewEntry] EXCEPT
                      ![i + 1] = [dir[i + 1] EXCEPT !.name = Null]]
        BY <1>1, <2>4, <3>1
      <4> DEFINE e == [dir EXCEPT ![i] = NewEntry]
      <4>2. DOMAIN e = 1 .. Slots /\ e[i] = NewEntry /\ \A j \in 1 .. i - 1 : e[j] = dir[j]
        BY <3>1
      <4> HIDE DEF e
      <4>3. \A j \in 1 .. i : dir'[j] = e[j]
        <5> SUFFICES ASSUME NEW j \in 1 .. i PROVE dir'[j] = e[j]
          OBVIOUS
        <5>1. dir' = [e EXCEPT ![i + 1] = [dir[i + 1] EXCEPT !.name = Null]]
          BY <4>1 DEF e
        <5>2. j \in 1 .. Slots /\ j # i + 1
          BY <3>1, VolumeAssumption
        <5>3. QED
          BY <4>2, <5>1, <5>2
      <4>4. QED
        BY <4>2, <4>3
    <3>3. \A j \in 1 .. i - 1 : dir[j].name # Null
      <4>1. CASE i = 1
        BY <4>1
      <4>2. CASE i # 1
        BY <1>1, <4>2 DEF Scanned
      <4>3. QED
        BY <4>1, <4>2
    <3>4. \A j \in 1 .. i : dir'[j].name # Null
      BY <2>2, <3>2, <3>3
    <3>5. i \in Scanned(dir')
      BY <3>4 DEF Scanned
    <3>6. Placed(dir', File(NewEntry, i))
      BY <2>2, <3>2, <3>5 DEF Placed, File
    <3>7. QED
      BY <2>1, <3>6 DEF Held
  <2>5. QED
    BY <2>3, <2>4
<1>5. File(NewEntry, i).dir \in Cluster /\ File(NewEntry, i).index \in 1 .. Slots
  BY VolumeAssumption DEF File
<1>6. stale' \in FatFile /\ Held(dir', stale') /\ Sized(stale')
  <2>1. File(NewEntry, i).entry \in Entry
    BY <1>2 DEF File
  <2>2. QED
    BY <1>1, <1>3, <1>4, <1>5, <2>1, ReleaseKeeps DEF Inv
<1>7. UNCHANGED open /\ io = NoIo /\ io' = NoIo
  BY DEF Create, Idle
<1> QED
  BY <1>3, <1>6, <1>7, HandlesKeep DEF Good, Inv, Typed, Files, Small

\* Deleting, renaming and opening a file that is there: a fresh FAT_FILE with
\* another name or size, written to its place or not.
LEMMA RewriteKeeps ==
  ASSUME Inv, NEW i \in Scanned(dir), NEW e \in Entry, e.start = dir[i].start, e.name # Null,
         e.size = dir[i].size \/ e.size = 0,
         dir' = dir \/ dir' = Updated(dir, File(e, i)),
         Release(File(e, i)), UNCHANGED <<open, io>>, io = NoIo
  PROVE  Good
<1> DEFINE f == File(e, i)
<1>1. f.entry \in Entry /\ f.dir \in Cluster /\ f.index \in 1 .. Slots
  BY VolumeAssumption DEF File, Scanned
<1>2. Held(dir, f) /\ Sized(f)
  <2>1. Held(dir, f)
    BY DEF Placed, File, Held
  <2>2. SizesFit => Fitting(dir[i])
    BY DEF Inv, Files, Scanned
  <2>3. QED
    BY <2>1, <2>2, VolumeAssumption DEF Sized, Fitting, File
<1>3. Small(dir)
  BY DEF Inv, Typed, Files, Small
<1> HIDE DEF f
<1>4. Small(dir') /\ Kept(dir, dir') /\ Held(dir', f)
  BY <1>1, <1>2, <1>3, KeptSame, UpdateKeeps DEF f
<1>5. stale' \in FatFile /\ Held(dir', stale') /\ Sized(stale')
  BY <1>1, <1>2, <1>4, ReleaseKeeps DEF Inv, f
<1> QED
  BY <1>4, <1>5, HandlesKeep DEF Good, Inv, Typed, Files, Small
-------------------------------------------------------------------------------
LEMMA DeleteKeeps == ASSUME Inv, NEW n \in Name, Delete(n) PROVE Good
<1>1. PICK i \in 1 .. Slots :
        /\ Finds(dir, n, i)
        /\ LET f == File([dir[i] EXCEPT !.name = Deleted, !.size = 0], i)
           IN  /\ dir' = IF dir[i].size = 0 THEN dir ELSE Updated(dir, f)
               /\ Release(f)
  BY DEF Delete
<1> DEFINE e == [dir[i] EXCEPT !.name = Deleted, !.size = 0]
<1>2. i \in Scanned(dir)
  BY <1>1 DEF Finds, Named
<1>3. e \in Entry /\ e.start = dir[i].start /\ e.name = Deleted /\ e.size = 0
  BY DEF Inv, Typed, Entry
<1>4. e.name # Null
  BY <1>3 DEF Null, Deleted
<1>5. UNCHANGED <<open, io>> /\ io = NoIo
  BY DEF Delete, Idle
<1>6. dir' = dir \/ dir' = Updated(dir, File(e, i))
  BY <1>1
<1>7. Release(File(e, i))
  BY <1>1
<1> HIDE DEF e
<1> QED
  BY <1>2, <1>3, <1>4, <1>5, <1>6, <1>7, RewriteKeeps

LEMMA RenameKeeps == ASSUME Inv, NEW n \in Name, NEW m \in Name, Rename(n, m) PROVE Good
<1>1. PICK i \in 1 .. Slots :
        /\ Finds(dir, n, i)
        /\ LET f == File([dir[i] EXCEPT !.name = m], i) IN dir' = Updated(dir, f) /\ Release(f)
  BY DEF Rename
<1> DEFINE e == [dir[i] EXCEPT !.name = m]
<1>2. i \in Scanned(dir)
  BY <1>1 DEF Finds, Named
<1>3. e \in Entry /\ e.start = dir[i].start /\ e.name = m /\ e.size = dir[i].size
  BY DEF Inv, Typed, Entry
<1>4. e.name # Null
  BY <1>3, VolumeAssumption
<1>5. UNCHANGED <<open, io>> /\ io = NoIo
  BY DEF Rename, Idle
<1>6. dir' = Updated(dir, File(e, i)) /\ Release(File(e, i))
  BY <1>1
<1> HIDE DEF e
<1> QED
  BY <1>2, <1>3, <1>4, <1>5, <1>6, RewriteKeeps

LEMMA OpenFoundKeeps == ASSUME Inv, NEW n \in Name, OpenFound(n) PROVE Good
<1>1. PICK i \in 1 .. Slots : Finds(dir, n, i) /\ Release(File(dir[i], i))
  BY DEF OpenFound
<1>2. i \in Scanned(dir)
  BY <1>1 DEF Finds, Named
<1>3. dir[i] \in Entry /\ dir[i].name # Null
  BY <1>2, FileHeld DEF Inv
<1>4. dir' = dir /\ UNCHANGED <<open, io>> /\ io = NoIo
  BY DEF OpenFound, Idle, volume
<1> QED
  BY <1>1, <1>2, <1>3, <1>4, RewriteKeeps

\* A step that changes one handle, and the directory only through it.
LEMMA HandleKeeps ==
  ASSUME Inv, NEW h \in Handle, NEW g \in OpenFile,
         open' = [open EXCEPT ![h] = g],
         Small(dir'), Kept(dir, dir'), Held(dir', g), Fits(g),
         stale' \in FatFile, Held(dir', stale'), Sized(stale'), io' = NoIo
  PROVE  Good
<1>1. open' \in [Handle -> OpenFile]
  BY DEF Inv, Typed
<1>2. \A k \in Handle : open'[k] = IF k = h THEN g ELSE open[k]
  BY DEF Inv, Typed
<1>3. \A k \in Handle : Held(dir', open[k]) /\ Fits(open[k])
  BY HeldKept DEF Inv, Files
<1> QED
  BY <1>1, <1>2, <1>3 DEF Good, Inv, Typed, Files, Small

\* The size of a FAT_FILE changes, in its copy of the entry and in its place.
LEMMA ResizedFile ==
  ASSUME NEW f \in OpenFile, NEW s \in Nat
  PROVE  /\ Resized(f, s) \in OpenFile /\ Resized(f, s).entry.size = s
         /\ Resized(f, s).pos = f.pos /\ Resized(f, s).entry.start = f.entry.start
         /\ Resized(f, s).entry.name = f.entry.name
         /\ Resized(f, s).dir = f.dir /\ Resized(f, s).index = f.index
         /\ s = f.entry.size => Resized(f, s).entry = f.entry
<1>1. [f.entry EXCEPT !.size = s] \in Entry
  BY DEF OpenFile, Entry
<1>2. Resized(f, s) = [f EXCEPT !.entry = [f.entry EXCEPT !.size = s]]
  BY DEF Resized
<1> QED
  BY <1>1, <1>2 DEF OpenFile, Entry

\* An entry that is written back through a handle, if it is written.
LEMMA WriteBack ==
  ASSUME Inv, NEW g \in OpenFile, Held(dir, g), Sized(g),
         dir' = dir \/ dir' = Updated(dir, g)
  PROVE  Small(dir') /\ Kept(dir, dir') /\ Held(dir', g)
<1>1. Small(dir) /\ g.entry \in Entry /\ g.index \in 1 .. Slots
  BY DEF Inv, Typed, Files, Small, OpenFile
<1>2. QED
  BY <1>1, KeptSame, UpdateKeeps

LEMMA OpenMissingKeeps ==
  ASSUME Inv, NEW n \in Name, NEW h \in Handle, NEW m \in Modes, OpenMissing(n, h, m)
  PROVE  Good
<1>1. PICK found \in {stale} \union Garbage :
        LET f == Opened(found, m)
            g == IF "read" \in m THEN Resized(f, 0) ELSE f
        IN  /\ open' = [open EXCEPT ![h] = g]
            /\ dir' = IF g.entry = f.entry THEN dir ELSE Updated(dir, g)
  BY DEF OpenMissing
<1> DEFINE f == Opened(found, m)
           g == IF "read" \in m THEN Resized(f, 0) ELSE f
<1>2. io' = NoIo /\ stale' = stale
  BY DEF OpenMissing, Idle
<1>3. found \in FatFile /\ Held(dir, found) /\ Sized(found)
  BY VolumeAssumption DEF Inv, Typed, Files, Held, CleanMemory, Sized, SizesFit
<1>4. f \in OpenFile /\ f.pos = 0 /\ Held(dir, f) /\ Sized(f)
  <2>1. f \in OpenFile /\ f.pos = 0
    BY <1>3 DEF Opened, OpenFile, FatFile
  <2>2. f.entry = found.entry /\ f.dir = found.dir /\ f.index = found.index
    BY DEF Opened
  <2> HIDE DEF f
  <2>3. QED
    BY <1>3, <2>1, <2>2 DEF Held, Placed, GivenUp, Sized
<1>5. /\ g \in OpenFile /\ g.pos = 0 /\ g.entry.start = f.entry.start
      /\ g.entry.name = f.entry.name /\ g.dir = f.dir /\ g.index = f.index
      /\ g.entry.size = f.entry.size \/ g.entry.size = 0
  BY <1>4, ResizedFile
<1>6. open' = [open EXCEPT ![h] = g] /\ (dir' = dir \/ dir' = Updated(dir, g))
  BY <1>1
<1> HIDE DEF f, g
<1>7. Held(dir, g) /\ Sized(g) /\ Fits(g)
  <2>1. Held(dir, g)
    BY <1>4, <1>5 DEF Held, Placed, GivenUp
  <2>2. Sized(g)
    BY <1>4, <1>5, VolumeAssumption DEF Sized, Fitting
  <2>3. QED
    BY <1>5, <2>1, <2>2 DEF Sized, Fits, OpenFile, Entry
<1>8. Small(dir') /\ Kept(dir, dir') /\ Held(dir', g)
  BY <1>5, <1>6, <1>7, WriteBack
<1> QED
  BY <1>2, <1>5, <1>6, <1>7, <1>8, HandleKeeps, HeldKept DEF Inv, Typed, Files

LEMMA CloseKeeps == ASSUME Inv, NEW h \in Handle, Close(h) PROVE Good
<1>1. Closed \in OpenFile /\ Held(dir, Closed) /\ Fits(Closed)
  BY VolumeAssumption
  DEF Closed, Opened, OpenFile, Zeros, NoEntry, Entry, Cluster, Held, Fits, Fitting
<1>2. /\ open' = [open EXCEPT ![h] = Closed] /\ Release(open[h])
      /\ dir' = dir /\ io' = NoIo
  BY DEF Close, Idle, volume
<1>3. open[h] \in OpenFile /\ Held(dir, open[h]) /\ Sized(open[h])
  BY DEF Inv, Typed, Files, Fits, Sized
<1>4. stale' \in FatFile /\ Held(dir, stale') /\ Sized(stale')
  BY <1>2, <1>3, KeptSame, ReleaseKeeps DEF Inv, OpenFile
<1>5. Small(dir)
  BY DEF Inv, Typed, Files, Small
<1> QED
  BY <1>1, <1>2, <1>4, <1>5, KeptSame, HandleKeeps

LEMMA SeekKeeps == ASSUME Inv, NEW h \in Handle, NEW p \in Int, Seek(h, p) PROVE Good
<1> DEFINE f == open[h]
           g == Moved(f, p % Word)
<1>1. /\ open' = [open EXCEPT ![h] = g] /\ p % Word <= f.entry.size
      /\ dir' = dir /\ io' = NoIo /\ stale' = stale
  BY DEF Seek, Idle, volume
<1>2. f \in OpenFile /\ Held(dir, f) /\ Fits(f)
  BY DEF Inv, Typed, Files
<1>3. p % Word \in Nat
  BY VolumeAssumption
<1>4. /\ g \in OpenFile /\ g.pos = p % Word /\ g.entry = f.entry
      /\ g.dir = f.dir /\ g.index = f.index
  BY <1>2, <1>3 DEF Moved, OpenFile
<1>5. Small(dir) /\ stale \in FatFile /\ Held(dir, stale) /\ Sized(stale)
  BY DEF Inv, Typed, Files, Small
<1> HIDE DEF f, g
<1>6. Held(dir, g) /\ Fits(g)
  BY <1>1, <1>2, <1>4 DEF Held, Placed, GivenUp, Fits
<1> QED
  BY <1>1, <1>4, <1>5, <1>6, KeptSame, HandleKeeps
-------------------------------------------------------------------------------
\* A number of 32 bits is itself in 32 bits, and no other number is smaller.
LEMMA InWord ==
  ASSUME NEW x \in Nat
  PROVE  x % Word \in Nat /\ x % Word <= x /\ (x < Word => x % Word = x)
<1> DEFINE d == x \div Word
           m == x % Word
<1>1. Word \in Nat \ {0}
  BY VolumeAssumption
<1>2. d \in Nat /\ m \in 0 .. Word - 1 /\ x = Word * d + m
  BY <1>1
<1>3. \A k \in Nat : Word * k \in Nat /\ (k > 0 => Word * k >= Word) /\ (k = 0 => Word * k = 0)
  BY <1>1
<1> HIDE DEF d, m
<1>4. Word * d \in Nat /\ (d > 0 => Word * d >= Word) /\ (d = 0 => Word * d = 0)
  BY <1>2, <1>3
<1>5. m \in Nat /\ m <= x /\ (x < Word => m = x)
  BY <1>1, <1>2, <1>4
<1>6. QED
  BY <1>5 DEF m

\* A turn of the loop moves something, and no more than what is left.
LEMMA ChunkBounds ==
  ASSUME NEW p \in Nat, NEW offset \in 0 .. ClusterSize - 1, NEW left \in Nat \ {0}
  PROVE  Chunk(p, offset, left) \in 1 .. left
<1> DEFINE most == IF left > ClusterSize THEN ClusterSize ELSE left
           end  == (p \div ClusterSize + 1) * ClusterSize
<1>1. ClusterSize \in Nat \ {0}
  BY VolumeAssumption
<1>2. p \div ClusterSize \in Nat
  BY <1>1
<1>3. end \in Nat /\ end >= ClusterSize
  <2>1. \A k \in Nat : (k + 1) * ClusterSize \in Nat /\ (k + 1) * ClusterSize >= ClusterSize
    BY <1>1
  <2> QED
    BY <1>2, <2>1
<1>4. Chunk(p, offset, left) = IF offset + most > end THEN left - (offset + most - end) ELSE most
  BY DEF Chunk
<1> HIDE DEF end
<1> QED
  BY <1>1, <1>3, <1>4

\* Nothing but the transfer is new.
LEMMA StartsKeeps ==
  ASSUME Inv, NEW k \in {"read", "write"}, NEW h \in Handle, NEW n \in Nat, Starts(k, h, n),
         SizesFit => /\ k = "read" => open[h].pos + n <= open[h].entry.size
                     /\ k = "write" => open[h].pos + n <= MaxSize,
         UNCHANGED <<dir, open, stale>>
  PROVE  Good
<1>1. open[h] \in OpenFile
  BY DEF Inv, Typed
<1>2. open[h].pos \in Nat /\ open[h].pos % ClusterSize \in 0 .. ClusterSize - 1
  BY <1>1, VolumeAssumption DEF OpenFile
<1>3. /\ io'.kind = k /\ io'.h = h /\ io'.left = n /\ io'.done = 0
      /\ io'.offset = open[h].pos % ClusterSize
  BY DEF Starts
<1>4. Position' + io'.left = open[h].pos + n
  BY <1>2, <1>3 DEF Position
<1>5. Moves'
  BY <1>2, <1>3, <1>4 DEF Moves
<1> QED
  BY <1>5, KeptSame DEF Good, Inv, Typed, Files

\* What a call adds to the position, and what there is behind it, as DWORDs.
LEMMA Sums ==
  ASSUME Inv, NEW h \in Handle, NEW n \in Sizes
  PROVE  /\ n \in Nat /\ EndOf(h, n) \in Nat /\ EndOf(h, n) <= open[h].pos + n
         /\ Rest(h) \in Nat
         /\ SizesFit => /\ EndOf(h, n) = open[h].pos + n
                        /\ open[h].pos + Rest(h) = open[h].entry.size
<1>1. n \in Nat /\ open[h].pos \in Nat /\ open[h].entry.size \in Nat
  BY VolumeAssumption DEF Inv, Typed, OpenFile, Entry
<1>2. EndOf(h, n) \in Nat /\ EndOf(h, n) <= open[h].pos + n
  BY <1>1, InWord DEF EndOf
<1>3. Rest(h) \in Nat
  BY <1>1, VolumeAssumption DEF Rest
<1>4. ASSUME SizesFit
      PROVE  EndOf(h, n) = open[h].pos + n /\ open[h].pos + Rest(h) = open[h].entry.size
  <2>1. open[h].pos <= open[h].entry.size /\ open[h].entry.size <= MaxSize
    BY <1>4 DEF Inv, Files, Fits, Fitting
  <2>2. n + MaxSize < Word /\ MaxSize < Word /\ MaxSize \in Nat /\ Word \in Nat
    BY <1>4, VolumeAssumption DEF SizesFit
  <2>3. open[h].pos + n \in Nat /\ open[h].pos + n < Word
    BY <1>1, <2>1, <2>2
  <2>4. open[h].entry.size - open[h].pos \in Nat /\ open[h].entry.size - open[h].pos < Word
    BY <1>1, <2>1, <2>2
  <2>5. EndOf(h, n) = open[h].pos + n
    BY <2>3, InWord DEF EndOf
  <2>6. Rest(h) = open[h].entry.size - open[h].pos
    BY <2>4, InWord DEF Rest
  <2>7. QED
    BY <1>1, <2>5, <2>6
<1>5. QED
  BY <1>1, <1>2, <1>3, <1>4

LEMMA BeginReadKeeps ==
  ASSUME Inv, NEW h \in Handle, NEW n \in Sizes, BeginRead(h, n) PROVE Good
<1> DEFINE m == IF EndOf(h, n) > open[h].entry.size THEN Rest(h) ELSE n
<1>1. Starts("read", h, m) /\ UNCHANGED <<dir, open, stale>>
  BY DEF BeginRead, volume
<1>2. m \in Nat
  BY Sums
<1>3. SizesFit => open[h].pos + m <= open[h].entry.size
  <2>1. open[h].pos \in Nat /\ open[h].entry.size \in Nat
    BY DEF Inv, Typed, OpenFile, Entry
  <2>2. QED
    BY <2>1, Sums
<1> HIDE DEF m
<1> QED
  BY <1>1, <1>2, <1>3, StartsKeeps

LEMMA BeginOverwriteKeeps ==
  ASSUME Inv, NEW h \in Handle, NEW n \in Sizes, BeginOverwrite(h, n) PROVE Good
<1>1. n \in Nat /\ (SizesFit => open[h].pos + n <= MaxSize)
  BY Sums DEF BeginOverwrite, CanWrite
<1> QED
  BY <1>1, StartsKeeps DEF BeginOverwrite, volume

LEMMA BeginAppendKeeps ==
  ASSUME Inv, NEW h \in Handle, NEW n \in Sizes, BeginAppend(h, n) PROVE Good
<1>1. n \in Nat /\ (SizesFit => open[h].pos + n <= MaxSize)
  BY Sums DEF BeginAppend, CanWrite
<1>2. CASE ~ InFat(Start(h))
  BY <1>2, StopsKeeps DEF BeginAppend
<1>3. CASE InFat(Start(h))
  <2>1. UNCHANGED <<dir, open, stale>> /\ (UNCHANGED io \/ Starts("write", h, n))
    BY <1>3 DEF BeginAppend
  <2>2. CASE Starts("write", h, n)
    BY <1>1, <2>1, <2>2, StartsKeeps
  <2>3. CASE UNCHANGED io
    BY <2>1, <2>3, KeptSame DEF Good, Inv, Typed, Files, Moves, Position
  <2> QED
    BY <2>1, <2>2, <2>3
<1> QED
  BY <1>2, <1>3

LEMMA TransferKeeps == ASSUME Inv, Transfer PROVE Good
<1> DEFINE n == Chunk(open[io.h].pos, io.offset, io.left)
<1>1. Moves /\ io.left > 0
  BY DEF Transfer, Moving, Inv
<1>2. open[io.h] \in OpenFile
  BY <1>1 DEF Moves, Inv, Typed
<1>3. n \in 1 .. io.left
  BY <1>1, <1>2, ChunkBounds DEF Moves, OpenFile
<1>4. CASE \E why : Stops(why)
  BY <1>4, StopsKeeps
<1>5. CASE /\ io' = Turned(n)
           /\ UNCHANGED <<volume, open, stale, status>>
  <2>1. /\ io'.kind = io.kind /\ io'.h = io.h /\ io'.offset = 0
        /\ io'.left = io.left - n /\ io'.done = io.done + n
    BY <1>5 DEF Turned
  <2>2. UNCHANGED <<dir, open, stale>>
    BY <1>5 DEF volume
  <2> HIDE DEF n
  <2>3. io'.left \in Nat /\ io'.done \in Nat /\ Position' + io'.left = Position + io.left
    BY <1>1, <1>2, <1>3, <2>1, <2>2 DEF Moves, Position, OpenFile
  <2>4. 0 \in 0 .. ClusterSize - 1
    BY VolumeAssumption
  <2>5. Moves'
    BY <1>1, <2>1, <2>2, <2>3, <2>4 DEF Moves
  <2> QED
    BY <2>2, <2>5, KeptSame DEF Good, Inv, Typed, Files
<1> QED
  BY <1>4, <1>5 DEF Transfer

LEMMA EndReadKeeps == ASSUME Inv, EndRead PROVE Good
<1> DEFINE f == open[io.h]
           g == Moved(f, Position)
<1>1. Moves /\ io.kind = "read"
  BY DEF EndRead, Ended, Inv
<1>2. f \in OpenFile /\ Held(dir, f) /\ Fits(f)
  BY <1>1 DEF Moves, Inv, Typed, Files
<1>3. Position \in Nat /\ (SizesFit => Position <= f.entry.size)
  BY <1>1, <1>2 DEF Moves, Position, OpenFile, Entry
<1>4. /\ g \in OpenFile /\ g.pos = Position /\ g.entry = f.entry
      /\ g.dir = f.dir /\ g.index = f.index
  BY <1>2, <1>3 DEF Moved, OpenFile
<1>5. open' = [open EXCEPT ![io.h] = g] /\ UNCHANGED <<dir, stale>> /\ io' = NoIo
  BY DEF EndRead, Ended, volume
<1>6. io.h \in Handle
  BY <1>1 DEF Moves
<1>7. Small(dir) /\ stale \in FatFile /\ Held(dir, stale) /\ Sized(stale)
  BY DEF Inv, Typed, Files, Small
<1> HIDE DEF f, g
<1>8. Held(dir, g) /\ Fits(g)
  BY <1>2, <1>3, <1>4 DEF Held, Placed, GivenUp, Fits
<1> QED
  BY <1>4, <1>5, <1>6, <1>7, <1>8, KeptSame, HandleKeeps

LEMMA EndWriteKeeps == ASSUME Inv, EndWrite PROVE Good
<1> DEFINE f == open[io.h]
           g == IF Position > f.entry.size THEN Resized(f, Position) ELSE f
           p == IF AppendMode \subseteq f.mode THEN g.entry.size ELSE Position
           q == Moved(g, p)
<1>1. Moves /\ io.kind = "write"
  BY DEF EndWrite, Ended, Inv
<1>2. f \in OpenFile /\ Held(dir, f) /\ Fits(f)
  BY <1>1 DEF Moves, Inv, Typed, Files
<1>3. Position \in Nat /\ (SizesFit => Position <= MaxSize)
  <2>1. f.pos \in Nat /\ io.done \in Nat /\ io.left \in Nat /\ MaxSize \in Nat
    BY <1>1, <1>2, VolumeAssumption DEF Moves, OpenFile
  <2>2. Position = f.pos + io.done
    BY DEF Position
  <2>3. SizesFit => Position + io.left <= MaxSize
    BY <1>1 DEF Moves
  <2> HIDE DEF f
  <2>4. QED
    BY <2>1, <2>2, <2>3
<1>4. /\ g \in OpenFile /\ g.entry.start = f.entry.start /\ g.entry.name = f.entry.name
      /\ g.dir = f.dir /\ g.index = f.index /\ Position <= g.entry.size
      /\ SizesFit => g.entry.size <= MaxSize
  <2>1. CASE Position > f.entry.size
    BY <1>2, <1>3, <2>1, ResizedFile
  <2>2. CASE ~ (Position > f.entry.size)
    BY <1>2, <1>3, <2>2 DEF OpenFile, Entry, Fits, Fitting
  <2> QED
    BY <2>1, <2>2
<1>5. /\ open' = [open EXCEPT ![io.h] = q]
      /\ dir' = dir \/ dir' = Updated(dir, g)
      /\ io' = NoIo /\ stale' = stale
  BY DEF EndWrite, Ended
<1> HIDE DEF g
<1>6. Held(dir, g) /\ Sized(g)
  BY <1>2, <1>4 DEF Held, Placed, GivenUp, Sized, Fitting
<1>7. Small(dir') /\ Kept(dir, dir') /\ Held(dir', g)
  BY <1>4, <1>5, <1>6, WriteBack
<1>8. p \in Nat /\ p <= g.entry.size
  BY <1>3, <1>4 DEF OpenFile, Entry
<1> HIDE DEF p
<1>9. /\ q \in OpenFile /\ q.pos = p /\ q.entry = g.entry
      /\ q.dir = g.dir /\ q.index = g.index
  BY <1>4, <1>8 DEF Moved, OpenFile
<1>10. io.h \in Handle
  BY <1>1 DEF Moves
<1> HIDE DEF f, q
<1>11. Held(dir', q) /\ Fits(q)
  BY <1>6, <1>7, <1>8, <1>9 DEF Held, Placed, GivenUp, Fits, Sized
<1>12. stale' \in FatFile /\ Held(dir', stale') /\ Sized(stale')
  BY <1>5, <1>7, HeldKept DEF Inv, Typed, Files
<1> QED
  BY <1>5, <1>7, <1>9, <1>10, <1>11, <1>12, HandleKeeps
-------------------------------------------------------------------------------
\* Volumes begin well, and every call keeps them so.
LEMMA InvInit == ASSUME Init PROVE Inv
<1>1. Small(dir)
  BY VolumeAssumption DEF Init, Small, SizesFit
<1>2. Zeros \in FatFile /\ Closed \in OpenFile
  BY VolumeAssumption
  DEF Closed, Opened, OpenFile, Zeros, NoEntry, Entry, FatFile, Cluster
<1>3. Held(dir, Zeros) /\ Held(dir, Closed) /\ Fits(Closed) /\ Sized(Zeros)
  BY VolumeAssumption
  DEF Held, Closed, Opened, Zeros, NoEntry, Fits, Sized, Fitting
<1>4. stale = Zeros /\ open = [h \in Handle |-> Closed] /\ io = NoIo
  BY DEF Init
<1> QED
  BY <1>1, <1>2, <1>3, <1>4 DEF Inv, Typed, Files, Small

LEMMA RemountKeeps == ASSUME Inv, Remount PROVE Good
<1>1. CASE Stops("dangling")
  BY <1>1, StopsKeeps
<1>2. CASE UNCHANGED <<dir, open, io, stale>>
  BY <1>2, KeptSame DEF Good, Inv, Typed, Files, Moves, Position
<1> QED
  BY <1>1, <1>2 DEF Remount

\* One case for each action.
LEMMA InvNext == ASSUME Inv, [Next]_vars PROVE Good
<1>1. ASSUME NEW n \in Name, CreateInFull(n) PROVE Good
  BY <1>1, StopsKeeps DEF CreateInFull
<1>2. ASSUME NEW h \in Handle, BeginWild(h) PROVE Good
  BY <1>2, StopsKeeps DEF BeginWild
<1>3. ASSUME NEW h \in Handle, NEW o \in Offsets,
             Seek(h, o) \/ Seek(h, open[h].pos + o) \/ Seek(h, open[h].entry.size - o)
      PROVE  Good
  <2>1. open[h].pos \in Int /\ open[h].entry.size \in Int
    BY DEF Inv, Typed, OpenFile, Entry
  <2>2. o \in Int
    BY VolumeAssumption
  <2>3. o \in Int /\ open[h].pos + o \in Int /\ open[h].entry.size - o \in Int
    BY <2>1, <2>2
  <2> QED
    BY <1>3, <2>3, SeekKeeps
<1>4. CASE UNCHANGED vars
  BY <1>4, KeptSame DEF vars, Good, Inv, Typed, Files, Moves, Position
<1>5. ASSUME NEW n \in Name,
             \/ Create(n) \/ CreateInFull(n) \/ Delete(n) \/ OpenFound(n)
             \/ \E m \in Name : Rename(n, m)
             \/ \E h \in Handle, m \in Modes : OpenMissing(n, h, m)
      PROVE  Good
  BY <1>1, <1>5, CreateKeeps, DeleteKeeps, OpenFoundKeeps, RenameKeeps, OpenMissingKeeps
<1>6. ASSUME NEW h \in Handle,
             \/ Close(h) \/ BeginWild(h)
             \/ \E n \in Sizes : BeginRead(h, n) \/ BeginOverwrite(h, n) \/ BeginAppend(h, n)
      PROVE  Good
  BY <1>2, <1>6, CloseKeeps, BeginReadKeeps, BeginOverwriteKeeps, BeginAppendKeeps
<1> QED
  BY <1>3, <1>4, <1>5, <1>6, RemountKeeps, TransferKeeps, EndReadKeeps, EndWriteKeeps
  DEF Next, Halted

\* Every state of a mounted volume satisfies the invariant.
LEMMA Invariance == Spec => []Inv
<1>1. Inv /\ [Next]_vars => Inv'
  BY InvNext DEF Good
<1> QED
  BY <1>1, InvInit, PTL DEF Spec

\* If a request and a file together stay below 2^32 bytes, the position of every
\* open file stays inside the file, and a read ends with it, however many handles
\* hold copies of one entry and whatever memory fat_open takes for one.
THEOREM PositionsHold == SizesFit /\ Spec => []PositionInFile
<1>1. SizesFit /\ Inv => PositionInFile
  BY DEF Inv, Files, Fits, Moves, PositionInFile
<1>2. SizesFit /\ Inv /\ [Next]_vars => (SizesFit /\ Inv)'
  BY InvNext DEF Good, SizesFit
<1> QED
  BY <1>1, <1>2, InvInit, PTL DEF Spec

\* If memory that held no FAT_FILE does not name the directory, every entry keeps
\* its place and its first cluster, through whatever handles fat_updateFileEntry
\* is called: freed FAT_FILEs, of whatever file, do no harm.
THEOREM PlacesHold == CleanMemory /\ Spec => SlotsKept
<1>1. CleanMemory /\ Inv /\ [Next]_vars =>
        [\A i \in Scanned(dir) : i \in Scanned(dir)' /\ dir'[i].start = dir[i].start]_vars
  <2> SUFFICES ASSUME CleanMemory, Inv, [Next]_vars
               PROVE  \A i \in Scanned(dir) :
                        i \in Scanned(dir)' /\ dir'[i].start = dir[i].start
    OBVIOUS
  <2>1. Kept(dir, dir')
    BY InvNext DEF Good
  <2> QED
    BY <2>1 DEF Kept, Scanned
<1>2. CleanMemory /\ Inv /\ [Next]_vars => (CleanMemory /\ Inv)'
  BY InvNext DEF Good, CleanMemory
<1> QED
  BY <1>1, <1>2, InvInit, PTL DEF Spec, SlotsKept

-------------------------------------------------------------------------------
(***************************************************************************)
(* The FATs and the transfer.                                              *)
(***************************************************************************)
Fats ==
  /\ fat \in Fat /\ fatDisk \in Fat
  /\ status \in {"ok", "overrun", "crossed", "dangling"}
  /\ io = NoIo \/ io \in Io
  /\ UncommittedOnlyWhenFull

\* What is moved lies inside the file as it is.
Inside == io.kind = "read" \/ Position + io.left <= open[io.h].entry.size

\* A transfer of what is inside the file is where its position says, and one
\* that began at a cluster's first byte goes on at first bytes.
Tracking ==
  /\ status # "ok" => io = NoIo
  /\ io # NoIo =>
       /\ io.offset \in {0, open[io.h].pos % ClusterSize}
       /\ Inside /\ io.left > 0 =>
            /\ io.at = Along(fat, open[io.h].entry.start, Position \div ClusterSize)
            /\ io.offset = Position % ClusterSize

\* Where a file begins is a number.
LEMMA StartType ==
  ASSUME Inv, fat \in Fat, NEW h \in Handle PROVE Start(h) \in Int
<1>1. open[h].entry.start \in Int /\ open[h].pos \in Nat
  BY VolumeAssumption DEF Inv, Typed, OpenFile, Entry, Cluster
<1>2. open[h].pos \div ClusterSize \in Nat
  <2>1. ClusterSize \in Nat \ {0}
    BY VolumeAssumption
  <2>2. QED
    BY <1>1, <2>1
<1>3. QED
  BY <1>1, <1>2, AlongType DEF Start

\* A call that begins a transfer.
LEMMA StartsFats ==
  ASSUME Inv, Fats, NEW k \in {"read", "write"}, NEW h \in Handle, NEW n \in Nat,
         Starts(k, h, n)
  PROVE  io' \in Io
<1>1. Start(h) \in Int
  BY StartType DEF Fats
<1>2. open[h].pos % ClusterSize \in Nat
  BY VolumeAssumption DEF Inv, Typed, OpenFile
<1>3. QED
  BY <1>1, <1>2 DEF Starts, Io

\* A read changes neither copy of the FAT.
LEMMA BeginReadFats ==
  ASSUME Inv, Fats, NEW h \in Handle, NEW n \in Sizes, BeginRead(h, n) PROVE Fats'
<1> DEFINE m == IF EndOf(h, n) > open[h].entry.size THEN Rest(h) ELSE n
<1>1. Starts("read", h, m)
  BY DEF BeginRead
<1>2. UNCHANGED <<fat, fatDisk, status>>
  BY DEF BeginRead, volume
<1>3. m \in Nat
  BY Sums
<1> HIDE DEF m
<1>4. io' \in Io
  BY <1>1, <1>3, StartsFats
<1>5. QED
  BY <1>2, <1>4 DEF Fats, UncommittedOnlyWhenFull

\* The FAT goes to the device with the end of a chain, or no cluster is free.
LEMMA BeginAppendFats ==
  ASSUME Inv, Fats, NEW h \in Handle, NEW n \in Sizes, BeginAppend(h, n) PROVE Fats'
<1>1. CASE ~ InFat(Start(h))
  BY <1>1 DEF BeginAppend, Stops, volume, Fats, UncommittedOnlyWhenFull
<1>2. CASE InFat(Start(h))
  <2> DEFINE g == Grown(fat, Start(h), n \div ClusterSize + 1)
  <2>1. /\ Commit(g)
        /\ IF g.full THEN UNCHANGED io ELSE Starts("write", h, n)
        /\ UNCHANGED <<dir, open, stale, status>>
    BY <1>2 DEF BeginAppend
  <2>2. n \in Nat /\ n \div ClusterSize + 1 \in Nat
    <3>1. n \in Nat /\ ClusterSize \in Nat \ {0}
      BY VolumeAssumption
    <3>2. QED
      BY <3>1
  <2>3. Linking(g)
    BY <2>2, GrownType, StartType DEF Fats
  <2> HIDE DEF g
  <2>4. fat' \in Fat /\ fatDisk' \in Fat
    BY <2>1, <2>3 DEF Commit, Linking, Fats
  <2>5. UncommittedOnlyWhenFull'
    BY <2>1, <2>3 DEF Commit, Linking, UncommittedOnlyWhenFull
  <2>6. io' = NoIo \/ io' \in Io
    BY <2>1, <2>2, StartsFats DEF Fats
  <2>7. QED
    BY <2>1, <2>4, <2>5, <2>6 DEF Fats
<1>3. QED
  BY <1>1, <1>2

\* A turn of the loop changes neither copy of the FAT.
LEMMA TransferFats == ASSUME Inv, Fats, Transfer PROVE Fats'
<1> DEFINE n == Chunk(open[io.h].pos, io.offset, io.left)
<1>1. CASE Stops("overrun") \/ Stops("crossed")
  BY <1>1 DEF Stops, volume, Fats, UncommittedOnlyWhenFull
<1>2. CASE io' = Turned(n) /\ UNCHANGED <<volume, open, stale, status>>
  <2>1. Moves /\ io.left > 0 /\ io.at \in Cluster /\ io \in Io
    BY DEF Transfer, Moving, Inv, Fats
  <2>2. n \in 1 .. io.left
    <3>1. open[io.h].pos \in Nat
      BY <2>1 DEF Moves, Inv, Typed, OpenFile
    <3>2. io.offset \in 0 .. ClusterSize - 1 /\ io.left \in Nat \ {0}
      BY <2>1 DEF Moves
    <3>3. QED
      BY <3>1, <3>2, ChunkBounds
  <2>3. After(fat, io.at) = Further(fat, io.at) /\ io.at \in Int
    BY <2>1, VolumeAssumption DEF Further, Cluster
  <2>4. After(fat, io.at) \in Int
    BY <2>3, FurtherType DEF Fats
  <2> HIDE DEF n
  <2>5. io' \in Io
    BY <1>2, <2>1, <2>2, <2>4 DEF Turned, Io, Fail
  <2>6. QED
    BY <1>2, <2>5 DEF volume, Fats, UncommittedOnlyWhenFull
<1>3. QED
  BY <1>1, <1>2 DEF Transfer

\* All the other calls leave the FATs as they are, or mount the volume again.
LEMMA FatsNext == ASSUME Inv, Fats, [Next]_vars PROVE Fats'
<1>1. ASSUME NEW h \in Handle, NEW n \in Sizes, BeginOverwrite(h, n) PROVE Fats'
  <2>1. n \in Nat
    BY VolumeAssumption
  <2>2. io' \in Io
    BY <1>1, <2>1, StartsFats DEF BeginOverwrite
  <2>3. QED
    BY <1>1, <2>2 DEF BeginOverwrite, volume, Fats, UncommittedOnlyWhenFull
<1>2. CASE Remount
  BY <1>2 DEF Remount, Stops, volume, Fats, UncommittedOnlyWhenFull
<1>3. ASSUME UNCHANGED <<fat, fatDisk>>, io' = NoIo \/ UNCHANGED io,
             status' \in {"overrun", "crossed", "dangling"} \/ UNCHANGED status
      PROVE  Fats'
  BY <1>3 DEF Fats, UncommittedOnlyWhenFull
<1>4. ASSUME NEW n \in Name,
             \/ Create(n) \/ CreateInFull(n) \/ Delete(n) \/ OpenFound(n)
             \/ \E m \in Name : Rename(n, m)
             \/ \E h \in Handle, m \in Modes : OpenMissing(n, h, m)
      PROVE  Fats'
  <2>1. /\ UNCHANGED <<fat, fatDisk>>
        /\ io' = NoIo \/ UNCHANGED io
        /\ status' = "overrun" \/ UNCHANGED status
    BY <1>4 DEF Create, CreateInFull, Delete, OpenFound, Rename, OpenMissing, Stops,
       volume, fats
  <2>2. QED
    BY <1>3, <2>1
<1>5. ASSUME NEW h \in Handle,
             Close(h) \/ BeginWild(h) \/ \E p : Seek(h, p)
      PROVE  Fats'
  <2>1. /\ UNCHANGED <<fat, fatDisk>>
        /\ io' = NoIo \/ UNCHANGED io
        /\ status' = "overrun" \/ UNCHANGED status
    BY <1>5 DEF Close, BeginWild, Seek, Stops, volume
  <2>2. QED
    BY <1>3, <2>1
<1>6. CASE EndRead \/ EndWrite \/ Halted \/ UNCHANGED vars
  <2>1. /\ UNCHANGED <<fat, fatDisk, status>>
        /\ io' = NoIo \/ UNCHANGED io
    BY <1>6 DEF EndRead, EndWrite, Ended, Halted, vars, volume, fats
  <2>2. QED
    BY <1>3, <2>1
<1>7. QED
  BY <1>1, <1>2, <1>4, <1>5, <1>6, BeginReadFats, BeginAppendFats, TransferFats DEF Next

\* What is to be committed, and when, in every state.
LEMMA FatsHold == Spec => [](Inv /\ Fats)
<1>1. Init => Fats
  BY VolumeAssumption DEF Init, Fats, UncommittedOnlyWhenFull, Fat
<1>2. (Inv /\ Fats) /\ [Next]_vars => (Inv /\ Fats)'
  BY InvNext, FatsNext DEF Good
<1>3. QED
  BY <1>1, <1>2, InvInit, PTL DEF Spec

-------------------------------------------------------------------------------
(***************************************************************************)
(* Positions and clusters.                                                 *)
(***************************************************************************)
\* A position is in one cluster, at one offset.
LEMMA Divide ==
  ASSUME NEW p \in Nat
  PROVE  /\ p \div ClusterSize \in Nat /\ p % ClusterSize \in 0 .. ClusterSize - 1
         /\ p = ClusterSize * (p \div ClusterSize) + (p % ClusterSize)
<1>1. ClusterSize \in Nat \ {0}
  BY VolumeAssumption
<1>2. QED
  BY <1>1

\* A quotient and a remainder by the cluster's size are the only ones.
LEMMA DivideUnique ==
  ASSUME NEW p \in Nat, NEW q \in Nat, NEW r \in 0 .. ClusterSize - 1,
         p = ClusterSize * q + r
  PROVE  p \div ClusterSize = q /\ p % ClusterSize = r
<1>1. ClusterSize \in Nat \ {0}
  BY VolumeAssumption
<1>2. \A a, b \in Nat : a < b => ClusterSize * a + ClusterSize <= ClusterSize * b
  BY <1>1
<1> DEFINE d == p \div ClusterSize
           m == p % ClusterSize
<1>3. d \in Nat /\ m \in 0 .. ClusterSize - 1 /\ p = ClusterSize * d + m
  BY Divide
<1> HIDE DEF d, m
<1>4. ClusterSize * d \in Nat /\ ClusterSize * q \in Nat
  BY <1>1, <1>3
<1>5. ~ (d < q) /\ ~ (q < d)
  BY <1>1, <1>2, <1>3, <1>4
<1>6. d = q
  BY <1>3, <1>5
<1>7. m = r
  BY <1>3, <1>4, <1>6
<1>8. QED
  BY <1>6, <1>7 DEF d, m

\* The bytes up to a cluster's end are in that cluster, and the byte at its end
\* is the first one of the next.
LEMMA Clustered ==
  ASSUME NEW p \in Nat, NEW j \in Nat
  PROVE  /\ (p % ClusterSize) + j < ClusterSize =>
              /\ (p + j) \div ClusterSize = p \div ClusterSize
              /\ (p + j) % ClusterSize = (p % ClusterSize) + j
         /\ (p % ClusterSize) + j = ClusterSize =>
              /\ (p + j) \div ClusterSize = p \div ClusterSize + 1
              /\ (p + j) % ClusterSize = 0
<1> DEFINE d == p \div ClusterSize
           m == p % ClusterSize
<1>1. ClusterSize \in Nat \ {0}
  BY VolumeAssumption
<1>2. d \in Nat /\ m \in 0 .. ClusterSize - 1 /\ p = ClusterSize * d + m
  BY Divide
<1> HIDE DEF d, m
<1>3. ClusterSize * d \in Nat /\ ClusterSize * (d + 1) = ClusterSize * d + ClusterSize
  BY <1>1, <1>2
<1>4. ASSUME m + j < ClusterSize
      PROVE  (p + j) \div ClusterSize = d /\ (p + j) % ClusterSize = m + j
  <2>1. m + j \in 0 .. ClusterSize - 1 /\ p + j \in Nat
    BY <1>1, <1>2, <1>4
  <2>2. p + j = ClusterSize * d + (m + j)
    BY <1>2, <1>3
  <2>3. QED
    BY <1>2, <2>1, <2>2, DivideUnique
<1>5. ASSUME m + j = ClusterSize
      PROVE  (p + j) \div ClusterSize = d + 1 /\ (p + j) % ClusterSize = 0
  <2>1. d + 1 \in Nat /\ 0 \in 0 .. ClusterSize - 1 /\ p + j \in Nat
    BY <1>1, <1>2
  <2>2. p + j = ClusterSize * (d + 1) + 0
    BY <1>2, <1>3, <1>5
  <2>3. QED
    BY <2>1, <2>2, DivideUnique
<1>6. QED
  BY <1>4, <1>5 DEF d, m

\* A turn inside the buffer that leaves something fills its cluster; and one
\* from a first byte stays inside the buffer.
LEMMA ChunkFills ==
  ASSUME NEW p \in Nat, NEW offset \in 0 .. ClusterSize - 1, NEW left \in Nat \ {0}
  PROVE  LET n == Chunk(p, offset, left)
         IN  /\ offset + n <= ClusterSize /\ n < left =>
                  offset + n = ClusterSize
             /\ offset = 0 => n <= ClusterSize
<1> DEFINE most == IF left > ClusterSize THEN ClusterSize ELSE left
           end  == (p \div ClusterSize + 1) * ClusterSize
<1>1. ClusterSize \in Nat \ {0}
  BY VolumeAssumption
<1>2. p \div ClusterSize \in Nat
  BY <1>1
<1>3. end \in Nat /\ (end = ClusterSize \/ end >= 2 * ClusterSize)
  <2>1. \A k \in Nat : /\ (k + 1) * ClusterSize \in Nat
                        /\ (k = 0 => (k + 1) * ClusterSize = ClusterSize)
                        /\ (k > 0 => (k + 1) * ClusterSize >= 2 * ClusterSize)
    BY <1>1
  <2> QED
    BY <1>2, <2>1
<1>4. Chunk(p, offset, left) = IF offset + most > end THEN left - (offset + most - end) ELSE most
  BY DEF Chunk
<1> HIDE DEF end
<1>5. CASE end = ClusterSize
  BY <1>1, <1>4, <1>5
<1>6. CASE end >= 2 * ClusterSize
  BY <1>1, <1>3, <1>4, <1>6
<1> QED
  BY <1>3, <1>5, <1>6

-------------------------------------------------------------------------------
(***************************************************************************)
(* The transfer follows the file.                                          *)
(***************************************************************************)
\* What a turn of the loop that stays in its buffer moves, and where it leaves
\* the transfer.
LEMMA Turn ==
  ASSUME Inv, Fats, Tracking, Transfer, io' # NoIo
  PROVE  LET n == Chunk(open[io.h].pos, io.offset, io.left)
         IN  /\ n \in 1 .. io.left /\ io.offset + n <= ClusterSize
             /\ io' = Turned(n) /\ UNCHANGED <<volume, open, stale, status>>
             /\ io.at \in Cluster /\ Moves /\ io.left > 0 /\ open[io.h].pos \in Nat
             /\ n < io.left => io.offset + n = ClusterSize
<1> DEFINE n == Chunk(open[io.h].pos, io.offset, io.left)
<1>1. /\ Moves /\ io.left > 0 /\ io.at \in Cluster
      /\ io.offset + n <= ClusterSize /\ io' = Turned(n)
      /\ UNCHANGED <<volume, open, stale, status>>
  BY DEF Transfer, Moving, Inv, Stops
<1>2. /\ open[io.h].pos \in Nat /\ io.offset \in 0 .. ClusterSize - 1
      /\ io.left \in Nat \ {0}
  BY <1>1 DEF Moves, Inv, Typed, OpenFile
<1>3. n \in 1 .. io.left
  BY <1>2, ChunkBounds
<1>4. n < io.left => io.offset + n = ClusterSize
  BY <1>1, <1>2, ChunkFills
<1>5. QED
  BY <1>1, <1>2, <1>3, <1>4

\* The bytes of a turn are the file's own from the position on.
LEMMA TurnMoves ==
  ASSUME Inv, Fats, Tracking, Transfer, io' # NoIo, Inside,
         NEW j \in 0 .. Chunk(open[io.h].pos, io.offset, io.left) - 1
  PROVE  Place(io.h, Position + j) = <<io.at, io.offset + j>>
<1> DEFINE n == Chunk(open[io.h].pos, io.offset, io.left)
<1>1. /\ n \in 1 .. io.left /\ io.offset + n <= ClusterSize
      /\ Moves /\ io.left > 0 /\ open[io.h].pos \in Nat
  BY Turn
<1>2. j \in Nat /\ j < n
  BY <1>1
<1> HIDE DEF n
<1>3. Position \in Nat /\ io # NoIo
  BY <1>1 DEF Position, Moves, Transfer, Moving
<1>4. /\ io.at = Along(fat, open[io.h].entry.start, Position \div ClusterSize)
      /\ io.offset = Position % ClusterSize
  BY <1>1, <1>3 DEF Tracking
<1>5. (Position % ClusterSize) + j < ClusterSize
  <2>1. io.offset \in Nat /\ ClusterSize \in Nat /\ n \in Nat
    BY <1>1, VolumeAssumption DEF Moves
  <2>2. io.offset + j < ClusterSize
    BY <1>1, <1>2, <2>1
  <2>3. QED
    BY <1>4, <2>2
<1>6. /\ (Position + j) \div ClusterSize = Position \div ClusterSize
      /\ (Position + j) % ClusterSize = (Position % ClusterSize) + j
  BY <1>2, <1>3, <1>5, Clustered
<1>7. QED
  BY <1>4, <1>6 DEF Place

\* And the next turn is where the chain of the file goes on.
LEMMA TurnTracks ==
  ASSUME Inv, Fats, Tracking, Transfer, io' # NoIo PROVE Tracking'
<1> DEFINE n == Chunk(open[io.h].pos, io.offset, io.left)
           start == open[io.h].entry.start
<1>1. /\ n \in 1 .. io.left
      /\ io' = Turned(n) /\ UNCHANGED <<volume, open, stale, status>>
      /\ io.at \in Cluster /\ Moves /\ io.left > 0 /\ open[io.h].pos \in Nat
      /\ n < io.left => io.offset + n = ClusterSize
  BY Turn
<1> HIDE DEF n
<1>2. /\ io'.kind = io.kind /\ io'.h = io.h /\ io'.offset = 0
      /\ io'.left = io.left - n /\ io'.done = io.done + n
      /\ n # io.left => io'.at = After(fat, io.at)
  BY <1>1 DEF Turned
<1>3. Position \in Nat /\ io # NoIo /\ status' = "ok" /\ n \in Nat /\ io.left \in Nat
  BY <1>1 DEF Position, Moves, Transfer, Moving
<1>4. open' = open /\ fat' = fat
  BY <1>1 DEF volume
<1>5. Position' = Position + n
  <2>1. io.done \in Nat
    BY <1>1 DEF Moves
  <2>2. QED
    BY <1>1, <1>2, <1>3, <1>4, <2>1 DEF Position
<1>6. ASSUME Inside', io'.left > 0
      PROVE  /\ io'.at = Along(fat, start, Position' \div ClusterSize)
             /\ io'.offset = Position' % ClusterSize
  <2>1. Inside /\ n < io.left
    <3>1. n < io.left
      BY <1>1, <1>2, <1>3, <1>6
    <3>2. Position' + io'.left = Position + io.left
      BY <1>2, <1>3, <1>5
    <3>3. Inside
      BY <1>2, <1>4, <1>6, <3>2 DEF Inside
    <3>4. QED
      BY <3>1, <3>3
  <2>2. /\ io.at = Along(fat, start, Position \div ClusterSize)
        /\ io.offset = Position % ClusterSize
    BY <1>1, <1>3, <2>1 DEF Tracking
  <2>3. (Position % ClusterSize) + n = ClusterSize
    BY <1>1, <2>1, <2>2
  <2>4. /\ Position' \div ClusterSize = Position \div ClusterSize + 1
        /\ Position' % ClusterSize = 0
    BY <1>3, <1>5, <2>3, Clustered
  <2>5. Position \div ClusterSize \in Nat
    BY <1>3, Divide
  <2> DEFINE d == Position \div ClusterSize
  <2>6. Along(fat, start, d + 1) = Further(fat, Along(fat, start, d))
    <3> HIDE DEF d
    <3>1. d \in Nat
      BY <2>5 DEF d
    <3>2. QED
      BY <3>1, AlongNext
  <2>7. Further(fat, io.at) = After(fat, io.at)
    <3>1. ~ (io.at < 0)
      BY <1>1, VolumeAssumption DEF Cluster
    <3>2. QED
      BY <3>1 DEF Further
  <2>8. n # io.left
    BY <1>3, <2>1
  <2>9. QED
    BY <1>2, <2>2, <2>4, <2>6, <2>7, <2>8
<1>7. QED
  BY <1>2, <1>3, <1>4, <1>6 DEF Tracking

\* A transfer begins where the position is.
LEMMA StartsTracks ==
  ASSUME Inv, NEW k \in {"read", "write"}, NEW h \in Handle, NEW n \in Nat,
         Starts(k, h, n), status' = "ok", UNCHANGED open,
         fat' = fat \/ (k = "write" /\ open[h].pos + n > open[h].entry.size)
  PROVE  Tracking'
<1>1. /\ io'.kind = k /\ io'.h = h /\ io'.at = Start(h) /\ io'.left = n /\ io'.done = 0
      /\ io'.offset = open[h].pos % ClusterSize
  BY DEF Starts
<1>2. open[h].pos \in Nat /\ open[h].entry.size \in Nat
  BY DEF Inv, Typed, OpenFile, Entry
<1>3. Position' = open[h].pos
  BY <1>1, <1>2 DEF Position
<1>4. fat' = fat \/ ~ Inside'
  BY <1>1, <1>2, <1>3 DEF Inside
<1>5. QED
  BY <1>1, <1>3, <1>4 DEF Tracking, Start

\* Every other call ends the transfer or leaves it alone.
LEMMA TrackingNext == ASSUME Inv, Fats, Tracking, [Next]_vars PROVE Tracking'
<1>1. ASSUME io' = NoIo PROVE Tracking'
  BY <1>1 DEF Tracking
<1>2. ASSUME NEW h \in Handle, NEW n \in Sizes, BeginRead(h, n) PROVE Tracking'
  <2> DEFINE m == IF EndOf(h, n) > open[h].entry.size THEN Rest(h) ELSE n
  <2>1. /\ Starts("read", h, m) /\ status' = "ok" /\ UNCHANGED <<open, fat>>
    BY <1>2 DEF BeginRead, Idle, volume
  <2>2. m \in Nat
    BY Sums
  <2> HIDE DEF m
  <2>3. QED
    BY <2>1, <2>2, StartsTracks
<1>3. ASSUME NEW h \in Handle, NEW n \in Sizes, BeginOverwrite(h, n) PROVE Tracking'
  <2>1. n \in Nat
    BY VolumeAssumption
  <2>2. QED
    BY <1>3, <2>1, StartsTracks DEF BeginOverwrite, CanWrite, Idle, volume
<1>4. ASSUME NEW h \in Handle, NEW n \in Sizes, BeginAppend(h, n) PROVE Tracking'
  <2>1. n \in Nat
    BY VolumeAssumption
  <2>2. \/ io' = NoIo
        \/ Starts("write", h, n) /\ status' = "ok" /\ UNCHANGED open
    BY <1>4 DEF BeginAppend, CanWrite, Idle, Stops
  <2>3. open[h].pos + n > open[h].entry.size
    <3>1. open[h].pos \in Nat /\ open[h].entry.size \in Nat
      BY DEF Inv, Typed, OpenFile, Entry
    <3>2. EndOf(h, n) > open[h].entry.size /\ EndOf(h, n) \in Nat
            /\ EndOf(h, n) <= open[h].pos + n
      BY <1>4, Sums DEF BeginAppend
    <3>3. QED
      BY <2>1, <3>1, <3>2
  <2>4. QED
    BY <1>1, <2>1, <2>2, <2>3, StartsTracks
<1>5. CASE Transfer
  BY <1>1, <1>5, TurnTracks
<1>6. CASE Halted \/ UNCHANGED vars
  BY <1>6 DEF Halted, vars, Tracking, Inside, Position
<1>7. CASE Remount \/ EndRead \/ EndWrite
  BY <1>1, <1>7 DEF Remount, EndRead, EndWrite, Ended, Idle, Stops
<1>8. ASSUME NEW n \in Name,
             \/ Create(n) \/ CreateInFull(n) \/ Delete(n) \/ OpenFound(n)
             \/ \E m \in Name : Rename(n, m)
             \/ \E h \in Handle, m \in Modes : OpenMissing(n, h, m)
      PROVE  Tracking'
  <2>1. io' = NoIo
    BY <1>8 DEF Create, CreateInFull, Delete, OpenFound, Rename, OpenMissing, Idle, Stops
  <2>2. QED
    BY <1>1, <2>1
<1>9. ASSUME NEW h \in Handle, Close(h) \/ BeginWild(h) \/ \E p : Seek(h, p)
      PROVE  Tracking'
  <2>1. io' = NoIo
    BY <1>9 DEF Close, BeginWild, Seek, Idle, Stops
  <2>2. QED
    BY <1>1, <2>1
<1>10. QED
  BY <1>2, <1>3, <1>4, <1>5, <1>6, <1>7, <1>8, <1>9 DEF Next

\* The offset, the position and the cluster go together in every turn.
LEMMA TrackingHolds == Spec => [](Inv /\ Fats /\ Tracking)
<1>1. Init => Tracking
  BY DEF Init, Tracking
<1>2. (Inv /\ Fats /\ Tracking) /\ [Next]_vars => Tracking'
  BY TrackingNext
<1>3. QED
  BY <1>1, <1>2, FatsHold, PTL DEF Spec

\* The FATs stay bytes, whatever clusters are linked; entries, handles and the
\* transfer stay what their structures hold.
THEOREM TypeCorrect == Spec => []TypeOK
<1>1. Inv /\ Fats => TypeOK
  BY DEF Inv, Typed, Fats, TypeOK, OpenFile, Fat
<1>2. QED
  BY <1>1, FatsHold, PTL

\* What a mount forgets of the FAT is what a write left that found no cluster
\* free: fat_setFATCluster has put everything else on the device.
THEOREM LosesOnlyWhenFull == Spec => []UncommittedOnlyWhenFull
<1>1. Fats => UncommittedOnlyWhenFull
  BY DEF Fats
<1>2. QED
  BY <1>1, FatsHold, PTL

\* A read, and a write inside the file, moves the file's own bytes from its
\* position on, cluster by cluster of its chain, in every turn of fat_rw's loop
\* that keeps to its buffer.
THEOREM MovesTheFile == Spec => TransfersTheFile
<1> DEFINE Follows ==
      LET p == Position IN
      io # NoIo /\ io' # NoIo
        /\ (io.kind = "read" \/ p + io.left <= open[io.h].entry.size) =>
      \A j \in 0 .. io'.done - io.done - 1 :
        Place(io.h, p + j) = <<io.at, io.offset + j>>
<1>1. ASSUME Inv, Fats, Tracking, [Next]_vars PROVE [Follows]_vars
  <2>1. CASE UNCHANGED vars
    BY <2>1
  <2>2. CASE io # NoIo /\ ~ Transfer
    <3>1. EndRead \/ EndWrite \/ UNCHANGED vars
      <4>1. ~ Idle
        BY <2>2 DEF Idle
      <4>2. ASSUME NEW n \in Name,
                   \/ Create(n) \/ CreateInFull(n) \/ Delete(n) \/ OpenFound(n)
                   \/ \E m \in Name : Rename(n, m)
                   \/ \E h \in Handle, m \in Modes : OpenMissing(n, h, m)
            PROVE  FALSE
        BY <4>1, <4>2 DEF Create, CreateInFull, Delete, OpenFound, Rename, OpenMissing
      <4>3. ASSUME NEW h \in Handle, Close(h) \/ BeginWild(h) \/ \E p : Seek(h, p)
            PROVE  FALSE
        BY <4>1, <4>3 DEF Close, BeginWild, Seek
      <4>4. ASSUME NEW h \in Handle, NEW n \in Sizes,
                   BeginRead(h, n) \/ BeginOverwrite(h, n) \/ BeginAppend(h, n)
            PROVE  FALSE
        BY <4>1, <4>4 DEF BeginRead, BeginOverwrite, BeginAppend, CanWrite
      <4>5. ~ Remount
        BY <4>1 DEF Remount
      <4>6. QED
        BY <1>1, <2>2, <4>2, <4>3, <4>4, <4>5 DEF Next, Halted
    <3>2. CASE EndRead \/ EndWrite
      <4>1. io' = NoIo /\ status' = "ok"
        BY <3>2 DEF EndRead, EndWrite, Ended
      <4>2. QED
        BY <4>1
    <3>3. QED
      BY <2>1, <3>1, <3>2
  <2>3. CASE Transfer /\ io' # NoIo
    <3> DEFINE n == Chunk(open[io.h].pos, io.offset, io.left)
    <3>1. io'.done = io.done + n /\ status' = "ok" /\ n \in Nat /\ io.done \in Nat
      <4>1. /\ n \in 1 .. io.left /\ io' = Turned(n) /\ status' = status /\ Moves
        BY <1>1, <2>3, Turn
      <4> HIDE DEF n
      <4>2. status = "ok"
        BY <2>3 DEF Transfer, Moving
      <4>3. QED
        BY <4>1, <4>2 DEF Turned, Moves
    <3>2. Inside => \A j \in 0 .. n - 1 :
            Place(io.h, Position + j) = <<io.at, io.offset + j>>
      BY <1>1, <2>3, TurnMoves
    <3> HIDE DEF n
    <3>3. io'.done - io.done - 1 = n - 1
      BY <3>1
    <3>4. QED
      BY <3>1, <3>2, <3>3 DEF Inside
  <2>4. CASE Transfer /\ io' = NoIo
    BY <2>4
  <2>5. QED
    BY <2>1, <2>2, <2>3, <2>4
<1>2. Inv /\ Fats /\ Tracking /\ [Next]_vars => [Follows]_vars
  BY <1>1
<1>3. QED
  BY <1>2, TrackingHolds, PTL DEF Spec, TransfersTheFile
===============================================================================
