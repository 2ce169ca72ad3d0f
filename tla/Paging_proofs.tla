---------------------------- MODULE Paging_proofs ---------------------------
(***************************************************************************)
(* Proofs about the page-frame manager: every operation, and the two loops   *)
(* the process manager runs over it, preserve MemoryOK.  The process        *)
(* manager's proof composes these lemmas.                                  *)
(***************************************************************************)
EXTENDS Paging, NatSets_proofs

USE PagingAssumption

(* The set-theoretic facts everything else rests on. *)
LEMMA FramesFinite ==
  /\ IsFiniteSet(Frames)
  /\ Cardinality(Frames) = PAGE_FRAME_MAX_COUNT - 1
BY FS_Interval DEF Frames

LEMMA FreeFramesFinite ==
  ASSUME NEW m
  PROVE  IsFiniteSet(FreeFrames(m)) /\ Cardinality(FreeFrames(m)) \in Nat
<1>1. FreeFrames(m) \in SUBSET Frames
  BY DEF FreeFrames
<1>. QED
  BY <1>1, FramesFinite, FS_Subset, FS_CardinalityType

LEMMA PagesFinite ==
  ASSUME NEW S \in SUBSET Pages
  PROVE  IsFiniteSet(S) /\ Cardinality(S) \in Nat
<1>1. IsFiniteSet(Pages)
  BY FS_Interval DEF Pages
<1>. QED
  BY <1>1, FS_Subset, FS_CardinalityType

LEMMA MemoryFields ==
  ASSUME NEW m \in Memory
  PROVE  /\ m.frame_map \in SUBSET Frames
         /\ m.free \in Int
         /\ m.dir_used \in SUBSET Dirs
         /\ m.table \in [AllDirs -> [Pages -> Frames \cup {NoFrame}]]
         /\ m.kernel \in SUBSET AllDirs
         /\ \A d \in AllDirs, p \in Pages : m.table[d][p] \in Frames \cup {NoFrame}
BY DEF Memory

LEMMA EmptyTableType == EmptyTable \in [Pages -> Frames \cup {NoFrame}]
BY DEF EmptyTable

LEMMA DirKinds == KernelDir \notin Dirs /\ Dirs \subseteq AllDirs /\ KernelDir \in AllDirs
BY DEF KernelDir, Dirs, AllDirs

LEMMA FrameNotNull == \A f \in Frames : f # NoFrame
BY DEF Frames, NoFrame

\* Asking for one page succeeds exactly when the counter is positive.
LEMMA CheckOne ==
  ASSUME NEW m, m.free \in Int
  PROVE  paging_allocate_check(m, 1) <=> m.free >= 1
<1>1. CeilDiv(1, PAGE_FRAME_SIZE) = 1
  BY DEF CeilDiv
<1>. QED
  BY <1>1 DEF paging_allocate_check

\* A mapped frame is a marked frame.
LEMMA MappedIsMarked ==
  ASSUME NEW m, MemoryOK(m), NEW d \in AllDirs, NEW p \in Mapped(m, d)
  PROVE  m.table[d][p] \in m.frame_map
BY DEF MemoryOK, NoFrameLeak, Mapped

-----------------------------------------------------------------------------
\* The frames behind a set of pages of one directory are as many as the pages,
\* and are all marked: what a release adds to the counter is what it clears.
LEMMA Behind ==
  ASSUME NEW m, MemoryOK(m), NEW d \in AllDirs, NEW G \in SUBSET Mapped(m, d)
  PROVE  LET img == {m.table[d][p] : p \in G}
         IN  /\ img \subseteq m.frame_map
             /\ Cardinality(Frames \ (m.frame_map \ img))
                  = Cardinality(FreeFrames(m)) + Cardinality(G)
             /\ Cardinality(G) \in Nat
<1>. DEFINE img == {m.table[d][p] : p \in G}
            f == [p \in G |-> m.table[d][p]]
<1>1. m \in Memory
  BY DEF MemoryOK
<1>2. G \subseteq Pages /\ IsFiniteSet(G) /\ Cardinality(G) \in Nat
  BY PagesFinite DEF Mapped
<1>3. img \subseteq m.frame_map
  BY MappedIsMarked
<1>4. img \subseteq Frames
  BY <1>1, <1>3, MemoryFields
<1>5. f \in Bijection(G, img)
  <2>1. f \in [G -> img]
    OBVIOUS
  <2>2. \A p, q \in G : f[p] = f[q] => p = q
    BY <1>2 DEF MemoryOK, FrameExclusive, Mapped
  <2>3. \A x \in img : \E p \in G : f[p] = x
    OBVIOUS
  <2>. QED
    BY <2>1, <2>2, <2>3 DEF Bijection, Injection, Surjection, IsInjective
<1>6. IsFiniteSet(img) /\ Cardinality(img) = Cardinality(G)
  <2>1. ExistsBijection(G, img)
    BY <1>5 DEF ExistsBijection
  <2>. QED
    BY <2>1, <1>2, FS_Bijection
<1>7. Frames \ (m.frame_map \ img) = FreeFrames(m) \cup img
  BY <1>4 DEF FreeFrames
<1>8. FreeFrames(m) \cap img = {}
  BY <1>3 DEF FreeFrames
<1>9. Cardinality(FreeFrames(m) \cup img) = Cardinality(FreeFrames(m)) + Cardinality(img)
  <2>1. Cardinality(FreeFrames(m) \cap img) = 0
    BY <1>8, FS_EmptySet
  <2>2. Cardinality(FreeFrames(m) \cup img)
          = Cardinality(FreeFrames(m)) + Cardinality(img) - Cardinality(FreeFrames(m) \cap img)
    BY <1>6, FreeFramesFinite, FS_Union
  <2>. QED
    BY <2>1, <2>2, <1>2, <1>6, FreeFramesFinite
<1>. QED
  BY <1>2, <1>3, <1>6, <1>7, <1>9

\* Releasing pages of a directory keeps the memory consistent.
LEMMA FreePagesOK ==
  ASSUME NEW m, MemoryOK(m), NEW d \in AllDirs, NEW pages
  PROVE  MemoryOK(FreePages(m, d, pages))
<1>. DEFINE gone == pages \cap Mapped(m, d)
            img == {m.table[d][p] : p \in gone}
            n == FreePages(m, d, pages)
<1>0. m \in Memory
  BY DEF MemoryOK
<1>. USE MemoryFields, <1>0
<1>1. /\ img \subseteq m.frame_map
      /\ Cardinality(Frames \ (m.frame_map \ img))
           = Cardinality(FreeFrames(m)) + Cardinality(gone)
      /\ Cardinality(gone) \in Nat
  <2>1. gone \in SUBSET Mapped(m, d)
    OBVIOUS
  <2>. QED
    BY <2>1, Behind
<1>2. /\ n.frame_map = m.frame_map \ img
      /\ n.free = m.free + Cardinality(gone)
      /\ n.dir_used = m.dir_used
      /\ n.kernel = m.kernel
      /\ n.table = [m.table EXCEPT ![d] =
                      [p \in Pages |-> IF p \in gone THEN NoFrame ELSE @[p]]]
  BY DEF FreePages, Memory
<1>3. \A e \in AllDirs, p \in Pages :
        n.table[e][p] = IF e = d /\ p \in gone THEN NoFrame ELSE m.table[e][p]
  BY <1>2
<1>4. n \in Memory
  <2>1. n.table \in [AllDirs -> [Pages -> Frames \cup {NoFrame}]]
    BY <1>2
  <2>2. n = [m EXCEPT !.frame_map = n.frame_map, !.free = n.free, !.table = n.table]
    BY <1>2 DEF FreePages, Memory
  <2>. QED
    <3>1. n.frame_map \in SUBSET Frames
      BY <1>2
    <3>2. n.free \in Int
      BY <1>1, <1>2
    <3>3. n.dir_used \in SUBSET Dirs /\ n.kernel \in SUBSET AllDirs
      BY <1>2
    <3>. HIDE DEF n
    <3>. QED
      BY <2>1, <2>2, <3>1, <3>2, <3>3 DEF Memory
<1>5. FrameAccounting(n)
  BY <1>1, <1>2, FreeFramesFinite DEF MemoryOK, FrameAccounting, FreeFrames
<1>6. FrameExclusive(n)
  BY <1>3 DEF MemoryOK, FrameExclusive
<1>7. NoFrameLeak(n)
  <2>1. ASSUME NEW f \in n.frame_map
        PROVE  \E e \in AllDirs, p \in Pages : n.table[e][p] # NoFrame /\ n.table[e][p] = f
    <3>1. f \in m.frame_map /\ f \notin img
      BY <1>2, <2>1
    <3>2. PICK e \in AllDirs, p \in Pages : m.table[e][p] # NoFrame /\ m.table[e][p] = f
      BY <3>1 DEF MemoryOK, NoFrameLeak, Mapped
    <3>3. ~ (e = d /\ p \in gone)
      BY <3>1, <3>2
    <3>. QED
      BY <1>3, <3>2, <3>3
  <2>2. ASSUME NEW e \in AllDirs, NEW p \in Pages, n.table[e][p] # NoFrame
        PROVE  n.table[e][p] \in n.frame_map
    <3>1. n.table[e][p] = m.table[e][p] /\ ~ (e = d /\ p \in gone)
      BY <1>3, <2>2
    <3>2. p \in Mapped(m, e)
      BY <2>2, <3>1 DEF Mapped
    <3>3. m.table[e][p] \in m.frame_map
      BY <3>2, MappedIsMarked
    <3>4. m.table[e][p] \notin img
      BY <3>1, <3>2 DEF MemoryOK, FrameExclusive, Mapped
    <3>. QED
      BY <1>2, <3>1, <3>3, <3>4
  <2>. QED
    BY <2>1, <2>2 DEF NoFrameLeak, Mapped
<1>8. DirectoryLifecycle(n)
  <2>1. ASSUME NEW e \in Dirs \ n.dir_used
        PROVE  n.table[e] = EmptyTable
    <3>1. m.table[e] = EmptyTable
      BY <1>2 DEF MemoryOK, DirectoryLifecycle
    <3>2. e \in AllDirs
      BY DirKinds
    <3>3. \A p \in Pages : n.table[e][p] = NoFrame
      BY <1>3, <3>1, <3>2 DEF EmptyTable
    <3>. QED
      BY <3>3, <3>2, <1>4 DEF EmptyTable
  <2>. QED
    BY <1>2, <2>1 DEF MemoryOK, DirectoryLifecycle
<1>. QED
  BY <1>4, <1>5, <1>6, <1>7, <1>8 DEF MemoryOK

\* Freeing a directory keeps the memory consistent.
LEMMA FreeDirectoryOK ==
  ASSUME NEW m, MemoryOK(m), NEW d \in Dirs
  PROVE  MemoryOK(paging_free_page_directory(m, d))
<1>1. CASE d \notin m.dir_used
  BY <1>1 DEF paging_free_page_directory
<1>2. CASE d \in m.dir_used
  <2>. DEFINE c == FreePages(m, d, Mapped(m, d))
              n == paging_free_page_directory(m, d)
  <2>0. d \in AllDirs /\ d # KernelDir
    BY DirKinds
  <2>1. MemoryOK(c)
    BY <2>0, FreePagesOK
  <2>2. c \in Memory /\ m \in Memory
    BY <2>1 DEF MemoryOK
  <2>3. c.table = [m.table EXCEPT ![d] = EmptyTable]
    <3>1. [p \in Pages |-> IF p \in Mapped(m, d) THEN NoFrame ELSE m.table[d][p]] = EmptyTable
      BY DEF Mapped, EmptyTable
    <3>2. c.table = [m.table EXCEPT ![d] =
              [p \in Pages |-> IF p \in Mapped(m, d) \cap Mapped(m, d)
                               THEN NoFrame ELSE @[p]]]
      BY <2>0, <2>2 DEF FreePages, Memory
    <3>3. Mapped(m, d) \cap Mapped(m, d) = Mapped(m, d)
      OBVIOUS
    <3>. QED
      BY <2>0, <2>2, <3>1, <3>2, <3>3, MemoryFields
  <2>4. /\ n.frame_map = c.frame_map
        /\ n.free = c.free
        /\ n.table = c.table
        /\ n.dir_used = c.dir_used \ {d}
        /\ n.kernel = c.kernel \ {d}
    BY <1>2, <2>2, <2>3 DEF FreePages, Memory, paging_free_page_directory
  <2>5. n \in Memory
    <3>1. n = [m EXCEPT !.dir_used = n.dir_used, !.frame_map = n.frame_map,
                        !.free = n.free, !.table = n.table, !.kernel = n.kernel]
      BY <1>2, <2>2, <2>4 DEF Memory, paging_free_page_directory
    <3>2. /\ n.frame_map \in SUBSET Frames
          /\ n.free \in Int
          /\ n.dir_used \in SUBSET Dirs
          /\ n.table \in [AllDirs -> [Pages -> Frames \cup {NoFrame}]]
          /\ n.kernel \in SUBSET AllDirs
      BY <2>2, <2>4, MemoryFields
    <3>. HIDE DEF n
    <3>. QED
      BY <2>2, <3>1, <3>2 DEF Memory
  <2>6. FrameAccounting(n) /\ FrameExclusive(n) /\ NoFrameLeak(n)
    <3>1. FrameAccounting(c) /\ FrameExclusive(c) /\ NoFrameLeak(c)
      BY <2>1 DEF MemoryOK
    <3>. HIDE DEF n, c
    <3>2. FrameAccounting(n)
      BY <2>4, <3>1 DEF FrameAccounting, FreeFrames
    <3>3. FrameExclusive(n)
      BY <2>4, <3>1 DEF FrameExclusive
    <3>4. NoFrameLeak(n)
      BY <2>4, <3>1 DEF NoFrameLeak, Mapped
    <3>. QED
      BY <3>2, <3>3, <3>4
  <2>7. DirectoryLifecycle(n)
    <3>1. c.kernel = c.dir_used \cup {KernelDir}
      BY <2>1 DEF MemoryOK, DirectoryLifecycle
    <3>2. \A e \in Dirs \ n.dir_used : n.table[e] = EmptyTable
      <4>1. ASSUME NEW e \in Dirs \ n.dir_used
            PROVE  n.table[e] = EmptyTable
        <5>1. CASE e = d
          BY <2>0, <2>2, <2>3, <2>4, <5>1, MemoryFields
        <5>2. CASE e # d
          BY <2>1, <2>4, <5>2 DEF MemoryOK, DirectoryLifecycle
        <5>. QED
          BY <5>1, <5>2
      <4>. QED
        BY <4>1
    <3>. QED
      BY <2>0, <2>4, <3>1, <3>2 DEF DirectoryLifecycle
  <2>. QED
    BY <2>5, <2>6, <2>7 DEF MemoryOK
<1>. QED
  BY <1>1, <1>2

\* Preparing an unused directory keeps the memory consistent, and the new
\* directory maps no user page.
LEMMA CreateDirectoryOK ==
  ASSUME NEW m, MemoryOK(m), NEW d \in Dirs \ m.dir_used
  PROVE  /\ MemoryOK(paging_create_new_page_directory(m, d))
         /\ paging_create_new_page_directory(m, d).table[d] = EmptyTable
<1>. DEFINE n == paging_create_new_page_directory(m, d)
<1>0. m \in Memory
  BY DEF MemoryOK
<1>1. m.table[d] = EmptyTable /\ d \in AllDirs
  BY DirKinds DEF MemoryOK, DirectoryLifecycle
<1>2. n.table = m.table
  <2>1. n.table = [m.table EXCEPT ![d] = EmptyTable]
    BY <1>0 DEF Memory, paging_create_new_page_directory
  <2>. QED
    BY <1>0, <1>1, <2>1, MemoryFields
<1>3. /\ n.frame_map = m.frame_map
      /\ n.free = m.free
      /\ n.dir_used = m.dir_used \cup {d}
      /\ n.kernel = m.kernel \cup {d}
  BY <1>0 DEF Memory, paging_create_new_page_directory
<1>4. n \in Memory
  <2>1. n = [m EXCEPT !.dir_used = n.dir_used, !.table = n.table, !.kernel = n.kernel]
    BY <1>0, <1>2, <1>3 DEF Memory, paging_create_new_page_directory
  <2>2. /\ n.dir_used \in SUBSET Dirs
        /\ n.table \in [AllDirs -> [Pages -> Frames \cup {NoFrame}]]
        /\ n.kernel \in SUBSET AllDirs
    BY <1>0, <1>1, <1>2, <1>3, MemoryFields
  <2>. HIDE DEF n
  <2>. QED
    BY <1>0, <2>1, <2>2 DEF Memory
<1>5. FrameAccounting(n) /\ FrameExclusive(n) /\ NoFrameLeak(n)
  <2>. HIDE DEF n
  <2>1. FrameAccounting(n)
    BY <1>3 DEF MemoryOK, FrameAccounting, FreeFrames
  <2>2. FrameExclusive(n) /\ NoFrameLeak(n)
    BY <1>2, <1>3 DEF MemoryOK, FrameExclusive, NoFrameLeak, Mapped
  <2>. QED
    BY <2>1, <2>2
<1>6. DirectoryLifecycle(n)
  <2>. HIDE DEF n
  <2>. QED
    BY <1>2, <1>3 DEF MemoryOK, DirectoryLifecycle
<1>. QED
  BY <1>1, <1>2, <1>4, <1>5, <1>6 DEF MemoryOK

-----------------------------------------------------------------------------
\* Two free frames never have the same rank.
LEMMA RankInjective ==
  ASSUME NEW m, NEW f \in FreeFrames(m), NEW g \in FreeFrames(m),
         Rank(m, f) = Rank(m, g)
  PROVE  f = g
<1>1. FreeFrames(m) \in SUBSET Nat /\ IsFiniteSet(FreeFrames(m))
  BY FreeFramesFinite DEF FreeFrames, Frames
<1>2. Below(FreeFrames(m), f) = Below(FreeFrames(m), g)
  BY DEF Rank, Below
<1>. QED
  BY <1>1, <1>2, BelowInjective

\* The allocation loop keeps the memory consistent.
LEMMA AllocatePagesOK ==
  ASSUME NEW m, MemoryOK(m), NEW d \in AllDirs, m.table[d] = EmptyTable,
         d \in m.dir_used \/ d = KernelDir, NEW first \in Nat, NEW k \in Nat
  PROVE  /\ MemoryOK(AllocatePages(m, d, first, k))
         /\ \A e \in AllDirs \ {d} :
              AllocatePages(m, d, first, k).table[e] = m.table[e]
         /\ AllocatePages(m, d, first, k).dir_used = m.dir_used
         /\ AllocatePages(m, d, first, k).kernel = m.kernel
<1>. DEFINE taken == Taken(m, first, k)
            n == AllocatePages(m, d, first, k)
            At(f) == first + Rank(m, f)
            new == [p \in Pages |->
                      IF \E f \in taken : At(f) = p
                      THEN CHOOSE f \in taken : At(f) = p
                      ELSE NoFrame]
<1>0. m \in Memory
  BY DEF MemoryOK
<1>1. taken \subseteq FreeFrames(m) /\ taken \subseteq Frames
  BY DEF Taken, FreeFrames
<1>2. \A f \in taken : At(f) \in Pages
  BY DEF Taken
<1>3. \A f \in taken : new[At(f)] = f
  <2>1. ASSUME NEW f \in taken
        PROVE  new[At(f)] = f
    <3>1. At(f) \in Pages
      BY <1>2
    <3>2. PICK g \in taken : At(g) = At(f) /\ new[At(f)] = g
      BY <3>1
    <3>3. Rank(m, g) = Rank(m, f)
      <4>1. Rank(m, g) \in Nat /\ Rank(m, f) \in Nat
        BY FreeFramesFinite, FS_Subset, FS_CardinalityType DEF Rank
      <4>. QED
        BY <3>2, <4>1
    <3>. QED
      BY <1>1, <3>2, <3>3, RankInjective
  <2>. QED
    BY <2>1
<1>4. \A p \in Pages : new[p] # NoFrame => new[p] \in taken /\ At(new[p]) = p
  OBVIOUS
<1>5. \A p \in Pages : new[p] \in Frames \cup {NoFrame}
  BY <1>1, <1>4
<1>6. IsFiniteSet(taken) /\ Cardinality(taken) \in Nat
  BY <1>1, FreeFramesFinite, FS_Subset, FS_CardinalityType
<1>7. /\ n.frame_map = m.frame_map \cup taken
      /\ n.free = m.free - Cardinality(taken)
      /\ n.dir_used = m.dir_used
      /\ n.kernel = m.kernel
      /\ n.table = [m.table EXCEPT ![d] = new]
  BY <1>0 DEF AllocatePages, Memory
<1>8. /\ n.table[d] = new
      /\ \A e \in AllDirs \ {d} : n.table[e] = m.table[e]
  BY <1>0, <1>7, MemoryFields
<1>. HIDE DEF taken, At, new
<1>9. n \in Memory
  <2>1. n = [m EXCEPT !.frame_map = n.frame_map, !.free = n.free, !.table = n.table]
    BY <1>0, <1>7 DEF AllocatePages, Memory
  <2>2. n.frame_map \in SUBSET Frames /\ n.free \in Int
    BY <1>0, <1>1, <1>6, <1>7, MemoryFields
  <2>3. n.table \in [AllDirs -> [Pages -> Frames \cup {NoFrame}]]
    <3>1. new \in [Pages -> Frames \cup {NoFrame}]
      BY <1>5 DEF new
    <3>. QED
      BY <1>0, <1>7, <3>1, MemoryFields
  <2>. HIDE DEF n
  <2>. QED
    BY <1>0, <2>1, <2>2, <2>3 DEF Memory
<1>10. FrameAccounting(n)
  <2>1. FreeFrames(n) = FreeFrames(m) \ taken
    BY <1>7 DEF FreeFrames
  <2>2. FreeFrames(m) \cap taken = taken
    BY <1>1
  <2>3. Cardinality(FreeFrames(n)) = Cardinality(FreeFrames(m)) - Cardinality(taken)
    BY <2>1, <2>2, FreeFramesFinite, FS_Difference
  <2>. QED
    BY <1>7, <2>3 DEF MemoryOK, FrameAccounting
<1>11. \A e \in AllDirs, p \in Pages :
         m.table[e][p] # NoFrame => m.table[e][p] \notin taken
  BY <1>1, MappedIsMarked DEF Mapped, FreeFrames
<1>12. FrameExclusive(n)
  <2>1. ASSUME NEW e1 \in AllDirs, NEW e2 \in AllDirs, NEW p \in Pages, NEW q \in Pages,
               n.table[e1][p] # NoFrame, n.table[e1][p] = n.table[e2][q]
        PROVE  e1 = e2 /\ p = q
    <3>1. CASE e1 = d /\ e2 = d
      BY <1>4, <1>8, <2>1, <3>1
    <3>2. CASE e1 = d /\ e2 # d
      BY <1>4, <1>8, <1>11, <2>1, <3>2
    <3>3. CASE e1 # d /\ e2 = d
      BY <1>4, <1>8, <1>11, <2>1, <3>3
    <3>4. CASE e1 # d /\ e2 # d
      BY <1>8, <2>1, <3>4 DEF MemoryOK, FrameExclusive
    <3>. QED
      BY <3>1, <3>2, <3>3, <3>4
  <2>. QED
    BY <2>1 DEF FrameExclusive
<1>13. NoFrameLeak(n)
  <2>1. ASSUME NEW f \in n.frame_map
        PROVE  \E e \in AllDirs, p \in Pages : n.table[e][p] # NoFrame /\ n.table[e][p] = f
    <3>1. CASE f \in taken
      <4>1. n.table[d][At(f)] = f
        BY <1>3, <1>8, <3>1
      <4>. QED
        BY <1>1, <1>2, <3>1, <4>1, FrameNotNull
    <3>2. CASE f \in m.frame_map
      <4>1. PICK e \in AllDirs, p \in Pages : m.table[e][p] # NoFrame /\ m.table[e][p] = f
        BY <3>2 DEF MemoryOK, NoFrameLeak, Mapped
      <4>2. e # d
        BY <4>1 DEF EmptyTable
      <4>. QED
        BY <1>8, <4>1, <4>2
    <3>. QED
      BY <1>7, <2>1, <3>1, <3>2
  <2>2. ASSUME NEW e \in AllDirs, NEW p \in Pages, n.table[e][p] # NoFrame
        PROVE  n.table[e][p] \in n.frame_map
    <3>1. CASE e = d
      BY <1>4, <1>7, <1>8, <2>2, <3>1
    <3>2. CASE e # d
      BY <1>7, <1>8, <2>2, <3>2, MappedIsMarked DEF Mapped
    <3>. QED
      BY <3>1, <3>2
  <2>. QED
    BY <2>1, <2>2 DEF NoFrameLeak, Mapped
<1>14. DirectoryLifecycle(n)
  <2>1. ASSUME NEW e \in Dirs \ n.dir_used
        PROVE  n.table[e] = EmptyTable
    <3>1. e # d /\ e \in AllDirs
      BY <1>7, DirKinds
    <3>. QED
      BY <1>7, <1>8, <3>1 DEF MemoryOK, DirectoryLifecycle
  <2>. QED
    BY <1>7, <2>1 DEF MemoryOK, DirectoryLifecycle
<1>. QED
  BY <1>7, <1>8, <1>9, <1>10, <1>12, <1>13, <1>14 DEF MemoryOK

-----------------------------------------------------------------------------
\* One call of the allocator keeps the memory consistent, and changes one
\* directory at most.
LEMMA AllocateOneOK ==
  ASSUME NEW m, MemoryOK(m), NEW d \in AllDirs, NEW p,
         d \in m.dir_used \/ d = KernelDir
  PROVE  /\ MemoryOK(paging_allocate_user_page_frame(m, d, p))
         /\ paging_allocate_user_page_frame(m, d, p).dir_used = m.dir_used
<1>. DEFINE n == paging_allocate_user_page_frame(m, d, p)
            f == FirstFreeFrame(m)
<1>0. m \in Memory
  BY DEF MemoryOK
<1>1. CASE ~ CanAllocate(m, d, p)
  BY <1>1 DEF paging_allocate_user_page_frame
<1>2. CASE CanAllocate(m, d, p)
  <2>1. f \in FreeFrames(m)
    <3>1. FreeFrames(m) \in SUBSET Nat /\ FreeFrames(m) # {}
      BY <1>2 DEF FreeFrames, Frames, CanAllocate
    <3>2. \E x \in FreeFrames(m) : \A y \in FreeFrames(m) : x <= y
      BY <3>1, LeastExists
    <3>. QED
      BY <3>2 DEF FirstFreeFrame
  <2>2. f \in Frames /\ f \notin m.frame_map /\ p \in Pages /\ m.table[d][p] = NoFrame
    BY <1>2, <2>1 DEF FreeFrames, CanAllocate
  <2>3. n = [m EXCEPT !.frame_map = @ \cup {f}, !.free = @ - 1, !.table[d][p] = f]
    BY <1>2 DEF paging_allocate_user_page_frame
  <2>4. /\ n.frame_map = m.frame_map \cup {f}
        /\ n.free = m.free - 1
        /\ n.dir_used = m.dir_used
        /\ n.kernel = m.kernel
        /\ n.table = [m.table EXCEPT ![d][p] = f]
    BY <1>0, <2>3 DEF Memory
  <2>. HIDE DEF f
  <2>5. \A e \in AllDirs, q \in Pages :
          n.table[e][q] = IF e = d /\ q = p THEN f ELSE m.table[e][q]
    BY <1>0, <2>2, <2>4, MemoryFields
  <2>6. n \in Memory
    <3>1. n = [m EXCEPT !.frame_map = n.frame_map, !.free = n.free, !.table = n.table]
      BY <1>0, <2>3, <2>4 DEF Memory
    <3>2. /\ n.frame_map \in SUBSET Frames
          /\ n.free \in Int
          /\ n.table \in [AllDirs -> [Pages -> Frames \cup {NoFrame}]]
      BY <1>0, <2>2, <2>4, MemoryFields
    <3>. HIDE DEF n
    <3>. QED
      BY <1>0, <3>1, <3>2 DEF Memory
  <2>. HIDE DEF n
  <2>7. FrameAccounting(n)
    <3>1. FreeFrames(n) = FreeFrames(m) \ {f}
      BY <2>4 DEF FreeFrames
    <3>2. Cardinality(FreeFrames(n)) = Cardinality(FreeFrames(m)) - 1
      <4>1. Cardinality(FreeFrames(m) \ {f}) = Cardinality(FreeFrames(m)) - 1
        BY <2>1, FreeFramesFinite, FS_RemoveElement
      <4>. QED
        BY <3>1, <4>1
    <3>. QED
      BY <2>4, <3>2 DEF MemoryOK, FrameAccounting
  <2>8. \A e \in AllDirs, q \in Pages : m.table[e][q] = f => FALSE
    BY <2>2, MappedIsMarked, FrameNotNull DEF Mapped
  <2>9. FrameExclusive(n)
    BY <2>2, <2>5, <2>8 DEF MemoryOK, FrameExclusive
  <2>10. NoFrameLeak(n)
    <3>1. ASSUME NEW g \in n.frame_map
          PROVE  \E e \in AllDirs, q \in Pages : n.table[e][q] # NoFrame /\ n.table[e][q] = g
      <4>1. CASE g = f
        BY <2>2, <2>5, <4>1, FrameNotNull
      <4>2. CASE g \in m.frame_map
        <5>1. PICK e \in AllDirs, q \in Pages : m.table[e][q] # NoFrame /\ m.table[e][q] = g
          BY <4>2 DEF MemoryOK, NoFrameLeak, Mapped
        <5>2. ~ (e = d /\ q = p)
          BY <2>2, <5>1
        <5>. QED
          BY <2>5, <5>1, <5>2
      <4>. QED
        BY <2>4, <3>1, <4>1, <4>2
    <3>2. ASSUME NEW e \in AllDirs, NEW q \in Pages, n.table[e][q] # NoFrame
          PROVE  n.table[e][q] \in n.frame_map
      BY <2>4, <2>5, <3>2, MappedIsMarked DEF Mapped
    <3>. QED
      BY <3>1, <3>2 DEF NoFrameLeak, Mapped
  <2>11. DirectoryLifecycle(n)
    <3>1. ASSUME NEW e \in Dirs \ n.dir_used
          PROVE  n.table[e] = EmptyTable
      <4>1. e # d /\ e \in AllDirs
        BY <2>4, DirKinds
      <4>2. n.table[e] = m.table[e]
        BY <1>0, <2>4, <4>1, MemoryFields
      <4>. QED
        BY <2>4, <4>2 DEF MemoryOK, DirectoryLifecycle
    <3>. QED
      BY <2>4, <3>1 DEF MemoryOK, DirectoryLifecycle
  <2>. QED
    BY <2>4, <2>6, <2>7, <2>9, <2>10, <2>11 DEF MemoryOK, n
<1>. QED
  BY <1>1, <1>2

\* One call of the release function keeps the memory consistent.
LEMMA FreeOneOK ==
  ASSUME NEW m, MemoryOK(m), NEW d \in AllDirs, NEW p
  PROVE  MemoryOK(paging_free_user_page_frame(m, d, p))
<1>. DEFINE n == paging_free_user_page_frame(m, d, p)
<1>0. m \in Memory
  BY DEF MemoryOK
<1>1. CASE p \notin Mapped(m, d)
  BY <1>1 DEF paging_free_user_page_frame
<1>2. CASE p \in Mapped(m, d)
  <2>. DEFINE c == FreePages(m, d, {p})
  <2>1. MemoryOK(c)
    BY FreePagesOK
  <2>2. {p} \cap Mapped(m, d) = {p}
    BY <1>2
  <2>3. {m.table[d][q] : q \in {p}} = {m.table[d][p]}
    OBVIOUS
  <2>4. Cardinality({p}) = 1
    BY FS_Singleton
  <2>5. [q \in Pages |-> IF q \in {p} THEN NoFrame ELSE m.table[d][q]]
          = [m.table[d] EXCEPT ![p] = NoFrame]
    BY <1>0, <1>2, MemoryFields DEF Mapped
  <2>6. c = [m EXCEPT !.frame_map = @ \ {m.table[d][p]}, !.free = @ + 1,
                      !.table = [m.table EXCEPT ![d] = [m.table[d] EXCEPT ![p] = NoFrame]]]
    <3>1. c = [m EXCEPT !.frame_map = @ \ {m.table[d][q] : q \in {p} \cap Mapped(m, d)},
                        !.free = @ + Cardinality({p} \cap Mapped(m, d)),
                        !.table[d] = [q \in Pages |-> IF q \in {p} \cap Mapped(m, d)
                                                      THEN NoFrame ELSE @[q]]]
      BY DEF FreePages
    <3>2. c = [m EXCEPT !.frame_map = @ \ {m.table[d][q] : q \in {p}},
                        !.free = @ + Cardinality({p}),
                        !.table[d] = [q \in Pages |-> IF q \in {p} THEN NoFrame ELSE @[q]]]
      BY <2>2, <3>1
    <3>3. c = [m EXCEPT !.frame_map = @ \ {m.table[d][q] : q \in {p}},
                        !.free = @ + Cardinality({p}),
                        !.table = [m.table EXCEPT ![d] =
                           [q \in Pages |-> IF q \in {p} THEN NoFrame ELSE m.table[d][q]]]]
      BY <1>0, <3>2, MemoryFields DEF Memory
    <3>. HIDE DEF c
    <3>. QED
      BY <2>3, <2>4, <2>5, <3>3
  <2>7. n = c
    <3>1. n = [m EXCEPT !.frame_map = @ \ {m.table[d][p]}, !.free = @ + 1,
                        !.table[d][p] = NoFrame]
      BY <1>2 DEF paging_free_user_page_frame
    <3>. HIDE DEF n, c
    <3>. QED
      BY <1>0, <2>6, <3>1, MemoryFields DEF Memory
  <2>. QED
    BY <2>1, <2>7
<1>. QED
  BY <1>1, <1>2

\* The memory as the kernel is loaded is consistent.
LEMMA ResetOK == MemoryOK(MemoryAtReset)
<1>. DEFINE m == MemoryAtReset
<1>1. m \in Memory
  BY DirKinds, EmptyTableType DEF MemoryAtReset, Memory
<1>2. FrameAccounting(m)
  <2>1. FreeFrames(m) = Frames
    BY DEF FreeFrames, MemoryAtReset
  <2>. QED
    BY <2>1, FramesFinite DEF FrameAccounting, MemoryAtReset
<1>3. \A d \in AllDirs, p \in Pages : m.table[d][p] = NoFrame
  BY DEF MemoryAtReset, EmptyTable
<1>4. FrameExclusive(m) /\ NoFrameLeak(m)
  BY <1>3 DEF FrameExclusive, NoFrameLeak, Mapped, MemoryAtReset
<1>5. DirectoryLifecycle(m)
  BY DirKinds DEF DirectoryLifecycle, MemoryAtReset
<1>. QED
  BY <1>1, <1>2, <1>4, <1>5 DEF MemoryOK

-----------------------------------------------------------------------------
\* What the allocation loop leaves, field by field: page first + i has the taken
\* frame of rank i.
AllocatedAs(a, m, d, first, taken) ==
  /\ a.frame_map = m.frame_map \cup taken
  /\ a.free = m.free - Cardinality(taken)
  /\ a.table[d] \in [Pages -> Frames \cup {NoFrame}]
  /\ \A p \in Pages, f \in Frames :
       a.table[d][p] = f <=> f \in taken /\ first + Rank(m, f) = p

LEMMA AllocatePagesFields ==
  ASSUME NEW m, MemoryOK(m), NEW d \in AllDirs, m.table[d] = EmptyTable,
         NEW first \in Nat, NEW k \in Nat
  PROVE  AllocatedAs(AllocatePages(m, d, first, k), m, d, first, Taken(m, first, k))
<1>. DEFINE taken == Taken(m, first, k)
            a == AllocatePages(m, d, first, k)
            At(f) == first + Rank(m, f)
            new == [p \in Pages |->
                      IF \E f \in taken : At(f) = p
                      THEN CHOOSE f \in taken : At(f) = p
                      ELSE NoFrame]
<1>0. m \in Memory
  BY DEF MemoryOK
<1>1. taken \subseteq FreeFrames(m) /\ taken \subseteq Frames
  BY DEF Taken, FreeFrames
<1>2. \A f, g \in taken : At(f) = At(g) => f = g
  <2>1. \A f \in taken : Rank(m, f) \in Nat
    BY FreeFramesFinite, FS_Subset, FS_CardinalityType DEF Rank
  <2>2. \A f, g \in taken : Rank(m, f) = Rank(m, g) => f = g
    BY <1>1, RankInjective
  <2>. HIDE DEF taken
  <2>. QED
    BY <2>1, <2>2
<1>3. /\ a.frame_map = m.frame_map \cup taken
      /\ a.free = m.free - Cardinality(taken)
      /\ a.table = [m.table EXCEPT ![d] = new]
  BY <1>0 DEF AllocatePages, Memory
<1>4. a.table[d] = new
  BY <1>0, <1>3, MemoryFields
<1>5. \A p \in Pages : (\E f \in taken : At(f) = p) => new[p] \in taken /\ At(new[p]) = p
  OBVIOUS
<1>6. \A p \in Pages : ~ (\E f \in taken : At(f) = p) => new[p] = NoFrame
  OBVIOUS
<1>7. new \in [Pages -> Frames \cup {NoFrame}]
  <2>1. \A p \in Pages : new[p] \in Frames \cup {NoFrame}
    BY <1>1, <1>5, <1>6
  <2>. QED
    BY <2>1
<1>. HIDE DEF taken, At, new
<1>8. \A p \in Pages, f \in Frames : new[p] = f <=> f \in taken /\ At(f) = p
  BY <1>1, <1>2, <1>5, <1>6, FrameNotNull
<1>. QED
  BY <1>3, <1>4, <1>7, <1>8 DEF taken, At, AllocatedAs

\* The call after k calls that asked for consecutive pages: it takes the free frame
\* of rank k, when there is one and the page is not the kernel's.
LEMMA TakenStep ==
  ASSUME NEW m, MemoryOK(m), NEW first \in Nat, NEW k \in Nat
  PROVE  \/ /\ ~ (first + k \in Pages /\ k < Cardinality(FreeFrames(m)))
            /\ Taken(m, first, k + 1) = Taken(m, first, k)
            /\ first + k \in Pages => FreeFrames(m) \ Taken(m, first, k) = {}
         \/ /\ first + k \in Pages
            /\ \E x \in FreeFrames(m) \ Taken(m, first, k) :
                 /\ Rank(m, x) = k
                 /\ Taken(m, first, k + 1) = Taken(m, first, k) \cup {x}
                 /\ \A y \in FreeFrames(m) \ Taken(m, first, k) : x <= y
<1>. DEFINE F == FreeFrames(m)
            n == Cardinality(F)
<1>1. F \in SUBSET Nat /\ IsFiniteSet(F) /\ n \in Nat /\ m.free = n
  BY FreeFramesFinite DEF FreeFrames, Frames, MemoryOK, FrameAccounting
<1>2. \A f \in F : Rank(m, f) = Below(F, f) /\ Rank(m, f) \in Nat
  <2>1. \A f \in F : Rank(m, f) = Below(F, f)
    BY DEF Rank, Below
  <2>. HIDE DEF F
  <2>. QED
    BY <1>1, <2>1, BelowType
<1>3. \A f \in F : Rank(m, f) < n
  <2>1. ASSUME NEW f \in F
        PROVE  Below(F, f) < n
    <3>. DEFINE L == {y \in F : y < f}
    <3>. HIDE DEF F
    <3>1. L \subseteq F /\ L # F
      <4>1. f \notin L
        BY <1>1, <2>1
      <4>. QED
        BY <4>1, <2>1
    <3>2. Cardinality(L) <= n /\ Cardinality(L) \in Nat /\ Cardinality(L) # n
      BY <1>1, <3>1, FS_Subset, FS_CardinalityType
    <3>. QED
      BY <1>1, <3>2 DEF Below
  <2>. QED
    BY <1>2, <2>1
<1>4. \A j \in Nat : Taken(m, first, j) = {f \in F : Rank(m, f) < j /\ first + Rank(m, f) \in Pages}
  BY <1>1, <1>3 DEF Taken
<1>. HIDE DEF F
<1>5. \A p \in Int : p \in Pages <=> 0 <= p /\ p < UserPages
  BY DEF Pages
<1>6. ASSUME NEW f \in F
      PROVE  f \in Taken(m, first, k + 1) <=> f \in Taken(m, first, k) \/ (Rank(m, f) = k /\ first + k \in Pages)
  BY <1>2, <1>4, <1>6
<1>7. Taken(m, first, k) \subseteq F /\ Taken(m, first, k + 1) \subseteq F
  BY <1>4
<1>8. CASE first + k \notin Pages
  BY <1>6, <1>7, <1>8 DEF F
<1>9. CASE first + k \in Pages /\ k >= n
  <2>1. \A f \in F : Rank(m, f) # k
    BY <1>1, <1>2, <1>3, <1>9
  <2>2. \A f \in F : f \in Taken(m, first, k)
    <3>1. ASSUME NEW f \in F
          PROVE  Rank(m, f) < k /\ first + Rank(m, f) \in Pages
      <4>1. Rank(m, f) \in Nat /\ Rank(m, f) < n
        BY <1>2, <1>3
      <4>. HIDE DEF n
      <4>. QED
        BY <1>1, <1>5, <1>9, <4>1
    <3>. QED
      BY <1>4, <3>1
  <2>. QED
    BY <1>1, <1>6, <1>7, <1>9, <2>1, <2>2 DEF F
<1>10. CASE first + k \in Pages /\ k < n
  <2>1. PICK x \in F : Below(F, x) = k
    BY <1>1, <1>10, RankExists
  <2>2. Rank(m, x) = k
    BY <1>2, <2>1
  <2>3. \A f \in F : Rank(m, f) = k => f = x
    BY <2>2, RankInjective DEF F
  <2>4. x \notin Taken(m, first, k)
    BY <1>4, <2>2
  <2>5. Taken(m, first, k + 1) = Taken(m, first, k) \cup {x}
    BY <1>6, <1>7, <1>10, <2>2, <2>3
  <2>6. ASSUME NEW y \in F \ Taken(m, first, k)
        PROVE  x <= y
    <3>1. ~ (Rank(m, y) < k)
      <4>1. Rank(m, y) < k => first + Rank(m, y) \in Pages
        BY <1>2, <1>5, <1>10
      <4>. QED
        BY <1>4, <4>1
    <3>2. ~ (y < x)
      <4>1. y < x => Below(F, y) < Below(F, x)
        BY <1>1, BelowGrows
      <4>. QED
        BY <1>2, <2>1, <3>1, <4>1
    <3>3. x \in Nat /\ y \in Nat
      BY <1>1
    <3>. QED
      BY <3>2, <3>3
  <2>. QED
    BY <1>10, <2>2, <2>4, <2>5, <2>6 DEF F
<1>. QED
  BY <1>1, <1>8, <1>9, <1>10

\* Two memories with the same fields are the same.
LEMMA MemoryEqual ==
  ASSUME NEW a \in Memory, NEW b \in Memory,
         a.frame_map = b.frame_map, a.free = b.free, a.dir_used = b.dir_used,
         a.table = b.table, a.kernel = b.kernel
  PROVE  a = b
BY DEF Memory

\* One more page: the call that follows k calls of the loop.
LEMMA AllocateStep ==
  ASSUME NEW m, MemoryOK(m), NEW d \in AllDirs, m.table[d] = EmptyTable,
         d \in m.dir_used \/ d = KernelDir, NEW first \in Nat, NEW k \in Nat
  PROVE  paging_allocate_user_page_frame(AllocatePages(m, d, first, k), d, first + k)
           = AllocatePages(m, d, first, k + 1)
<1>. DEFINE a == AllocatePages(m, d, first, k)
            b == AllocatePages(m, d, first, k + 1)
            p == first + k
            n == paging_allocate_user_page_frame(a, d, p)
            T == Taken(m, first, k)
            U == Taken(m, first, k + 1)
<1>1. /\ MemoryOK(a) /\ a \in Memory /\ a.dir_used = m.dir_used /\ a.kernel = m.kernel
      /\ MemoryOK(b) /\ b \in Memory /\ b.dir_used = m.dir_used /\ b.kernel = m.kernel
      /\ \A e \in AllDirs \ {d} : a.table[e] = m.table[e] /\ b.table[e] = m.table[e]
  <2>1. k + 1 \in Nat
    OBVIOUS
  <2>2. MemoryOK(a) /\ MemoryOK(b)
    BY <2>1, AllocatePagesOK
  <2>. QED
    BY <2>1, <2>2, AllocatePagesOK DEF MemoryOK
<1>2. /\ a.frame_map = m.frame_map \cup T
      /\ a.free = m.free - Cardinality(T)
      /\ a.table[d] \in [Pages -> Frames \cup {NoFrame}]
      /\ \A q \in Pages, f \in Frames : a.table[d][q] = f <=> f \in T /\ first + Rank(m, f) = q
  <2>1. AllocatedAs(a, m, d, first, T)
    BY AllocatePagesFields
  <2>. QED
    BY <2>1 DEF AllocatedAs
<1>3. /\ b.frame_map = m.frame_map \cup U
      /\ b.table[d] \in [Pages -> Frames \cup {NoFrame}]
      /\ \A q \in Pages, f \in Frames : b.table[d][q] = f <=> f \in U /\ first + Rank(m, f) = q
  <2>1. k + 1 \in Nat
    OBVIOUS
  <2>2. AllocatedAs(b, m, d, first, U)
    BY <2>1, AllocatePagesFields
  <2>. QED
    BY <2>2 DEF AllocatedAs
<1>4. FreeFrames(a) = FreeFrames(m) \ T /\ p \in Nat
  BY <1>2 DEF FreeFrames
<1>5. CASE /\ ~ (p \in Pages /\ k < Cardinality(FreeFrames(m)))
           /\ U = T
           /\ p \in Pages => FreeFrames(m) \ T = {}
  <2>1. ~ CanAllocate(a, d, p)
    BY <1>4, <1>5 DEF CanAllocate
  <2>2. n = a
    BY <2>1 DEF paging_allocate_user_page_frame
  <2>3. b = a
    BY <1>5 DEF AllocatePages
  <2>. QED
    BY <2>2, <2>3
<1>6. ASSUME p \in Pages,
             NEW x \in FreeFrames(m) \ T,
             Rank(m, x) = k, U = T \cup {x},
             \A y \in FreeFrames(m) \ T : x <= y
      PROVE  n = b
  <2>1. x \in Frames /\ x \in Nat /\ x \notin m.frame_map /\ x \notin a.frame_map
    BY <1>2, <1>6 DEF FreeFrames, Frames
  <2>2. FirstFreeFrame(a) = x
    <3>1. \A y \in FreeFrames(a) : y \in Nat
      BY DEF FreeFrames, Frames
    <3>3. x \in FreeFrames(a) /\ \A g \in FreeFrames(a) : x <= g
      BY <1>4, <1>6
    <3>. HIDE DEF a, T
    <3>2. ASSUME NEW y \in FreeFrames(a), \A g \in FreeFrames(a) : y <= g
          PROVE  y = x
      BY <2>1, <3>1, <3>2, <3>3
    <3>. QED
      BY <3>2, <3>3 DEF FirstFreeFrame
  <2>3. a.table[d][p] = NoFrame
    <3>1. \A f \in T : Rank(m, f) < k /\ Rank(m, f) \in Nat
      BY FreeFramesFinite, FS_Subset, FS_CardinalityType DEF Rank, Taken
    <3>2. \A f \in T : first + Rank(m, f) # p
      BY <3>1
    <3>3. \A f \in Frames : a.table[d][p] # f
      BY <1>2, <1>6, <3>2
    <3>. QED
      BY <1>2, <1>6, <3>3
  <2>4. CanAllocate(a, d, p)
    <3>1. FreeFrames(a) # {}
      BY <1>4, <1>6
    <3>2. a.free >= 1 /\ a.free \in Int
      <4>1. a.free = Cardinality(FreeFrames(a))
        BY <1>1 DEF MemoryOK, FrameAccounting
      <4>2. Cardinality(FreeFrames(a)) # 0
        BY <3>1, FreeFramesFinite, FS_EmptySet
      <4>. QED
        BY <4>1, <4>2, FreeFramesFinite
    <3>. QED
      BY <1>6, <2>3, <3>1, <3>2, CheckOne DEF CanAllocate
  <2>5. n = [a EXCEPT !.frame_map = @ \cup {x}, !.free = @ - 1, !.table[d][p] = x]
    BY <2>2, <2>4 DEF paging_allocate_user_page_frame
  <2>6. /\ n.frame_map = a.frame_map \cup {x}
        /\ n.dir_used = a.dir_used /\ n.kernel = a.kernel
        /\ n.table = [a.table EXCEPT ![d][p] = x]
    BY <1>1, <2>5 DEF Memory
  <2>7. MemoryOK(n) /\ n \in Memory
    <3>1. MemoryOK(n)
      BY <1>1, AllocateOneOK
    <3>. QED
      BY <3>1 DEF MemoryOK
  <2>8. n.frame_map = b.frame_map
    BY <1>2, <1>3, <1>6, <2>6
  <2>9. n.free = b.free
    <3>1. FreeFrames(n) = FreeFrames(b)
      BY <2>8 DEF FreeFrames
    <3>. QED
      BY <1>1, <2>7, <3>1 DEF MemoryOK, FrameAccounting
  <2>10. \A e \in AllDirs, q \in Pages : n.table[e][q] = IF e = d /\ q = p THEN x ELSE a.table[e][q]
    BY <1>1, <1>6, <2>6, MemoryFields
  <2>11. \A q \in Pages : n.table[d][q] = b.table[d][q]
    <3>1. ASSUME NEW q \in Pages, q = p
          PROVE  b.table[d][q] = x
      BY <1>3, <1>6, <2>1, <3>1
    <3>2. ASSUME NEW q \in Pages, q # p
          PROVE  b.table[d][q] = a.table[d][q]
      <4>1. \A f \in Frames : (f \in U /\ first + Rank(m, f) = q) <=> (f \in T /\ first + Rank(m, f) = q)
        BY <1>6, <3>2
      <4>2. \A f \in Frames : b.table[d][q] = f <=> a.table[d][q] = f
        BY <1>2, <1>3, <4>1
      <4>3. b.table[d][q] \in Frames \cup {NoFrame} /\ a.table[d][q] \in Frames \cup {NoFrame}
        BY <1>2, <1>3
      <4>. QED
        BY <4>2, <4>3
    <3>. QED
      BY <2>10, <3>1, <3>2
  <2>12. n.table = b.table
    <3>1. n.table \in [AllDirs -> [Pages -> Frames \cup {NoFrame}]]
      BY <2>7, MemoryFields
    <3>2. b.table \in [AllDirs -> [Pages -> Frames \cup {NoFrame}]]
      BY <1>1, MemoryFields
    <3>3. \A e \in AllDirs, q \in Pages : n.table[e][q] = b.table[e][q]
      BY <1>1, <2>10, <2>11
    <3>. HIDE DEF n, b
    <3>4. \A e \in AllDirs : n.table[e] = b.table[e]
      BY <3>1, <3>2, <3>3
    <3>. QED
      BY <3>1, <3>2, <3>4
  <2>. QED
    BY <1>1, <2>6, <2>7, <2>8, <2>9, <2>12, MemoryEqual
<1>7. \/ /\ ~ (p \in Pages /\ k < Cardinality(FreeFrames(m)))
         /\ U = T
         /\ p \in Pages => FreeFrames(m) \ T = {}
      \/ /\ p \in Pages
         /\ \E x \in FreeFrames(m) \ T :
              /\ Rank(m, x) = k
              /\ U = T \cup {x}
              /\ \A y \in FreeFrames(m) \ T : x <= y
  BY TakenStep
<1>. QED
  BY <1>5, <1>6, <1>7

\* No call, no change.
LEMMA AllocateNone ==
  ASSUME NEW m, MemoryOK(m), NEW d \in AllDirs, m.table[d] = EmptyTable,
         d \in m.dir_used \/ d = KernelDir, NEW first \in Nat
  PROVE  AllocatePages(m, d, first, 0) = m
<1>. DEFINE a == AllocatePages(m, d, first, 0)
<1>0. 0 \in Nat /\ m \in Memory /\ m.free \in Int
  BY MemoryFields DEF MemoryOK
<1>1. Taken(m, first, 0) = {}
  <2>1. \A f \in FreeFrames(m) : ~ (Rank(m, f) < 0)
    BY FreeFramesFinite, FS_Subset, FS_CardinalityType DEF Rank
  <2>. QED
    BY <2>1 DEF Taken
<1>2. MemoryOK(a) /\ a \in Memory /\ a.dir_used = m.dir_used /\ a.kernel = m.kernel
  BY <1>0, AllocatePagesOK DEF MemoryOK
<1>3. \A e \in AllDirs \ {d} : a.table[e] = m.table[e]
  BY <1>0, AllocatePagesOK
<1>4. AllocatedAs(a, m, d, first, {})
  BY <1>0, <1>1, AllocatePagesFields
<1>. HIDE DEF a
<1>5. a.frame_map = m.frame_map /\ a.free = m.free
  BY <1>0, <1>4, FS_EmptySet DEF AllocatedAs
<1>6. a.table[d] = EmptyTable
  <2>1. \A p \in Pages : a.table[d][p] = NoFrame
    BY <1>4 DEF AllocatedAs
  <2>. QED
    BY <1>4, <2>1 DEF EmptyTable, AllocatedAs
<1>7. a.table = m.table
  <2>1. /\ a.table \in [AllDirs -> [Pages -> Frames \cup {NoFrame}]]
        /\ m.table \in [AllDirs -> [Pages -> Frames \cup {NoFrame}]]
    BY <1>0, <1>2, MemoryFields
  <2>2. \A e \in AllDirs : a.table[e] = m.table[e]
    BY <1>3, <1>6
  <2>. QED
    BY <2>1, <2>2
<1>. QED
  BY <1>0, <1>2, <1>5, <1>7, MemoryEqual DEF a

\* The memory after k calls of the allocation loop, the calls in a row.
LEMMA AllocationLoopIs ==
  ASSUME NEW m, MemoryOK(m), NEW d \in AllDirs, m.table[d] = EmptyTable,
         d \in m.dir_used \/ d = KernelDir, NEW first \in Nat, NEW n \in Nat
  PROVE  AllocationLoop(m, d, first, n) = AllocatePages(m, d, first, n)
<1>. DEFINE Call(x, k) == paging_allocate_user_page_frame(x, d, first + k - 1)
            Row(A) == [k \in 0 .. n |-> IF k = 0 THEN m ELSE Call(A[k - 1], k)]
            After == CHOOSE A : A = Row(A)
            C == [k \in 0 .. n |-> AllocatePages(m, d, first, k)]
<1>1. AllocatePages(m, d, first, 0) = m
  BY AllocateNone
<1>2. \A k \in 0 .. n : k # 0 => Call(AllocatePages(m, d, first, k - 1), k) = AllocatePages(m, d, first, k)
  <2>1. ASSUME NEW k \in 0 .. n, k # 0
        PROVE  Call(AllocatePages(m, d, first, k - 1), k) = AllocatePages(m, d, first, k)
    <3>1. k - 1 \in Nat /\ (k - 1) + 1 = k /\ first + (k - 1) = first + k - 1
      BY <2>1
    <3>2. paging_allocate_user_page_frame(AllocatePages(m, d, first, k - 1), d, first + (k - 1))
            = AllocatePages(m, d, first, (k - 1) + 1)
      BY <3>1, AllocateStep
    <3>. QED
      BY <3>1, <3>2
  <2>. QED
    BY <2>1
<1>3. AllocationLoop(m, d, first, n) = After[n]
  BY Zenon DEF AllocationLoop
<1>. HIDE DEF Call
<1>4. C = Row(C)
  <2>1. \A k \in 0 .. n : k # 0 => k - 1 \in 0 .. n
    OBVIOUS
  <2>2. \A k \in 0 .. n : C[k] = AllocatePages(m, d, first, k)
    OBVIOUS
  <2>. HIDE DEF C
  <2>3. \A k \in 0 .. n : C[k] = IF k = 0 THEN m ELSE Call(C[k - 1], k)
    BY <1>1, <1>2, <2>1, <2>2
  <2>. QED
    BY <2>2, <2>3 DEF C
<1>5. After = Row(After)
  BY <1>4
<1>. HIDE DEF After
<1>. DEFINE S == {k \in 0 .. n : After[k] = AllocatePages(m, d, first, k)}
<1>6. \A k \in 0 .. n : After[k] = IF k = 0 THEN m ELSE Call(After[k - 1], k)
  BY <1>5
<1>7. 0 \in S
  BY <1>1, <1>6
<1>8. \A k \in 0 .. n - 1 : k \in S => k + 1 \in S
  <2>1. ASSUME NEW k \in 0 .. n - 1, k \in S
        PROVE  k + 1 \in S
    <3>1. k + 1 \in 0 .. n /\ k + 1 # 0 /\ (k + 1) - 1 = k
      BY <2>1
    <3>2. After[k + 1] = Call(After[k], k + 1)
      BY <1>6, <3>1
    <3>3. Call(AllocatePages(m, d, first, k), k + 1) = AllocatePages(m, d, first, k + 1)
      BY <1>2, <3>1
    <3>. QED
      BY <2>1, <3>1, <3>2, <3>3
  <2>. QED
    BY <2>1
<1>9. n \in S
  <2>. HIDE DEF S
  <2>1. \A k \in 0 .. n : k \in S
    BY <1>7, <1>8, InductionUpTo
  <2>. QED
    BY <2>1
<1>. QED
  BY <1>3, <1>9

-----------------------------------------------------------------------------
\* What the release loop leaves, field by field, when the pages gone were mapped.
ReleasedAs(a, m, d, gone) ==
  /\ a.frame_map = m.frame_map \ {m.table[d][p] : p \in gone}
  /\ a.free = m.free + Cardinality(gone)
  /\ a.dir_used = m.dir_used /\ a.kernel = m.kernel
  /\ \A e \in AllDirs, p \in Pages :
       a.table[e][p] = IF e = d /\ p \in gone THEN NoFrame ELSE m.table[e][p]

LEMMA FreePagesFields ==
  ASSUME NEW m, MemoryOK(m), NEW d \in AllDirs, NEW pages
  PROVE  ReleasedAs(FreePages(m, d, pages), m, d, pages \cap Mapped(m, d))
<1>. DEFINE gone == pages \cap Mapped(m, d)
            a == FreePages(m, d, pages)
<1>0. m \in Memory
  BY DEF MemoryOK
<1>1. /\ a.frame_map = m.frame_map \ {m.table[d][p] : p \in gone}
      /\ a.free = m.free + Cardinality(gone)
      /\ a.dir_used = m.dir_used /\ a.kernel = m.kernel
      /\ a.table = [m.table EXCEPT ![d] = [p \in Pages |-> IF p \in gone THEN NoFrame ELSE @[p]]]
  BY <1>0 DEF FreePages, Memory
<1>2. \A e \in AllDirs, p \in Pages :
        a.table[e][p] = IF e = d /\ p \in gone THEN NoFrame ELSE m.table[e][p]
  BY <1>0, <1>1, MemoryFields
<1>. QED
  BY <1>1, <1>2 DEF ReleasedAs

\* Releasing pages that are not mapped changes nothing.
LEMMA FreeNone ==
  ASSUME NEW m, MemoryOK(m), NEW d \in AllDirs, NEW pages, pages \cap Mapped(m, d) = {}
  PROVE  FreePages(m, d, pages) = m
<1>. DEFINE a == FreePages(m, d, pages)
<1>0. m \in Memory /\ MemoryOK(a) /\ a \in Memory /\ m.free \in Int
  BY FreePagesOK, MemoryFields DEF MemoryOK
<1>1. ReleasedAs(a, m, d, {})
  BY FreePagesFields
<1>. HIDE DEF a
<1>2. /\ a.frame_map = m.frame_map /\ a.free = m.free
      /\ a.dir_used = m.dir_used /\ a.kernel = m.kernel
  BY <1>0, <1>1, FS_EmptySet DEF ReleasedAs
<1>3. a.table = m.table
  <2>1. /\ a.table \in [AllDirs -> [Pages -> Frames \cup {NoFrame}]]
        /\ m.table \in [AllDirs -> [Pages -> Frames \cup {NoFrame}]]
    BY <1>0, MemoryFields
  <2>2. \A e \in AllDirs, p \in Pages : a.table[e][p] = m.table[e][p]
    BY <1>1 DEF ReleasedAs
  <2>3. \A e \in AllDirs : a.table[e] = m.table[e]
    BY <2>1, <2>2
  <2>. QED
    BY <2>1, <2>3
<1>. QED
  BY <1>0, <1>1, <1>2, <1>3, MemoryEqual DEF a

\* Releasing one page more: the call that follows the release of the others.
LEMMA FreeStep ==
  ASSUME NEW m, MemoryOK(m), NEW d \in AllDirs, NEW pages, NEW p, p \notin pages
  PROVE  paging_free_user_page_frame(FreePages(m, d, pages), d, p)
           = FreePages(m, d, pages \cup {p})
<1>. DEFINE a == FreePages(m, d, pages)
            b == FreePages(m, d, pages \cup {p})
            n == paging_free_user_page_frame(a, d, p)
            G == pages \cap Mapped(m, d)
<1>0. m \in Memory /\ MemoryOK(a) /\ a \in Memory /\ MemoryOK(b) /\ b \in Memory
  BY FreePagesOK DEF MemoryOK
<1>1. /\ a.frame_map = m.frame_map \ {m.table[d][q] : q \in G}
      /\ a.dir_used = m.dir_used /\ a.kernel = m.kernel
      /\ \A e \in AllDirs, q \in Pages :
           a.table[e][q] = IF e = d /\ q \in G THEN NoFrame ELSE m.table[e][q]
  <2>1. ReleasedAs(a, m, d, G)
    BY FreePagesFields
  <2>. QED
    BY <2>1 DEF ReleasedAs
<1>2. p \in Mapped(a, d) <=> p \in Mapped(m, d)
  BY <1>1 DEF Mapped
<1>3. CASE p \notin Mapped(m, d)
  <2>1. (pages \cup {p}) \cap Mapped(m, d) = G
    BY <1>3
  <2>2. b = a
    BY <2>1 DEF FreePages
  <2>. QED
    BY <1>2, <1>3, <2>2 DEF paging_free_user_page_frame
<1>4. CASE p \in Mapped(m, d)
  <2>. DEFINE H == (pages \cup {p}) \cap Mapped(m, d)
  <2>0. p \in Pages /\ H = G \cup {p} /\ p \notin G
    BY <1>4 DEF Mapped
  <2>1. /\ b.frame_map = m.frame_map \ {m.table[d][q] : q \in H}
        /\ b.dir_used = m.dir_used /\ b.kernel = m.kernel
        /\ \A e \in AllDirs, q \in Pages :
             b.table[e][q] = IF e = d /\ q \in H THEN NoFrame ELSE m.table[e][q]
    <3>1. ReleasedAs(b, m, d, H)
      BY FreePagesFields
    <3>. QED
      BY <3>1 DEF ReleasedAs
  <2>2. a.table[d][p] = m.table[d][p]
    BY <1>1, <2>0
  <2>3. n = [a EXCEPT !.frame_map = @ \ {m.table[d][p]}, !.free = @ + 1, !.table[d][p] = NoFrame]
    BY <1>2, <1>4, <2>2 DEF paging_free_user_page_frame
  <2>4. /\ n.frame_map = a.frame_map \ {m.table[d][p]}
        /\ n.dir_used = a.dir_used /\ n.kernel = a.kernel
        /\ n.table = [a.table EXCEPT ![d][p] = NoFrame]
    BY <1>0, <2>3 DEF Memory
  <2>5. MemoryOK(n) /\ n \in Memory
    BY <1>0, FreeOneOK DEF MemoryOK
  <2>. HIDE DEF n, a, b, G, H
  <2>6. n.frame_map = b.frame_map
    BY <1>1, <2>0, <2>1, <2>4
  <2>7. n.free = b.free
    <3>1. FreeFrames(n) = FreeFrames(b)
      BY <2>6 DEF FreeFrames
    <3>. QED
      BY <1>0, <2>5, <3>1 DEF MemoryOK, FrameAccounting
  <2>8. n.table = b.table
    <3>1. /\ a.table \in [AllDirs -> [Pages -> Frames \cup {NoFrame}]]
          /\ b.table \in [AllDirs -> [Pages -> Frames \cup {NoFrame}]]
          /\ n.table \in [AllDirs -> [Pages -> Frames \cup {NoFrame}]]
      BY <1>0, <2>5, MemoryFields
    <3>2. \A e \in AllDirs, q \in Pages :
            n.table[e][q] = IF e = d /\ q = p THEN NoFrame ELSE a.table[e][q]
      BY <2>0, <2>4, <3>1
    <3>3. \A e \in AllDirs, q \in Pages : n.table[e][q] = b.table[e][q]
      BY <1>1, <2>0, <2>1, <3>2
    <3>4. \A e \in AllDirs : n.table[e] = b.table[e]
      BY <3>1, <3>3
    <3>. QED
      BY <3>1, <3>4
  <2>9. n.dir_used = b.dir_used /\ n.kernel = b.kernel
    BY <1>1, <2>1, <2>4
  <2>10. n = b
    BY <1>0, <2>5, <2>6, <2>7, <2>8, <2>9, MemoryEqual
  <2>. QED
    BY <2>10 DEF n, a, b
<1>. QED
  BY <1>3, <1>4

\* The memory after k calls of the release loop, the calls in a row.
LEMMA FreeLoopIs ==
  ASSUME NEW m, MemoryOK(m), NEW d \in AllDirs, NEW first \in Nat, NEW n \in Nat
  PROVE  FreeLoop(m, d, first, n) = FreePages(m, d, first .. first + n - 1)
<1>. DEFINE UpTo(k) == first .. first + k - 1
            Call(x, k) == paging_free_user_page_frame(x, d, first + k - 1)
            Row(A) == [k \in 0 .. n |-> IF k = 0 THEN m ELSE Call(A[k - 1], k)]
            After == CHOOSE A : A = Row(A)
            C == [k \in 0 .. n |-> FreePages(m, d, UpTo(k))]
<1>1. FreePages(m, d, UpTo(0)) = m
  <2>1. UpTo(0) = {}
    OBVIOUS
  <2>. QED
    BY <2>1, FreeNone
<1>2. \A k \in 0 .. n : k # 0 => Call(FreePages(m, d, UpTo(k - 1)), k) = FreePages(m, d, UpTo(k))
  <2>1. ASSUME NEW k \in 0 .. n, k # 0
        PROVE  Call(FreePages(m, d, UpTo(k - 1)), k) = FreePages(m, d, UpTo(k))
    <3>1. first + k - 1 \notin UpTo(k - 1) /\ UpTo(k) = UpTo(k - 1) \cup {first + k - 1}
      BY <2>1
    <3>. DEFINE P == UpTo(k - 1)
                p == first + k - 1
    <3>2. paging_free_user_page_frame(FreePages(m, d, P), d, p) = FreePages(m, d, P \cup {p})
      <4>1. p \notin P
        BY <3>1
      <4>. HIDE DEF P, p
      <4>. QED
        BY <4>1, FreeStep
    <3>. QED
      BY <3>1, <3>2
  <2>. QED
    BY <2>1
<1>3. FreeLoop(m, d, first, n) = After[n]
  BY Zenon DEF FreeLoop
<1>. HIDE DEF Call, UpTo
<1>4. C = Row(C)
  <2>1. \A k \in 0 .. n : k # 0 => k - 1 \in 0 .. n
    OBVIOUS
  <2>2. \A k \in 0 .. n : C[k] = FreePages(m, d, UpTo(k))
    OBVIOUS
  <2>. HIDE DEF C
  <2>3. \A k \in 0 .. n : C[k] = IF k = 0 THEN m ELSE Call(C[k - 1], k)
    BY <1>1, <1>2, <2>1, <2>2
  <2>. QED
    BY <2>2, <2>3 DEF C
<1>5. After = Row(After)
  BY <1>4
<1>. HIDE DEF After
<1>. DEFINE S == {k \in 0 .. n : After[k] = FreePages(m, d, UpTo(k))}
<1>6. \A k \in 0 .. n : After[k] = IF k = 0 THEN m ELSE Call(After[k - 1], k)
  BY <1>5
<1>7. 0 \in S
  BY <1>1, <1>6
<1>8. \A k \in 0 .. n - 1 : k \in S => k + 1 \in S
  <2>1. ASSUME NEW k \in 0 .. n - 1, k \in S
        PROVE  k + 1 \in S
    <3>1. k + 1 \in 0 .. n /\ k + 1 # 0 /\ (k + 1) - 1 = k
      BY <2>1
    <3>2. After[k + 1] = Call(After[k], k + 1)
      BY <1>6, <3>1
    <3>3. Call(FreePages(m, d, UpTo(k)), k + 1) = FreePages(m, d, UpTo(k + 1))
      BY <1>2, <3>1
    <3>. QED
      BY <2>1, <3>1, <3>2, <3>3
  <2>. QED
    BY <2>1
<1>9. n \in S
  <2>. HIDE DEF S
  <2>1. \A k \in 0 .. n : k \in S
    BY <1>7, <1>8, InductionUpTo
  <2>. QED
    BY <2>1
<1>. QED
  BY <1>3, <1>9 DEF UpTo

-----------------------------------------------------------------------------
\* Under any history of calls the frame bitmap, its counter and all directories
\* agree: the free counter counts the unmarked frames, a frame is marked
\* exactly when one page of one directory maps it, and an unused directory maps
\* nothing (paging.c:71-185, 287-384).
THEOREM PagingConsistent == PagingSpec => []MemoryOK(mem)
<1>1. PagingInit => MemoryOK(mem)
  BY ResetOK DEF PagingInit
<1>2. MemoryOK(mem) /\ [PagingNext]_mem => MemoryOK(mem)'
  <2>. SUFFICES ASSUME MemoryOK(mem), [PagingNext]_mem
                PROVE  MemoryOK(mem)'
    OBVIOUS
  <2>0. \A d \in HeldDirs : d \in AllDirs /\ (d \in mem.dir_used \/ d = KernelDir)
    BY DirKinds, MemoryFields DEF MemoryOK, HeldDirs
  <2>1. ASSUME NEW d \in HeldDirs, NEW p \in 0 .. UserPages, AllocateUserPage(d, p)
        PROVE  MemoryOK(mem)'
    BY <2>0, <2>1, AllocateOneOK DEF AllocateUserPage
  <2>2. ASSUME NEW d \in HeldDirs, NEW p \in 0 .. UserPages, FreeUserPage(d, p)
        PROVE  MemoryOK(mem)'
    BY <2>0, <2>2, FreeOneOK DEF FreeUserPage
  <2>3. CASE CreateDirectory
    BY <2>3, CreateDirectoryOK DEF CreateDirectory, IsFirstUnusedDir
  <2>4. ASSUME NEW d \in AllDirs, FreeDirectory(d)
        PROVE  MemoryOK(mem)'
    <3>1. CASE d \in Dirs
      BY <2>4, <3>1, FreeDirectoryOK DEF FreeDirectory
    <3>2. CASE d \notin Dirs
      BY <2>4, <3>2, MemoryFields DEF FreeDirectory, paging_free_page_directory, MemoryOK
    <3>. QED
      BY <3>1, <3>2
  <2>5. CASE UNCHANGED mem
    BY <2>5
  <2>. QED
    BY <2>1, <2>2, <2>3, <2>4, <2>5 DEF PagingNext
<1>. QED
  BY <1>1, <1>2, PTL DEF PagingSpec

\* The properties of the component's run follow from it for every number of
\* frames, directories and pages.
THEOREM PagingSafety ==
  PagingSpec => [](PagingTypeOK /\ FramesCounted /\ FramesOwnedOnce /\ DirectoriesPrepared)
<1>1. MemoryOK(mem)
        => PagingTypeOK /\ FramesCounted /\ FramesOwnedOnce /\ DirectoriesPrepared
  BY DEF MemoryOK, PagingTypeOK, FramesCounted, FramesOwnedOnce, DirectoriesPrepared
<1>. QED
  BY <1>1, PagingConsistent, PTL

\* The memory record keeps its types (paging.h:85-108).
THEOREM PagingTypeCorrect == PagingSpec => []PagingTypeOK
BY PagingSafety, PTL

\* The free counter is the number of clear bits in the frame map, however often
\* a page is mapped twice or freed twice (paging.c:71-185).
THEOREM CounterSafe == PagingSpec => []FramesCounted
BY PagingSafety, PTL

\* No frame is ever mapped by two pages (paging.c:91-185).
THEOREM FramesSafe == PagingSpec => []FramesOwnedOnce
BY PagingSafety, PTL

\* A directory in use maps the kernel, and one that is not maps nothing at all
\* (paging.c:287-353).
THEOREM DirectoriesSafe == PagingSpec => []DirectoriesPrepared
BY PagingSafety, PTL

\* The closed forms that the process manager is written with are the loops of
\* process.c, from every memory that calls of the allocator can lead to
\* (process.c:57-62, 107-111 over paging.c:91-185).
THEOREM LoopsCorrect == PagingSpec => []LoopsAgree
<1>1. MemoryOK(mem) => LoopsAgree
  <2>. SUFFICES ASSUME MemoryOK(mem), NEW d \in HeldDirs,
                       NEW first \in 0 .. UserPages, NEW n \in 0 .. UserPages + 1
                PROVE  /\ mem.table[d] = EmptyTable
                            => AllocatePages(mem, d, first, n) = AllocationLoop(mem, d, first, n)
                       /\ FreePages(mem, d, first .. first + n - 1) = FreeLoop(mem, d, first, n)
    BY DEF LoopsAgree
  <2>1. /\ d \in AllDirs /\ (d \in mem.dir_used \/ d = KernelDir)
        /\ first \in Nat /\ n \in Nat
    BY DirKinds, MemoryFields DEF MemoryOK, HeldDirs
  <2>2. ASSUME mem.table[d] = EmptyTable
        PROVE  AllocationLoop(mem, d, first, n) = AllocatePages(mem, d, first, n)
    BY <2>1, <2>2, AllocationLoopIs
  <2>3. FreeLoop(mem, d, first, n) = FreePages(mem, d, first .. first + n - 1)
    BY <2>1, FreeLoopIs
  <2>. QED
    BY <2>2, <2>3
<1>. QED
  BY <1>1, PagingConsistent, PTL
=============================================================================
