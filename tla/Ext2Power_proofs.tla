-------------------------- MODULE Ext2Power_proofs --------------------------
(***************************************************************************)
(* What the power may take.  The disk is compared with a sound image h that  *)
(* says the same in its inode table and its blocks: whatever write a call is  *)
(* cut short after, there is one, the bits that the disk has too many are     *)
(* lost room, and those it has too few belong to names whose removal was cut  *)
(* short.                                                                  *)
(***************************************************************************)
EXTENDS Ext2Power, Ext2Tree_proofs

USE Ext2Assumption

-----------------------------------------------------------------------------
(* The image after the first writes of a call. *)

IsAfter(A, fs, ws) ==
  A = [j \in 0 .. Len(ws) |-> IF j = 0 THEN fs ELSE Written(A[j - 1], ws[j])]

After(fs, ws) == CHOOSE A : IsAfter(A, fs, ws)

LEMMA ImageAfterIs == \A fs, ws, k : ImageAfter(fs, ws, k) = After(fs, ws)[k]
BY Zenon DEF ImageAfter, After, IsAfter

LEMMA AfterExists ==
  ASSUME NEW fs, NEW ws, Len(ws) \in Nat
  PROVE  IsAfter(After(fs, ws), fs, ws)
<1>. SUFFICES \E A : IsAfter(A, fs, ws)
  BY DEF After
<1>. DEFINE UpTo(m, f) == f = [j \in 0 .. m |-> IF j = 0 THEN fs ELSE Written(f[j - 1], ws[j])]
            S == {m \in Nat : \E f : UpTo(m, f)}
<1>1. 0 \in S
  <2>. DEFINE f == [j \in 0 .. 0 |-> fs]
  <2>1. UpTo(0, f)
    OBVIOUS
  <2>. QED
    BY <2>1
<1>2. ASSUME NEW m \in Nat, m \in S
      PROVE  m + 1 \in S
  <2>1. PICK g : UpTo(m, g)
    BY <1>2
  <2>. DEFINE f == [j \in 0 .. m + 1 |-> IF j = m + 1 THEN Written(g[m], ws[m + 1]) ELSE g[j]]
  <2>2. \A j \in 0 .. m : g[j] = IF j = 0 THEN fs ELSE Written(g[j - 1], ws[j])
    BY <2>1
  <2>. HIDE DEF UpTo
  <2>3. ASSUME NEW j \in 0 .. m + 1
        PROVE  f[j] = IF j = 0 THEN fs ELSE Written(f[j - 1], ws[j])
    <3>1. CASE j = 0
      BY <2>2, <3>1
    <3>2. CASE j \in 1 .. m
      <4>1. j \in 0 .. m /\ j - 1 \in 0 .. m + 1 /\ j # m + 1 /\ j - 1 # m + 1 /\ j # 0
        BY <3>2
      <4>. QED
        BY <2>2, <4>1
    <3>3. CASE j = m + 1
      <4>1. j - 1 = m /\ m \in 0 .. m + 1 /\ m # m + 1 /\ j # 0
        BY <3>3
      <4>. QED
        BY <3>3, <4>1
    <3>. QED
      BY <3>1, <3>2, <3>3
  <2>4. f = [j \in 0 .. m + 1 |-> IF j = 0 THEN fs ELSE Written(f[j - 1], ws[j])]
    BY <2>3
  <2>5. UpTo(m + 1, f)
    BY <2>4 DEF UpTo
  <2>. QED
    BY <2>5
<1>. HIDE DEF S
<1>3. Len(ws) \in S
  <2>1. \A k \in 0 .. Len(ws) - 1 : k \in S => k + 1 \in S
    BY <1>2
  <2>2. \A k \in 0 .. Len(ws) : k \in S
    BY <1>1, <2>1, InductionUpTo
  <2>. QED
    BY <2>2
<1>. QED
  BY <1>3 DEF S, IsAfter

\* The image after k + 1 writes is the image after k, and one more write.
Stepwise(fs, ws) ==
  /\ ImageAfter(fs, ws, 0) = fs
  /\ \A k \in 0 .. Len(ws) - 1 :
       ImageAfter(fs, ws, k + 1) = Written(ImageAfter(fs, ws, k), ws[k + 1])

LEMMA ImageAfterSteps ==
  ASSUME NEW fs, NEW ws, Len(ws) \in Nat
  PROVE  Stepwise(fs, ws)
<1>. DEFINE A == After(fs, ws)
<1>1. \A j \in 0 .. Len(ws) : A[j] = IF j = 0 THEN fs ELSE Written(A[j - 1], ws[j])
  <2>. DEFINE Row(F, j) == IF j = 0 THEN fs ELSE Written(F[j - 1], ws[j])
  <2>1. A = [j \in 0 .. Len(ws) |-> Row(A, j)]
    BY AfterExists DEF IsAfter
  <2>2. \A j \in 0 .. Len(ws) : A[j] = Row(A, j)
    <3>. HIDE DEF Row, A
    <3>. QED
      BY <2>1
  <2>. HIDE DEF A
  <2>. QED
    BY <2>2
<1>2. \A k \in 0 .. Len(ws) - 1 : k + 1 \in 0 .. Len(ws) /\ k + 1 # 0 /\ (k + 1) - 1 = k
  OBVIOUS
<1>. HIDE DEF A
<1>3. 0 \in 0 .. Len(ws)
  OBVIOUS
<1>4. \A k \in 0 .. Len(ws) : A[k] = ImageAfter(fs, ws, k)
  BY ImageAfterIs DEF A
<1>5. /\ A[0] = fs
      /\ \A k \in 0 .. Len(ws) - 1 : A[k + 1] = Written(A[k], ws[k + 1])
  BY <1>1, <1>2, <1>3
<1>6. \A k \in 0 .. Len(ws) - 1 : k \in 0 .. Len(ws)
  OBVIOUS
<1>. QED
  BY <1>2, <1>3, <1>4, <1>5, <1>6 DEF Stepwise

-----------------------------------------------------------------------------
(* Writes that keep to a part of the disk. *)

\* Writes to the bits of the inodes I and the blocks B, to the records of the
\* inodes R and to the contents of the blocks C.
Within(I, B, R, C) ==
  {InodeBit(i, v) : i \in I, v \in BOOLEAN} \cup {BlockBit(b, v) : b \in B, v \in BOOLEAN}
    \cup {Record(i, nd) : i \in R, nd \in NodeType} \cup {Filled(b, c) : b \in C, c \in Content}

Near(fs, gs, I, B, R, C) ==
  /\ gs \in Image
  /\ gs.imap \ I = fs.imap \ I /\ gs.bmap \ B = fs.bmap \ B
  /\ \A i \in Inodes \ R : gs.node[i] = fs.node[i]
  /\ \A b \in Blocks \ C : gs.blk[b] = fs.blk[b]

LEMMA WrittenNear ==
  ASSUME NEW fs, NEW I \in SUBSET Inodes, NEW B \in SUBSET Blocks,
         NEW R \in SUBSET Inodes, NEW C \in SUBSET Blocks,
         NEW gs, Near(fs, gs, I, B, R, C), NEW w \in Within(I, B, R, C)
  PROVE  Near(fs, Written(gs, w), I, B, R, C)
<1>1. /\ gs \in Image /\ gs.imap \in SUBSET Inodes /\ gs.bmap \in SUBSET Blocks
      /\ gs.node \in [Inodes -> NodeType] /\ gs.blk \in [Blocks -> Content]
  BY ImageFields DEF Near
<1>2. ASSUME NEW i \in I, NEW v \in BOOLEAN, w = InodeBit(i, v)
      PROVE  Near(fs, Written(gs, w), I, B, R, C)
  <2>1. Written(gs, w) = [gs EXCEPT !.imap = IF v THEN gs.imap \cup {i} ELSE gs.imap \ {i}]
    BY <1>1, <1>2 DEF Written, InodeBit, WithBit, Image
  <2>. DEFINE m == IF v THEN gs.imap \cup {i} ELSE gs.imap \ {i}
  <2>2. m \in SUBSET Inodes /\ m \ I = gs.imap \ I
    BY <1>1, <1>2
  <2>. HIDE DEF m
  <2>. QED
    BY <1>1, <2>1, <2>2 DEF Near, Image, m
<1>3. ASSUME NEW b \in B, NEW v \in BOOLEAN, w = BlockBit(b, v)
      PROVE  Near(fs, Written(gs, w), I, B, R, C)
  <2>1. Written(gs, w) = [gs EXCEPT !.bmap = IF v THEN gs.bmap \cup {b} ELSE gs.bmap \ {b}]
    BY <1>1, <1>3 DEF Written, BlockBit, WithBit, Image
  <2>. DEFINE m == IF v THEN gs.bmap \cup {b} ELSE gs.bmap \ {b}
  <2>2. m \in SUBSET Blocks /\ m \ B = gs.bmap \ B
    BY <1>1, <1>3
  <2>. HIDE DEF m
  <2>. QED
    BY <1>1, <2>1, <2>2 DEF Near, Image, m
<1>4. ASSUME NEW i \in R, NEW nd \in NodeType, w = Record(i, nd)
      PROVE  Near(fs, Written(gs, w), I, B, R, C)
  <2>1. Written(gs, w) = [gs EXCEPT !.node = [gs.node EXCEPT ![i] = nd]]
    BY <1>1, <1>4 DEF Written, Record, Image
  <2>2. /\ [gs.node EXCEPT ![i] = nd] \in [Inodes -> NodeType]
        /\ \A j \in Inodes \ R : [gs.node EXCEPT ![i] = nd][j] = gs.node[j]
    BY <1>1
  <2>. QED
    BY <1>1, <2>1, <2>2 DEF Near, Image
<1>5. ASSUME NEW b \in C, NEW c \in Content, w = Filled(b, c)
      PROVE  Near(fs, Written(gs, w), I, B, R, C)
  <2>1. Written(gs, w) = [gs EXCEPT !.blk = [gs.blk EXCEPT ![b] = c]]
    BY <1>1, <1>5 DEF Written, Filled, Image
  <2>2. /\ [gs.blk EXCEPT ![b] = c] \in [Blocks -> Content]
        /\ \A a \in Blocks \ C : [gs.blk EXCEPT ![b] = c][a] = gs.blk[a]
    BY <1>1
  <2>. QED
    BY <1>1, <2>1, <2>2 DEF Near, Image
<1>. QED
  BY <1>2, <1>3, <1>4, <1>5 DEF Within

LEMMA AfterNear ==
  ASSUME NEW fs \in Image, NEW I \in SUBSET Inodes, NEW B \in SUBSET Blocks,
         NEW R \in SUBSET Inodes, NEW C \in SUBSET Blocks,
         NEW ws, Len(ws) \in Nat, NEW k \in 0 .. Len(ws),
         \A j \in 1 .. k : ws[j] \in Within(I, B, R, C)
  PROVE  Near(fs, ImageAfter(fs, ws, k), I, B, R, C)
<1>. DEFINE S == {j \in 0 .. k : Near(fs, ImageAfter(fs, ws, j), I, B, R, C)}
<1>0. k \in Nat /\ k <= Len(ws)
  OBVIOUS
<1>4. /\ ImageAfter(fs, ws, 0) = fs
      /\ \A m \in 0 .. Len(ws) - 1 :
           ImageAfter(fs, ws, m + 1) = Written(ImageAfter(fs, ws, m), ws[m + 1])
  <2>1. Stepwise(fs, ws)
    BY ImageAfterSteps
  <2>. QED
    BY <2>1 DEF Stepwise
<1>1. 0 \in S
  BY <1>0, <1>4 DEF Near
<1>2. ASSUME NEW j \in 0 .. k - 1, j \in S
      PROVE  j + 1 \in S
  <2>1. /\ ImageAfter(fs, ws, j + 1) = Written(ImageAfter(fs, ws, j), ws[j + 1])
        /\ ws[j + 1] \in Within(I, B, R, C) /\ j + 1 \in 0 .. k
    <3>1. j \in 0 .. Len(ws) - 1 /\ j + 1 \in 1 .. k /\ j + 1 \in 0 .. k
      BY <1>0
    <3>2. ImageAfter(fs, ws, j + 1) = Written(ImageAfter(fs, ws, j), ws[j + 1])
      BY <1>4, <3>1
    <3>. QED
      BY <3>1, <3>2
  <2>. QED
    BY <1>2, <2>1, WrittenNear
<1>. HIDE DEF S
<1>3. \A j \in 0 .. k : j \in S
  BY <1>0, <1>1, <1>2, InductionUpTo
<1>. QED
  BY <1>0, <1>3 DEF S

\* A call whose writes but the last keep to a part of the disk, cut short.
LEMMA AllButLast ==
  ASSUME NEW W, NEW made \in Seq(W), NEW ws,
         ws = made \/ \E x : ws = Append(made, x), NEW k \in 1 .. Len(ws) - 1
  PROVE  Len(ws) \in Nat /\ k \in 0 .. Len(ws) /\ \A j \in 1 .. k : ws[j] \in W
<1>0. Len(made) \in Nat /\ \A j \in 1 .. Len(made) : made[j] \in W
  BY ElementOfSeq
<1>1. CASE ws = made
  BY <1>0, <1>1
<1>2. ASSUME NEW x, ws = Append(made, x)
      PROVE  Len(ws) \in Nat /\ k \in 0 .. Len(ws) /\ \A j \in 1 .. k : ws[j] \in W
  <2>1. made \in Seq(W \cup {x}) /\ x \in W \cup {x}
    <3>1. made = [j \in 1 .. Len(made) |-> made[j]]
      OBVIOUS
    <3>. QED
      BY <1>0, <3>1
  <2>2. /\ Len(ws) = Len(made) + 1
        /\ \A j \in 1 .. Len(made) : ws[j] = made[j]
    BY <1>2, <2>1, AppendFacts
  <2>3. \A j \in 1 .. k : j \in 1 .. Len(made)
    BY <1>0, <2>2
  <2>. QED
    BY <1>0, <2>2, <2>3
<1>. QED
  BY <1>1, <1>2

-----------------------------------------------------------------------------
(* Creations. *)

LEMMA ShortSeqs ==
  ASSUME NEW S, NEW x \in S, NEW y \in S, NEW z \in S, NEW p \in Seq(S), NEW q \in Seq(S)
  PROVE  <<x>> \in Seq(S) /\ <<x, y>> \in Seq(S) /\ <<x, y, z>> \in Seq(S) /\ p \o q \in Seq(S)
OBVIOUS

LEMMA FunctionIsSeq ==
  ASSUME NEW S, NEW c \in Nat, NEW f \in [1 .. c -> S]
  PROVE  f \in Seq(S) /\ Len(f) = c
OBVIOUS

LEMMA SeqGrows ==
  ASSUME NEW S, NEW p \in Seq(S), NEW x
  PROVE  p \in Seq(S \cup {x})
<1>1. p = [j \in 1 .. Len(p) |-> p[j]] /\ Len(p) \in Nat
  OBVIOUS
<1>2. \A j \in 1 .. Len(p) : p[j] \in S \cup {x}
  BY ElementOfSeq
<1>. QED
  BY <1>1, <1>2

LEMMA LastOfTwo ==
  ASSUME NEW S, NEW p \in Seq(S), NEW x \in S, NEW y \in S
  PROVE  p \o <<x, y>> = Append(p \o <<x>>, y)
OBVIOUS

LEMMA WithinHas ==
  ASSUME NEW I, NEW B, NEW R, NEW C
  PROVE  /\ \A i \in I, v \in BOOLEAN : InodeBit(i, v) \in Within(I, B, R, C)
         /\ \A b \in B, v \in BOOLEAN : BlockBit(b, v) \in Within(I, B, R, C)
         /\ \A i \in R, nd \in NodeType : Record(i, nd) \in Within(I, B, R, C)
         /\ \A b \in C, c \in Content : Filled(b, c) \in Within(I, B, R, C)
BY DEF Within

LEMMA NodeWritesFacts ==
  ASSUME NEW fs \in Image, NEW i \in Inodes, NEW nd \in NodeType,
         NEW I, NEW B, NEW R, i \in R, NEW C
  PROVE  NodeWrites(fs, i, nd) \in Seq(Within(I, B, R, C))
<1>. DEFINE new == StoredPart(i, nd)
            first == [new EXCEPT !.ptr = fs.node[i].ptr, !.ind = fs.node[i].ind]
<1>1. new \in NodeType
  BY StoredPartType
<1>2. fs.node[i] \in NodeType
  BY ImageFields
<1>3. fs.node[i].ptr \in [Direct -> Pointers] /\ fs.node[i].ind \in Pointers
  BY <1>2, NodeFields
<1>. HIDE DEF new
<1>4. first \in NodeType
  BY <1>1, <1>3 DEF NodeType
<1>5. NodeWrites(fs, i, nd) = <<Record(i, first), Record(i, new)>>
  BY DEF NodeWrites, new
<1>. HIDE DEF first
<1>6. Record(i, first) \in Within(I, B, R, C) /\ Record(i, new) \in Within(I, B, R, C)
  BY <1>1, <1>4, WithinHas
<1>. QED
  BY <1>5, <1>6, ShortSeqs, EmptySeq

\* gs is fs after the first writes of a creation: only a free inode and free
\* blocks, no more than a file has of its own, have been written to.
Strayed(fs, gs) ==
  \E i \in FreeInodes(fs) : \E B \in SUBSET FreeBlocks(fs) :
    Cardinality(B) <= DIRECT /\ Near(fs, gs, {i}, B, {i}, B)

LEMMA StrayedAfter ==
  ASSUME NEW fs \in Image, NEW i \in FreeInodes(fs), NEW B \in SUBSET FreeBlocks(fs),
         Cardinality(B) <= DIRECT, NEW made \in Seq(Within({i}, B, {i}, B)), NEW ws,
         ws = made \/ \E x : ws = Append(made, x), NEW k \in 1 .. Len(ws) - 1
  PROVE  Strayed(fs, ImageAfter(fs, ws, k))
<1>1. {i} \in SUBSET Inodes /\ B \in SUBSET Blocks
  BY DEF FreeInodes, FreeBlocks
<1>2. Len(ws) \in Nat /\ k \in 0 .. Len(ws) /\ \A j \in 1 .. k : ws[j] \in Within({i}, B, {i}, B)
  BY AllButLast
<1>3. Near(fs, ImageAfter(fs, ws, k), {i}, B, {i}, B)
  BY <1>1, <1>2, AfterNear
<1>. QED
  BY <1>3 DEF Strayed

LEMMA MkdirCut ==
  ASSUME NEW fs \in Image, NEW d \in Inodes, NEW n,
         NEW k \in 1 .. Len(create_directory_writes(fs, d, n)) - 1
  PROVE  Strayed(fs, ImageAfter(fs, create_directory_writes(fs, d, n), k))
<1>. DEFINE ws   == create_directory_writes(fs, d, n)
            code == create_directory_code(fs, d, n)
            i    == allocate_node(fs)
            b    == NthFree(fs, 0)
            made == <<InodeBit(i, TRUE), BlockBit(b, TRUE), Filled(b, DirectoryTable(i, d))>>
                    \o NodeWrites(fs, i, DirNode(b))
            back == <<InodeBit(i, FALSE), BlockBit(b, FALSE)>>
<1>1. ws = CASE code = 0  -> Append(made, EntryWrite(fs, d, n, i, "dir"))
             [] code = -6 -> made \o back
             [] code = -5 -> <<InodeBit(i, TRUE), InodeBit(i, FALSE)>>
             [] OTHER     -> <<>>
  BY DEF create_directory_writes
<1>2. code \in {0, -6, -5}
  <2>. SUFFICES ASSUME code \notin {0, -6, -5}
                PROVE  FALSE
    OBVIOUS
  <2>. HIDE DEF made, back
  <2>1. ws = <<>>
    BY <1>1
  <2>2. Len(ws) = 0
    BY <2>1
  <2>3. k \in 1 .. 0 - 1
    BY <2>2
  <2>. QED
    BY <2>3
<1>3. /\ code \in {0, -6, -5} => FreeInodes(fs) # {}
      /\ code \in {0, -6} => FreeBlocks(fs) # {}
  BY DEF create_directory_code
<1>4. i \in FreeInodes(fs) /\ i \in Inodes
  BY <1>2, <1>3, AllocateNode
<1>. HIDE DEF i
<1>5. CASE code = -5
  <2>1. \A v \in BOOLEAN : InodeBit(i, v) \in Within({i}, {}, {i}, {})
    BY WithinHas
  <2>. HIDE DEF ws, code, made, back
  <2>2. ws = <<InodeBit(i, TRUE), InodeBit(i, FALSE)>>
    <3>1. code # 0 /\ code # -6
      BY <1>5
    <3>. QED
      BY <1>1, <1>5, <3>1, Zenon
  <2>3. <<InodeBit(i, TRUE), InodeBit(i, FALSE)>> \in Seq(Within({i}, {}, {i}, {}))
    BY <2>1, ShortSeqs, EmptySeq
  <2>4. Cardinality({}) <= DIRECT
    BY FS_EmptySet
  <2>. QED
    BY <1>4, <2>2, <2>3, <2>4, StrayedAfter DEF ws
<1>6. CASE code \in {0, -6}
  <2>. DEFINE W == Within({i}, {b}, {i}, {b})
  <2>1. b \in FreeBlocks(fs) /\ b \in Blocks
    <3>1. 0 < Cardinality(FreeBlocks(fs))
      BY <1>3, <1>6, FreeBlocksFinite, FS_EmptySet
    <3>. QED
      BY <3>1, NthFreeFacts DEF FreeBlocks
  <2>2. DirectoryTable(i, d) \in Content
    BY <1>4, NewTable DEF Content
  <2>. HIDE DEF b
  <2>3. /\ \A v \in BOOLEAN : InodeBit(i, v) \in W /\ BlockBit(b, v) \in W
        /\ Filled(b, DirectoryTable(i, d)) \in W
    BY <2>2, WithinHas
  <2>4. NodeWrites(fs, i, DirNode(b)) \in Seq(W)
    <3>1. DirNode(b) \in NodeType
      BY <2>1, DirNodeFields
    <3>. QED
      BY <1>4, <3>1, NodeWritesFacts
  <2>5. Cardinality({b}) <= DIRECT
    <3>1. Cardinality({b}) = 1
      BY FS_Singleton
    <3>. QED
      BY <3>1
  <2>. HIDE DEF W
  <2>6. made \in Seq(W) /\ back \in Seq(W) /\ made \o back \in Seq(W)
    <3>1. <<InodeBit(i, TRUE), BlockBit(b, TRUE), Filled(b, DirectoryTable(i, d))>> \in Seq(W)
      BY <2>3, ShortSeqs, EmptySeq
    <3>2. made \in Seq(W)
      BY <2>3, <2>4, <3>1, ShortSeqs
    <3>3. back \in Seq(W)
      BY <2>3, ShortSeqs, EmptySeq
    <3>. HIDE DEF made, back
    <3>. QED
      BY <2>3, <3>2, <3>3, ShortSeqs
  <2>. HIDE DEF made, back, ws, code
  <2>7. CASE code = 0
    <3>1. ws = Append(made, EntryWrite(fs, d, n, i, "dir"))
      BY <1>1, <2>7
    <3>. QED
      BY <1>4, <2>1, <2>5, <2>6, <3>1, StrayedAfter DEF W, ws
  <2>8. CASE code = -6
    <3>0. code # 0 /\ code # -5
      BY <2>8
    <3>1. ws = made \o back
      BY <1>1, <2>8, <3>0, Zenon
    <3>. QED
      BY <1>4, <2>1, <2>5, <2>6, <3>1, StrayedAfter DEF W, ws
  <2>. QED
    BY <1>6, <2>7, <2>8
<1>. QED
  BY <1>2, <1>5, <1>6

\* The numbers of a set in their order.
LEMMA InOrderFacts ==
  ASSUME NEW S \in SUBSET Nat, IsFiniteSet(S)
  PROVE  /\ Len(InOrder(S)) = Cardinality(S) /\ InOrder(S) \in Seq(S)
         /\ \A j \in 1 .. Cardinality(S) : /\ InOrder(S)[j] \in S
                                           /\ Below(S, InOrder(S)[j]) = j - 1
         /\ \A x \in S : \E j \in 1 .. Cardinality(S) : InOrder(S)[j] = x
<1>. DEFINE c == Cardinality(S)
            at(j) == CHOOSE k \in S : Below(S, k) = j - 1
<1>1. c \in Nat
  BY FS_CardinalityType
<1>2. InOrder(S) = [j \in 1 .. c |-> at(j)]
  BY DEF InOrder, Below
<1>3. ASSUME NEW j \in 1 .. c
      PROVE  at(j) \in S /\ Below(S, at(j)) = j - 1
  <2>1. j - 1 \in Nat /\ j - 1 < Cardinality(S)
    BY <1>1
  <2>2. \E k \in S : Below(S, k) = j - 1
    BY <2>1, RankExists
  <2>. QED
    BY <2>2
<1>4. ASSUME NEW x \in S
      PROVE  \E j \in 1 .. c : at(j) = x
  <2>. DEFINE j == Below(S, x) + 1
  <2>1. Below(S, x) \in Nat /\ Below(S, x) < Cardinality(S)
    <3>1. {y \in S : y < x} \subseteq S \ {x} /\ x \in Nat
      OBVIOUS
    <3>2. IsFiniteSet(S \ {x}) /\ Cardinality(S \ {x}) = Cardinality(S) - 1
      BY FS_RemoveElement
    <3>3. Cardinality({y \in S : y < x}) <= Cardinality(S \ {x})
      BY <3>1, <3>2, FS_Subset
    <3>. QED
      BY <1>1, <3>2, <3>3, BelowType DEF Below
  <2>2. j \in 1 .. c /\ j - 1 = Below(S, x)
    BY <1>1, <2>1
  <2>. HIDE DEF j
  <2>3. at(j) \in S /\ Below(S, at(j)) = Below(S, x)
    BY <1>3, <2>2
  <2>4. at(j) = x
    <3>. HIDE DEF at
    <3>. QED
      BY <2>3, BelowInjective
  <2>. QED
    BY <2>2, <2>4
<1>. HIDE DEF at, c
<1>5. InOrder(S) \in Seq(S) /\ Len(InOrder(S)) = c
  <2>1. InOrder(S) \in [1 .. c -> S]
    BY <1>2, <1>3
  <2>. QED
    BY <1>1, <2>1, FunctionIsSeq
<1>6. \A j \in 1 .. c : InOrder(S)[j] = at(j)
  BY <1>2
<1>. QED
  BY <1>3, <1>4, <1>5, <1>6 DEF c

\* The blocks that copy_file puts a file into.
NewBlocks(fs, nd) == {CopyTarget(fs, nd, k) : k \in PlacedBlocks(fs, nd)}

LEMMA NewBlocksFew ==
  ASSUME NEW fs, NEW nd \in NodeType
  PROVE  /\ NewBlocks(fs, nd) \in SUBSET FreeBlocks(fs)
         /\ IsFiniteSet(NewBlocks(fs, nd)) /\ Cardinality(NewBlocks(fs, nd)) <= DIRECT
         /\ PlacedBlocks(fs, nd) \in SUBSET Nat /\ IsFiniteSet(PlacedBlocks(fs, nd))
<1>. DEFINE placed == PlacedBlocks(fs, nd)
            f == [k \in placed |-> CopyTarget(fs, nd, k)]
<1>1. placed \subseteq Direct /\ placed \in SUBSET Nat
  BY CopiedFacts DEF PlacedBlocks
<1>2. IsFiniteSet(Direct) /\ Cardinality(Direct) = DIRECT
  <2>1. 0 \in Int /\ DIRECT - 1 \in Int /\ ~ (0 > DIRECT - 1) /\ DIRECT - 1 - 0 + 1 = DIRECT
    OBVIOUS
  <2>. QED
    BY <2>1, FS_Interval DEF Direct
<1>3. IsFiniteSet(placed) /\ Cardinality(placed) <= DIRECT
  BY <1>1, <1>2, FS_Subset
<1>4. f \in Surjection(placed, NewBlocks(fs, nd))
  BY DEF Surjection, NewBlocks
<1>5. IsFiniteSet(NewBlocks(fs, nd)) /\ Cardinality(NewBlocks(fs, nd)) <= Cardinality(placed)
  BY <1>3, <1>4, FS_Surjection
<1>6. Cardinality(NewBlocks(fs, nd)) \in Nat /\ Cardinality(placed) \in Nat
  BY <1>3, <1>5, FS_CardinalityType
<1>. QED
  BY <1>1, <1>3, <1>5, <1>6, TargetFacts DEF NewBlocks

LEMMA TargetsFacts ==
  ASSUME NEW fs \in Image, NEW nd \in NodeType
  PROVE  Targets(fs, nd) \in Seq([from : Blocks, to : NewBlocks(fs, nd)])
<1>. DEFINE placed == PlacedBlocks(fs, nd)
            ks == InOrder(placed)
<1>1. ks \in Seq(placed)
  BY NewBlocksFew, InOrderFacts
<1>2. \A k \in placed : nd.ptr[k] \in Blocks /\ CopyTarget(fs, nd, k) \in NewBlocks(fs, nd)
  BY CopiedFacts DEF PlacedBlocks, NewBlocks
<1>3. Targets(fs, nd) = [j \in DOMAIN ks |-> [from |-> nd.ptr[ks[j]],
                                              to   |-> CopyTarget(fs, nd, ks[j])]]
  BY DEF Targets
<1>. HIDE DEF ks, placed
<1>4. DOMAIN ks = 1 .. Len(ks) /\ Len(ks) \in Nat /\ \A j \in 1 .. Len(ks) : ks[j] \in placed
  BY <1>1, ElementOfSeq
<1>5. Targets(fs, nd) \in [1 .. Len(ks) -> [from : Blocks, to : NewBlocks(fs, nd)]]
  BY <1>2, <1>3, <1>4
<1>. QED
  BY <1>4, <1>5, FunctionIsSeq

LEMMA CopyWritesIn ==
  ASSUME NEW fs \in Image, NEW nd \in NodeType, NEW W,
         W = Within({allocate_node(fs)}, NewBlocks(fs, nd), {allocate_node(fs)},
                    NewBlocks(fs, nd))
  PROVE  DataWrites(fs, nd) \in Seq(W) /\ BitsBack(fs, nd) \in Seq(W)
<1>. DEFINE i  == allocate_node(fs)
            cs == Targets(fs, nd)
            N  == NewBlocks(fs, nd)
            dw(m) == LET c == cs[(m + 1) \div 2]
                     IN  IF m % 2 = 1 THEN BlockBit(c.to, TRUE) ELSE Filled(c.to, fs.blk[c.from])
<1>1. cs \in Seq([from : Blocks, to : N])
  BY TargetsFacts
<1>2. DataWrites(fs, nd) = [m \in 1 .. 2 * Len(cs) |-> dw(m)]
  BY DEF DataWrites
<1>3. BitsBack(fs, nd) = <<InodeBit(i, FALSE)>> \o [j \in DOMAIN cs |-> BlockBit(cs[j].to, FALSE)]
  BY DEF BitsBack
<1>4. /\ \A v \in BOOLEAN : InodeBit(i, v) \in W
      /\ \A b \in N, v \in BOOLEAN : BlockBit(b, v) \in W
      /\ \A b \in N, c \in Content : Filled(b, c) \in W
  BY WithinHas
<1>5. \A b \in Blocks : fs.blk[b] \in Content
  BY ImageFields
<1>. HIDE DEF i, N, cs
<1>6. DOMAIN cs = 1 .. Len(cs) /\ Len(cs) \in Nat
      /\ \A j \in 1 .. Len(cs) : cs[j].to \in N /\ cs[j].from \in Blocks
  <2>1. \A j \in 1 .. Len(cs) : cs[j] \in [from : Blocks, to : N]
    BY <1>1, ElementOfSeq
  <2>. QED
    BY <1>1, <2>1
<1>7. DataWrites(fs, nd) \in Seq(W)
  <2>1. ASSUME NEW m \in 1 .. 2 * Len(cs)
        PROVE  dw(m) \in W
    <3>1. (m + 1) \div 2 \in 1 .. Len(cs)
      BY <1>6
    <3>. DEFINE c == cs[(m + 1) \div 2]
    <3>2. c.to \in N /\ c.from \in Blocks
      BY <1>6, <3>1
    <3>. HIDE DEF c
    <3>3. BlockBit(c.to, TRUE) \in W /\ Filled(c.to, fs.blk[c.from]) \in W
      BY <1>4, <1>5, <3>2
    <3>4. dw(m) = IF m % 2 = 1 THEN BlockBit(c.to, TRUE) ELSE Filled(c.to, fs.blk[c.from])
      BY DEF c
    <3>. HIDE DEF dw
    <3>. QED
      BY <3>3, <3>4, Zenon
  <2>. HIDE DEF dw
  <2>2. DataWrites(fs, nd) \in [1 .. 2 * Len(cs) -> W]
    <3>. DEFINE M == 1 .. 2 * Len(cs)
    <3>1. \A m \in M : dw(m) \in W
      BY <2>1
    <3>. HIDE DEF M
    <3>2. [m \in M |-> dw(m)] \in [M -> W]
      BY <3>1
    <3>. QED
      BY <1>2, <3>2, Zenon DEF M
  <2>3. 2 * Len(cs) \in Nat
    BY <1>6
  <2>. QED
    BY <2>2, <2>3, FunctionIsSeq
<1>8. BitsBack(fs, nd) \in Seq(W)
  <2>. DEFINE bs == [j \in DOMAIN cs |-> BlockBit(cs[j].to, FALSE)]
  <2>1. bs \in [1 .. Len(cs) -> W]
    BY <1>4, <1>6
  <2>2. bs \in Seq(W)
    BY <1>6, <2>1, FunctionIsSeq
  <2>3. InodeBit(i, FALSE) \in W
    BY <1>4
  <2>. HIDE DEF bs
  <2>4. <<InodeBit(i, FALSE)>> \o bs \in Seq(W)
    <3>1. <<InodeBit(i, FALSE)>> \in Seq(W)
      BY <2>3, ShortSeqs, EmptySeq
    <3>. QED
      BY <2>2, <2>3, <3>1, ShortSeqs
  <2>. QED
    BY <1>3, <2>4 DEF bs
<1>. QED
  BY <1>7, <1>8

\* What the entry named s leads to, when there is one, is an inode of the table.
LEMMA SourceType ==
  ASSUME NEW fs \in Image, NEW d, EntriesOf(fs, d) \in Seq(EntryRec),
         NEW s, Has(EntriesOf(fs, d), s)
  PROVE  /\ ShellTarget(fs, d, s) \in Inodes
         /\ Source(fs, d, s) = fs.node[ShellTarget(fs, d, s)] /\ Source(fs, d, s) \in NodeType
<1>1. EntriesOf(fs, d)[IndexOf(EntriesOf(fs, d), s)] \in EntryRec
  BY IndexFacts, ElementOfSeq
<1>2. ShellTarget(fs, d, s) \in Inodes
  BY <1>1, EntryFields DEF ShellTarget
<1>. QED
  BY <1>2, ImageFields DEF Source, ShellTarget

LEMMA CopyCut ==
  ASSUME NEW fs \in Image, NEW d, EntriesOf(fs, d) \in Seq(EntryRec), NEW s, NEW t,
         NEW k \in 1 .. Len(copy_file_writes(fs, d, s, t)) - 1
  PROVE  Strayed(fs, ImageAfter(fs, copy_file_writes(fs, d, s, t), k))
<1>. DEFINE ws   == copy_file_writes(fs, d, s, t)
            code == copy_file_code(fs, d, s, t)
            nd   == Source(fs, d, s)
            i    == allocate_node(fs)
            B    == NewBlocks(fs, nd)
            W    == Within({i}, B, {i}, B)
            copied == <<InodeBit(i, TRUE)>> \o DataWrites(fs, nd)
            synced == copied \o NodeWrites(fs, i, CopyNode(fs, nd))
<1>1. ws = CASE code = 0  -> Append(synced, EntryWrite(fs, d, t, i, "reg"))
             [] code = -5 -> copied \o BitsBack(fs, nd)
             [] code = -8 -> synced \o BitsBack(fs, nd)
             [] OTHER     -> <<>>
  BY DEF copy_file_writes
<1>2. code \in {0, -5, -8}
  <2>. SUFFICES ASSUME code \notin {0, -5, -8}
                PROVE  FALSE
    OBVIOUS
  <2>. HIDE DEF copied, synced, code, nd
  <2>1. ws = <<>>
    BY <1>1
  <2>2. k \in 1 .. 0 - 1
    BY <2>1
  <2>. QED
    BY <2>2
<1>3. /\ Has(EntriesOf(fs, d), s) /\ FreeInodes(fs) # {}
      /\ code \in {0, -8} => PlacedBlocks(fs, nd) = CopiedBlocks(nd)
  BY <1>2 DEF copy_file_code, Source
<1>4. nd \in NodeType
  BY <1>3, SourceType
<1>5. i \in FreeInodes(fs) /\ i \in Inodes
  BY <1>3, AllocateNode
<1>6. B \in SUBSET FreeBlocks(fs) /\ Cardinality(B) <= DIRECT
  BY <1>4, NewBlocksFew
<1>7. DataWrites(fs, nd) \in Seq(W) /\ BitsBack(fs, nd) \in Seq(W)
  BY <1>4, CopyWritesIn
<1>8. InodeBit(i, TRUE) \in W
  BY WithinHas
<1>9. code \in {0, -8} => NodeWrites(fs, i, CopyNode(fs, nd)) \in Seq(W)
  <2>. HIDE DEF code, nd, i, B
  <2>. SUFFICES ASSUME code \in {0, -8}
                PROVE  NodeWrites(fs, i, CopyNode(fs, nd)) \in Seq(W)
    OBVIOUS
  <2>1. CopyNode(fs, nd) \in NodeType
    BY <1>3, <1>4, CopyNodeFacts
  <2>. QED
    BY <1>5, <2>1, NodeWritesFacts
<1>. HIDE DEF code, nd, i, B, W
<1>10. copied \in Seq(W)
  <2>1. <<InodeBit(i, TRUE)>> \in Seq(W)
    BY <1>8, ShortSeqs, EmptySeq
  <2>. QED
    BY <1>7, <1>8, <2>1, ShortSeqs
<1>. HIDE DEF copied
<1>11. code \in {0, -8} => synced \in Seq(W)
  BY <1>8, <1>9, <1>10, ShortSeqs
<1>. HIDE DEF synced
<1>12. /\ copied \o BitsBack(fs, nd) \in Seq(W)
       /\ code = -8 => synced \o BitsBack(fs, nd) \in Seq(W)
  BY <1>7, <1>8, <1>10, <1>11, ShortSeqs
<1>. HIDE DEF ws
<1>13. \E made \in Seq(W) : ws = made \/ \E x : ws = Append(made, x)
  <2>1. CASE code = 0
    <3>1. ws = Append(synced, EntryWrite(fs, d, t, i, "reg"))
      BY <1>1, <2>1
    <3>. QED
      BY <1>11, <2>1, <3>1
  <2>2. CASE code = -5
    <3>0. code # 0 /\ code # -8
      BY <2>2
    <3>1. ws = copied \o BitsBack(fs, nd)
      BY <1>1, <2>2, <3>0, Zenon
    <3>. QED
      BY <1>12, <3>1
  <2>3. CASE code = -8
    <3>0. code # 0 /\ code # -5
      BY <2>3
    <3>1. ws = synced \o BitsBack(fs, nd)
      BY <1>1, <2>3, <3>0, Zenon
    <3>. QED
      BY <1>12, <2>3, <3>1
  <2>. QED
    BY <1>2, <2>1, <2>2, <2>3
<1>14. PICK made \in Seq(W) : ws = made \/ \E x : ws = Append(made, x)
  BY <1>13
<1>15. k \in 1 .. Len(ws) - 1
  BY DEF ws
<1>16. Strayed(fs, ImageAfter(fs, ws, k))
  BY <1>5, <1>6, <1>14, <1>15, StrayedAfter DEF W
<1>. QED
  BY <1>16 DEF ws

-----------------------------------------------------------------------------
(* Removals. *)

\* A removal cut short has cleared bits of what it removes, and nothing else.
LEMMA RmCut ==
  ASSUME NEW fs \in Image, NEW d, NEW n, ShellTarget(fs, d, n) \in Inodes,
         NEW k \in 1 .. Len(rm_writes(fs, d, n)) - 1
  PROVE  /\ ShellSees(fs, d, n) /\ rm_code(fs, d, n) = 0
         /\ Near(fs, ImageAfter(fs, rm_writes(fs, d, n), k), {ShellTarget(fs, d, n)},
                 Released(fs, ShellTarget(fs, d, n)), {}, {})
<1>. DEFINE ws == rm_writes(fs, d, n)
            i  == ShellTarget(fs, d, n)
            nd == fs.node[i]
            K  == {l \in Direct : l < nd.blocks /\ nd.ptr[l] # NoBlock}
            B  == Released(fs, i)
            W  == Within({i}, B, {}, {})
            ks == InOrder(K)
            bits == [j \in DOMAIN ks |-> BlockBit(nd.ptr[ks[j]], FALSE)]
            last == Filled(DirBlock(fs, d), RemoveEntry(EntriesOf(fs, d), n))
<1>1. ShellSees(fs, d, n) /\ rm_code(fs, d, n) = 0
  <2>. SUFFICES ASSUME ~ (ShellSees(fs, d, n) /\ rm_code(fs, d, n) = 0)
                PROVE  FALSE
    OBVIOUS
  <2>1. ws = <<>>
    BY DEF rm_writes
  <2>2. k \in 1 .. 0 - 1
    BY <2>1
  <2>. QED
    BY <2>2
<1>2. ws = bits \o <<InodeBit(i, FALSE), last>>
  <2>1. ws = DeletionWrites(fs, d, n)
    BY <1>1 DEF rm_writes
  <2>. QED
    BY <2>1, Zenon DEF DeletionWrites
<1>3. nd \in NodeType
  BY ImageFields
<1>4. B = {nd.ptr[l] : l \in K} /\ B \in SUBSET Blocks
  <2>1. \A l \in Direct : nd.ptr[l] \in Pointers
    BY <1>3, NodeFields
  <2>. QED
    BY <2>1 DEF Released, Pointers
<1>5. K \in SUBSET Nat /\ IsFiniteSet(K)
  <2>1. IsFiniteSet(0 .. DIRECT - 1)
    <3>1. 0 \in Int /\ DIRECT - 1 \in Int
      OBVIOUS
    <3>. QED
      BY <3>1, FS_Interval
  <2>2. K \subseteq Direct /\ Direct \in SUBSET Nat
    BY DEF Direct
  <2>. QED
    BY <2>1, <2>2, FS_Subset DEF Direct
<1>6. ks \in Seq(K)
  BY <1>5, InOrderFacts
<1>7. /\ InodeBit(i, FALSE) \in W
      /\ \A b \in B : BlockBit(b, FALSE) \in W
  BY WithinHas
<1>0. i \in Inodes
  OBVIOUS
<1>. HIDE DEF i, nd, B, W, ks
<1>8. DOMAIN ks = 1 .. Len(ks) /\ Len(ks) \in Nat /\ \A j \in 1 .. Len(ks) : ks[j] \in K
  BY <1>6, ElementOfSeq
<1>9. bits \in Seq(W)
  <2>. HIDE DEF K
  <2>1. bits \in [1 .. Len(ks) -> W]
    BY <1>4, <1>7, <1>8
  <2>. QED
    BY <1>8, <2>1, FunctionIsSeq
<1>. DEFINE made == bits \o <<InodeBit(i, FALSE)>>
<1>. HIDE DEF bits, last
<1>10. made \in Seq(W)
  <2>1. <<InodeBit(i, FALSE)>> \in Seq(W)
    BY <1>7, ShortSeqs, EmptySeq
  <2>. QED
    BY <1>7, <1>9, <2>1, ShortSeqs
<1>11. ws = Append(made, last)
  <2>. DEFINE V == W \cup {last}
              x == InodeBit(i, FALSE)
  <2>1. bits \in Seq(V) /\ x \in V /\ last \in V
    BY <1>7, <1>9, SeqGrows
  <2>. HIDE DEF V, x
  <2>2. bits \o <<x, last>> = Append(bits \o <<x>>, last)
    BY <2>1, LastOfTwo
  <2>. QED
    BY <1>2, <2>2 DEF x
<1>. HIDE DEF made, ws
<1>12. k \in 1 .. Len(ws) - 1
  BY DEF ws
<1>13. Len(ws) \in Nat /\ k \in 0 .. Len(ws) /\ \A j \in 1 .. k : ws[j] \in W
  <2>1. ws = made \/ \E x : ws = Append(made, x)
    BY <1>11
  <2>. QED
    BY <1>10, <1>12, <2>1, AllButLast
<1>14. {i} \in SUBSET Inodes /\ {} \in SUBSET Inodes /\ {} \in SUBSET Blocks
  BY <1>0
<1>15. Near(fs, ImageAfter(fs, ws, k), {i}, B, {}, {})
  BY <1>4, <1>13, <1>14, AfterNear DEF W
<1>. QED
  BY <1>1, <1>15 DEF ws, B, i

-----------------------------------------------------------------------------
(* Names whose removal was cut short. *)

\* The removal of the name t[2] from the directory t[1] can be made: there is such
\* a name, and what it names lists nothing.
Leaf(h, t) ==
  LET i == ShellTarget(h, t[1], t[2])
  IN  /\ t[2] \in UserNames
      /\ \E e : e.name = t[2] /\ Listed(h, t[1], e, i)
      /\ \A e, m : ~ Listed(h, i, e, m)

LEMMA ListedTarget ==
  ASSUME NEW fs, DiskOK(fs), NEW d, NEW e, NEW i, Listed(fs, d, e, i)
  PROVE  /\ Has(EntriesOf(fs, d), e.name) /\ ShellTarget(fs, d, e.name) = i
         /\ EntriesOf(fs, d)[IndexOf(EntriesOf(fs, d), e.name)] = e
<1>. DEFINE es == EntriesOf(fs, d)
<1>1. d \in DirsOf(fs) /\ e \in ChildrenOf(fs, d) /\ e.inode = i
  BY DEF Listed
<1>2. es \in Seq(EntryRec) /\ NamesOnce(es)
  BY <1>1, DirFacts DEF TableOK
<1>3. PICK j \in DOMAIN es : es[j] = e
  BY <1>1 DEF ChildrenOf
<1>4. Has(es, e.name)
  BY <1>3 DEF Has
<1>5. IndexOf(es, e.name) \in 1 .. Len(es) /\ es[IndexOf(es, e.name)].name = e.name
  BY <1>2, <1>4, IndexFacts
<1>6. IndexOf(es, e.name) = j
  BY <1>2, <1>3, <1>5 DEF NamesOnce
<1>. QED
  BY <1>1, <1>3, <1>4, <1>6 DEF ShellTarget

LEMMA LeafFacts ==
  ASSUME NEW h, DiskOK(h), NEW t, Leaf(h, t)
  PROVE  /\ t[1] \in DirsOf(h) /\ ShellTarget(h, t[1], t[2]) \in h.imap
         /\ Has(EntriesOf(h, t[1]), t[2])
         /\ rm_code(h, t[1], t[2]) = 0
<1>. DEFINE d  == t[1]
            n  == t[2]
            i  == ShellTarget(h, d, n)
            es == EntriesOf(h, d)
<1>1. PICK e : e.name = n /\ Listed(h, d, e, i)
  BY DEF Leaf
<1>2. /\ d \in DirsOf(h) /\ i \in h.imap /\ h.node[i].mode = e.type
      /\ Has(es, n) /\ es[IndexOf(es, n)] = e
  <2>1. Has(es, e.name) /\ es[IndexOf(es, e.name)] = e
    BY <1>1, ListedTarget
  <2>. QED
    BY <1>1, <2>1, ListedFacts
<1>3. IsDirectory(h, i) => IsEmptyDirectory(h, i)
  <2>. SUFFICES ASSUME IsDirectory(h, i)
                PROVE  \A j \in DOMAIN EntriesOf(h, i) : EntriesOf(h, i)[j].name \in {Dot, DotDot}
    BY DEF IsEmptyDirectory
  <2>1. i \in DirsOf(h)
    BY <1>2 DEF DirsOf
  <2>2. \A x : ~ (x \in ChildrenOf(h, i))
    BY <2>1 DEF Leaf, Listed
  <2>. QED
    BY <2>2 DEF ChildrenOf
<1>4. es[IndexOf(es, n)].inode = i
  BY DEF ShellTarget
<1>. HIDE DEF i, es
<1>5. CASE IsDirectory(h, i)
  <2>1. e.type = "dir"
    BY <1>2, <1>5 DEF IsDirectory
  <2>2. delete_directory_code(h, d, n) = 0
    BY <1>2, <1>3, <1>4, <1>5, <2>1 DEF delete_directory_code, es
  <2>. QED
    BY <1>2, <1>5, <2>2 DEF rm_code, i, es
<1>6. CASE ~ IsDirectory(h, i)
  <2>1. e.type # "dir"
    BY <1>2, <1>6 DEF IsDirectory
  <2>2. delete_file_code(h, d, n) = 0
    BY <1>2, <2>1 DEF delete_file_code, es
  <2>. QED
    BY <1>2, <1>6, <2>2 DEF rm_code, i, es
<1>. QED
  BY <1>5, <1>6

LEMMA RemovableIsLeaf ==
  ASSUME NEW h, DiskOK(h), NEW d \in DirsOf(h), NEW n \in UserNames,
         Has(EntriesOf(h, d), n), rm_code(h, d, n) = 0
  PROVE  Leaf(h, <<d, n>>) /\ (ShellTarget(h, d, n) \in DirsOf(h)
                                 => IsEmptyDirectory(h, ShellTarget(h, d, n)))
<1>. DEFINE i == ShellTarget(h, d, n)
<1>1. i \in h.imap /\ \E e : e.name = n /\ Listed(h, d, e, i)
  BY TargetIsLive
<1>2. i \in DirsOf(h) => IsEmptyDirectory(h, i)
  <2>. SUFFICES ASSUME i \in DirsOf(h)
                PROVE  IsEmptyDirectory(h, i)
    OBVIOUS
  <2>1. delete_directory_code(h, d, n) = 0
    BY DEF rm_code, DirsOf
  <2>. QED
    BY <2>1 DEF delete_directory_code, ShellTarget
<1>3. ASSUME NEW e, NEW m, Listed(h, i, e, m)
      PROVE  FALSE
  <2>1. i \in DirsOf(h) /\ e \in ChildrenOf(h, i)
    BY <1>3 DEF Listed
  <2>2. h.node[i].blocks > 0 /\ DirBlock(h, i) # NoBlock
    <3>1. DirShaped(h, i)
      BY <2>1, DirFacts
    <3>2. h.node[i].blocks = 1 /\ DirBlock(h, i) \in Blocks
      BY <3>1, DirShapeFacts
    <3>. QED
      BY <3>2, BlockKinds
  <2>3. \A j \in DOMAIN EntriesOf(h, i) : EntriesOf(h, i)[j].name \in {Dot, DotDot}
    BY <1>2, <2>1, <2>2 DEF IsEmptyDirectory
  <2>. QED
    BY <2>1, <2>3 DEF ChildrenOf
<1>4. <<d, n>>[1] = d /\ <<d, n>>[2] = n
  OBVIOUS
<1>. QED
  BY <1>1, <1>2, <1>3, <1>4 DEF Leaf

\* What the names T lead to, and the blocks of it that a removal gives back.
TargetsOf(h, T) == {ShellTarget(h, t[1], t[2]) : t \in T}
GivenBack(h, T) == UNION {Released(h, i) : i \in TargetsOf(h, T)}

LEMMA GivenBackHas ==
  \A h, T, b : b \in GivenBack(h, T) <=> \E j \in TargetsOf(h, T) : b \in Released(h, j)
BY DEF GivenBack

\* The disk fs says what h says, and marks what h marks, but for what the removals
\* of the names T may have given back.
Kept(fs, h, T) ==
  /\ DiskOK(h) /\ fs \in Image /\ SameContent(fs, h)
  /\ h.imap \ TargetsOf(h, T) \subseteq fs.imap
  /\ h.bmap \ GivenBack(h, T) \subseteq fs.bmap
  /\ \A t \in T : Leaf(h, t)

LEMMA KeptFacts ==
  ASSUME NEW fs, NEW h, NEW T, Kept(fs, h, T)
  PROVE  /\ DiskOK(h) /\ h \in Image /\ fs \in Image /\ SameContent(fs, h)
         /\ \A i : Released(fs, i) = Released(h, i) /\ BlocksOf(fs, i) = BlocksOf(h, i)
         /\ \A t \in T : /\ Has(EntriesOf(fs, t[1]), t[2]) /\ rm_code(fs, t[1], t[2]) = 0
                         /\ ShellTarget(fs, t[1], t[2]) = ShellTarget(h, t[1], t[2])
<1>1. DiskOK(h) /\ h \in Image /\ fs \in Image /\ SameContent(fs, h)
  BY DEF Kept, DiskOK
<1>2. \A i : Released(fs, i) = Released(h, i) /\ BlocksOf(fs, i) = BlocksOf(h, i)
  BY <1>1 DEF SameContent, Released, BlocksOf, DataBlocks, get_physical_block_from_logical
<1>3. ASSUME NEW t \in T
      PROVE  /\ Has(EntriesOf(fs, t[1]), t[2]) /\ rm_code(fs, t[1], t[2]) = 0
             /\ ShellTarget(fs, t[1], t[2]) = ShellTarget(h, t[1], t[2])
  <2>1. Has(EntriesOf(h, t[1]), t[2]) /\ rm_code(h, t[1], t[2]) = 0
    BY <1>1, LeafFacts DEF Kept
  <2>2. /\ EntriesOf(fs, t[1]) = EntriesOf(h, t[1])
        /\ ShellTarget(fs, t[1], t[2]) = ShellTarget(h, t[1], t[2])
    BY <1>1, ContentFacts
  <2>3. \A i : IsDirectory(fs, i) <=> IsDirectory(h, i)
    BY <1>1, ContentFacts
  <2>4. /\ delete_directory_code(fs, t[1], t[2]) = delete_directory_code(h, t[1], t[2])
        /\ delete_file_code(fs, t[1], t[2]) = delete_file_code(h, t[1], t[2])
    BY <1>1, SameDecisions
  <2>. QED
    BY <2>1, <2>2, <2>3, <2>4 DEF rm_code
<1>. QED
  BY <1>1, <1>2, <1>3

LEMMA DeletedFields ==
  ASSUME NEW fs \in Image, NEW d, NEW n
  PROVE  LET i  == ShellTarget(fs, d, n)
             gs == EntryDeleted(fs, d, n)
         IN  /\ gs.imap = fs.imap \ {i} /\ gs.bmap = fs.bmap \ Released(fs, i)
             /\ gs.node = fs.node
BY DEF EntryDeleted, Image, ShellTarget

\* Removing a name from the disk and from the image it stands for; when it was the
\* name of a removal that was cut short, that removal is finished.
LEMMA RemovedKept ==
  ASSUME NEW fs, NEW h, NEW T, Kept(fs, h, T), NEW d \in DirsOf(h), NEW n \in UserNames,
         Has(EntriesOf(h, d), n),
         ShellTarget(h, d, n) \in DirsOf(h) => IsEmptyDirectory(h, ShellTarget(h, d, n)),
         EntryDeleted(fs, d, n) \in Image
  PROVE  LET gs == EntryDeleted(fs, d, n)
         IN  Kept(gs, EntryDeleted(h, d, n), {t \in T : Has(EntriesOf(gs, t[1]), t[2])})
<1>. DEFINE i  == ShellTarget(h, d, n)
            g  == EntryDeleted(h, d, n)
            gs == EntryDeleted(fs, d, n)
            U  == {t \in T : Has(EntriesOf(gs, t[1]), t[2])}
            At(t) == ShellTarget(h, t[1], t[2])
<1>1. DiskOK(h) /\ h \in Image /\ fs \in Image /\ SameContent(fs, h)
  BY KeptFacts
<1>2. /\ DiskOK(g)
      /\ DirsOf(g) = DirsOf(h) \ {i} /\ i # d
      /\ \A c, x, m : Listed(g, c, x, m) <=> Listed(h, c, x, m) /\ m # i
  BY <1>1, RemoveOK
<1>3. /\ g.imap = h.imap \ {i} /\ g.bmap = h.bmap \ Released(h, i) /\ g.node = h.node
  BY <1>1, DeletedFields
<1>4. gs.imap = fs.imap \ {i} /\ gs.bmap = fs.bmap \ Released(h, i)
  <2>1. ShellTarget(fs, d, n) = i /\ Released(fs, i) = Released(h, i)
    BY <1>1, ContentFacts, KeptFacts
  <2>. QED
    BY <1>1, <2>1, DeletedFields
<1>5. SameContent(gs, g)
  BY <1>1, SameDeletion
<1>6. \A c : EntriesOf(gs, c) = EntriesOf(g, c)
  BY <1>5, ContentFacts
<1>7. i \in h.imap /\ \E e : e.name = n /\ Listed(h, d, e, i)
  BY <1>1, TargetIsLive
<1>. HIDE DEF i, g, gs
\* The other names lead where they led.
<1>8. ASSUME NEW t \in T, At(t) # i
      PROVE  t \in U /\ Leaf(g, t) /\ ShellTarget(g, t[1], t[2]) = At(t)
  <2>1. Leaf(h, t)
    BY DEF Kept
  <2>2. PICK e : e.name = t[2] /\ Listed(h, t[1], e, At(t))
    BY <2>1 DEF Leaf
  <2>3. Listed(g, t[1], e, At(t))
    BY <1>2, <1>8, <2>2
  <2>4. Has(EntriesOf(g, t[1]), t[2]) /\ ShellTarget(g, t[1], t[2]) = At(t)
    BY <1>2, <2>2, <2>3, ListedTarget
  <2>5. \A f, m : ~ Listed(g, At(t), f, m)
    BY <1>2, <2>1 DEF Leaf
  <2>6. t[2] \in UserNames
    BY <2>1 DEF Leaf
  <2>. HIDE DEF At
  <2>7. Leaf(g, t)
    BY <2>2, <2>3, <2>4, <2>5, <2>6 DEF Leaf
  <2>. QED
    BY <1>6, <2>4, <2>7
<1>9. ASSUME NEW t \in U, At(t) = i
      PROVE  FALSE
  <2>1. Leaf(h, t) /\ t \in T
    BY DEF Kept
  <2>2. PICK e : e.name = t[2] /\ Listed(h, t[1], e, i)
    BY <1>9, <2>1 DEF Leaf
  <2>3. PICK f : f.name = n /\ Listed(h, d, f, i)
    BY <1>7
  <2>4. t[1] = d /\ t[2] = n
    BY <1>1, <2>2, <2>3, ListedOnce
  <2>5. Has(EntriesOf(g, d), n) /\ d \in DirsOf(g)
    BY <1>2, <1>6, <2>4
  <2>6. PICK x : x.name = n /\ Listed(g, d, x, ShellTarget(g, d, n))
    BY <1>2, <2>5, TargetIsLive
  <2>7. Listed(h, d, x, ShellTarget(g, d, n)) /\ ShellTarget(g, d, n) # i
    BY <1>2, <2>6
  <2>8. ShellTarget(h, d, n) = ShellTarget(g, d, n)
    BY <1>1, <2>6, <2>7, ListedTarget
  <2>. QED
    BY <2>7, <2>8 DEF i
<1>10. \A t \in U : t \in T /\ At(t) # i /\ Leaf(g, t) /\ ShellTarget(g, t[1], t[2]) = At(t)
  BY <1>8, <1>9
<1>11. \A t \in T : At(t) # i => t \in U
  BY <1>8
<1>. HIDE DEF U
<1>12. TargetsOf(g, U) = TargetsOf(h, T) \ {i}
  BY <1>10, <1>11 DEF TargetsOf
<1>13. \A j : Released(g, j) = Released(h, j)
  BY <1>3 DEF Released
<1>14. g.imap \ TargetsOf(g, U) \subseteq gs.imap
  BY <1>3, <1>4, <1>12 DEF Kept
<1>15. g.bmap \ GivenBack(g, U) \subseteq gs.bmap
  <2>1. GivenBack(h, T) \subseteq GivenBack(g, U) \cup Released(h, i)
    BY <1>12, <1>13 DEF GivenBack
  <2>. QED
    BY <1>3, <1>4, <2>1 DEF Kept
<1>16. gs \in Image
  BY DEF gs
<1>17. Kept(gs, g, U)
  BY <1>2, <1>5, <1>10, <1>14, <1>15, <1>16 DEF Kept
<1>. QED
  BY <1>17 DEF gs, g, U

-----------------------------------------------------------------------------
(* Lost room. *)

\* The bits that the disk fs has too many, after c power losses.
Lost(fs, h, c) ==
  /\ c \in Nat
  /\ Cardinality(fs.imap \ h.imap) <= c
  /\ Cardinality(fs.bmap \ h.bmap) <= DIRECT * c

\* Every block that the image marks is a block of some inode; no file of it is
\* longer than its direct blocks.
Tight(h) ==
  /\ \A i \in h.imap : h.node[i].ind = NoBlock
  /\ h.bmap \subseteq UNION {BlocksOf(h, i) : i \in h.imap}

LEMMA BitsFinite ==
  ASSUME NEW fs \in Image
  PROVE  \A S : S \subseteq fs.imap \/ S \subseteq fs.bmap
                  => IsFiniteSet(S) /\ Cardinality(S) \in Nat
BY ImageFields, BlockKinds, FS_Subset, FS_CardinalityType

LEMMA LostLess ==
  ASSUME NEW fs \in Image, NEW h, NEW c, Lost(fs, h, c), NEW gs, NEW g,
         gs.imap \ g.imap \subseteq fs.imap \ h.imap,
         gs.bmap \ g.bmap \subseteq fs.bmap \ h.bmap
  PROVE  Lost(gs, g, c) /\ Lost(gs, g, c + 1)
<1>1. /\ IsFiniteSet(fs.imap \ h.imap) /\ IsFiniteSet(fs.bmap \ h.bmap)
      /\ Cardinality(fs.imap \ h.imap) \in Nat /\ Cardinality(fs.bmap \ h.bmap) \in Nat
  BY BitsFinite
<1>2. /\ Cardinality(gs.imap \ g.imap) <= Cardinality(fs.imap \ h.imap)
      /\ Cardinality(gs.bmap \ g.bmap) <= Cardinality(fs.bmap \ h.bmap)
      /\ IsFiniteSet(gs.imap \ g.imap) /\ IsFiniteSet(gs.bmap \ g.bmap)
  BY <1>1, FS_Subset
<1>3. Cardinality(gs.imap \ g.imap) \in Nat /\ Cardinality(gs.bmap \ g.bmap) \in Nat
  BY <1>2, FS_CardinalityType
<1>4. c \in Nat /\ DIRECT * c \in Nat /\ DIRECT * (c + 1) = DIRECT * c + DIRECT
  BY DEF Lost
<1>. QED
  BY <1>1, <1>2, <1>3, <1>4 DEF Lost

\* One inode more, and the blocks of one file.
LEMMA LostMore ==
  ASSUME NEW fs \in Image, NEW h, NEW c, Lost(fs, h, c), NEW gs, NEW g,
         NEW i, NEW B, IsFiniteSet(B), Cardinality(B) <= DIRECT,
         gs.imap \ g.imap \subseteq (fs.imap \ h.imap) \cup {i},
         gs.bmap \ g.bmap \subseteq (fs.bmap \ h.bmap) \cup B
  PROVE  Lost(gs, g, c + 1)
<1>. DEFINE X == fs.imap \ h.imap
            Y == fs.bmap \ h.bmap
<1>1. IsFiniteSet(X) /\ IsFiniteSet(Y) /\ Cardinality(X) \in Nat /\ Cardinality(Y) \in Nat
  BY BitsFinite
<1>2. X \cup {i} = X \cup {i} /\ IsFiniteSet({i}) /\ Cardinality({i}) = 1
  BY FS_Singleton
<1>. HIDE DEF X, Y
<1>3. /\ IsFiniteSet(X \cup {i}) /\ Cardinality(X \cup {i}) <= Cardinality(X) + 1
      /\ IsFiniteSet(Y \cup B) /\ Cardinality(Y \cup B) <= Cardinality(Y) + Cardinality(B)
  <2>1. /\ IsFiniteSet(X \cup {i}) /\ IsFiniteSet(X \cap {i})
        /\ Cardinality(X \cup {i}) = Cardinality(X) + Cardinality({i}) - Cardinality(X \cap {i})
    BY <1>1, <1>2, FS_Union, FS_Intersection
  <2>2. /\ IsFiniteSet(Y \cup B) /\ IsFiniteSet(Y \cap B)
        /\ Cardinality(Y \cup B) = Cardinality(Y) + Cardinality(B) - Cardinality(Y \cap B)
    BY <1>1, FS_Union, FS_Intersection
  <2>3. /\ Cardinality(X \cap {i}) \in Nat /\ Cardinality(Y \cap B) \in Nat
        /\ Cardinality(B) \in Nat
    BY <2>1, <2>2, FS_CardinalityType
  <2>. QED
    BY <1>1, <1>2, <2>1, <2>2, <2>3
<1>4. /\ gs.imap \ g.imap \subseteq X \cup {i} /\ gs.bmap \ g.bmap \subseteq Y \cup B
      /\ Cardinality(X) <= c /\ Cardinality(Y) <= DIRECT * c /\ c \in Nat
  BY DEF Lost, X, Y
<1>5. /\ Cardinality(gs.imap \ g.imap) <= Cardinality(X \cup {i})
      /\ Cardinality(gs.bmap \ g.bmap) <= Cardinality(Y \cup B)
      /\ IsFiniteSet(gs.imap \ g.imap) /\ IsFiniteSet(gs.bmap \ g.bmap)
  BY <1>3, <1>4, FS_Subset
<1>6. /\ Cardinality(gs.imap \ g.imap) \in Nat /\ Cardinality(gs.bmap \ g.bmap) \in Nat
      /\ Cardinality(X \cup {i}) \in Nat /\ Cardinality(Y \cup B) \in Nat
      /\ Cardinality(B) \in Nat
  BY <1>3, <1>5, FS_CardinalityType
<1>7. DIRECT * c \in Nat /\ DIRECT * (c + 1) = DIRECT * c + DIRECT
  BY <1>4
<1>8. Cardinality(gs.imap \ g.imap) <= c + 1
  BY <1>1, <1>3, <1>4, <1>5, <1>6
<1>9. Cardinality(gs.bmap \ g.bmap) <= DIRECT * (c + 1)
  BY <1>1, <1>3, <1>4, <1>5, <1>6, <1>7
<1>. QED
  BY <1>4, <1>8, <1>9 DEF Lost

\* A file without an indirect table is given back whole.
LEMMA ReleasedAll ==
  ASSUME NEW h, DiskOK(h), NEW i \in h.imap, h.node[i].ind = NoBlock
  PROVE  Released(h, i) = BlocksOf(h, i)
<1>. DEFINE nd == h.node[i]
<1>1. nd \in NodeType /\ nd.size \in Nat /\ nd.blocks = nd.size
  <2>1. DirShaped(h, i) \/ FileShaped(h, i)
    BY DEF DiskOK, Shapes
  <2>2. nd \in NodeType
    BY ImageFields DEF DiskOK
  <2>. QED
    BY <2>1, <2>2, NodeFields, DirShapeFacts DEF FileShaped
<1>2. BlocksOf(h, i) \subseteq Released(h, i)
  <2>. SUFFICES ASSUME NEW b \in BlocksOf(h, i)
                PROVE  b \in Released(h, i)
    OBVIOUS
  <2>1. b \in DataBlocks(h, nd) /\ b # NoBlock
    BY DEF BlocksOf, DataBlocks
  <2>2. PICK k \in 0 .. nd.size - 1 : b = get_physical_block_from_logical(h, nd, k)
    BY <2>1 DEF DataBlocks
  <2>3. k \in Direct /\ b = nd.ptr[k] /\ k < nd.blocks
    BY <1>1, <2>1, <2>2 DEF get_physical_block_from_logical, Direct
  <2>. QED
    BY <2>1, <2>3 DEF Released
<1>. QED
  BY <1>2, ReleasedAreOwn

LEMMA TightAfterRemoval ==
  ASSUME NEW h, DiskOK(h), Tight(h), NEW g, NEW i \in h.imap,
         g.imap = h.imap \ {i}, g.bmap = h.bmap \ Released(h, i), g.node = h.node
  PROVE  Tight(g)
<1>1. \A j \in g.imap : BlocksOf(g, j) = BlocksOf(h, j)
  <2>. SUFFICES ASSUME NEW j \in g.imap
                PROVE  BlocksOf(g, j) = BlocksOf(h, j)
    OBVIOUS
  <2>1. g.node[j] = h.node[j] /\ h.node[j].ind = NoBlock
    BY DEF Tight
  <2>. QED
    BY <2>1, SameBlocks
<1>2. Released(h, i) = BlocksOf(h, i)
  BY ReleasedAll DEF Tight
<1>3. g.bmap \subseteq UNION {BlocksOf(g, j) : j \in g.imap}
  <2>. SUFFICES ASSUME NEW b \in g.bmap
                PROVE  \E j \in g.imap : b \in BlocksOf(g, j)
    OBVIOUS
  <2>1. PICK j \in h.imap : b \in BlocksOf(h, j)
    BY DEF Tight
  <2>2. j # i
    BY <1>2, <2>1
  <2>. QED
    BY <1>1, <2>1, <2>2
<1>. QED
  BY <1>3 DEF Tight

LEMMA TightGrown ==
  ASSUME NEW h, Tight(h), NEW g, g.imap = h.imap \/ \E i : g.imap = h.imap \cup {i} /\
           g.node[i].ind = NoBlock /\ g.bmap \ h.bmap \subseteq BlocksOf(g, i),
         g.imap = h.imap => g.bmap \subseteq h.bmap,
         \A j \in h.imap : g.node[j] = h.node[j]
  PROVE  Tight(g)
<1>1. \A j \in h.imap : BlocksOf(g, j) = BlocksOf(h, j)
  <2>. SUFFICES ASSUME NEW j \in h.imap
                PROVE  BlocksOf(g, j) = BlocksOf(h, j)
    OBVIOUS
  <2>1. g.node[j] = h.node[j] /\ h.node[j].ind = NoBlock
    BY DEF Tight
  <2>. QED
    BY <2>1, SameBlocks
<1>2. \A b \in h.bmap : \E j \in h.imap : b \in BlocksOf(h, j)
  BY DEF Tight
<1>3. CASE g.imap = h.imap
  BY <1>1, <1>2, <1>3 DEF Tight
<1>4. ASSUME NEW i, g.imap = h.imap \cup {i}, g.node[i].ind = NoBlock,
             g.bmap \ h.bmap \subseteq BlocksOf(g, i)
      PROVE  Tight(g)
  <2>1. \A b \in g.bmap : \E j \in g.imap : b \in BlocksOf(g, j)
    BY <1>1, <1>2, <1>4
  <2>2. \A j \in g.imap : g.node[j].ind = NoBlock
    BY <1>4 DEF Tight
  <2>. QED
    BY <2>1, <2>2 DEF Tight
<1>. QED
  BY <1>3, <1>4

\* What the two calls that make something mark.
LEMMA MkdirMarks ==
  ASSUME NEW fs \in Image, NEW d \in Inodes, NEW n, NEW gs, gs = create_directory(fs, d, n),
         gs.imap \subseteq 1 .. StoredInodes \/ StoredInodes = INODES_PER_GROUP
  PROVE  IF create_directory_code(fs, d, n) = 0
         THEN \E i, b : /\ i \in FreeInodes(fs) /\ b \in FreeBlocks(fs)
                        /\ gs.imap = fs.imap \cup {i} /\ gs.bmap = fs.bmap \cup {b}
                        /\ gs.node[i] = DirNode(b)
         ELSE gs.imap = fs.imap /\ gs.bmap = fs.bmap
<1>. DEFINE code == create_directory_code(fs, d, n)
            i    == allocate_node(fs)
            b    == NthFree(fs, 0)
            new  == DirectoryWritten(fs, d)
            es   == AddEntry(new.blk[DirBlock(fs, d)], n, i, "dir")
<1>1. code \in {0, -6} => FreeInodes(fs) # {} /\ FreeBlocks(fs) # {}
  BY DEF create_directory_code
<1>2. code \in {0, -6} =>
        /\ i \in FreeInodes(fs) /\ i \in Inodes /\ b \in FreeBlocks(fs)
        /\ new \in Image /\ new.imap = fs.imap \cup {i} /\ new.bmap = fs.bmap \cup {b}
        /\ i \in 1 .. StoredInodes => new.node[i] = DirNode(b)
  BY <1>1, WrittenFacts
<1>3. gs = CASE code = 0  -> [new EXCEPT !.blk[DirBlock(fs, d)] = es]
             [] code = -6 -> BitsAsIn(fs, new)
             [] OTHER     -> fs
  BY DEF create_directory
<1>. HIDE DEF code, new, es, i, b
<1>4. CASE code = 0
  <2>1. gs = [new EXCEPT !.blk[DirBlock(fs, d)] = es]
    BY <1>3, <1>4
  <2>2. gs.imap = new.imap /\ gs.bmap = new.bmap /\ gs.node = new.node
    BY <1>2, <1>4, <2>1 DEF Image
  <2>3. i \in 1 .. StoredInodes
    BY <1>2, <1>4, <2>2 DEF Inodes
  <2>. QED
    BY <1>2, <1>4, <2>2, <2>3 DEF code
<1>5. CASE code = -6
  <2>1. code # 0
    BY <1>5
  <2>2. gs = BitsAsIn(fs, new)
    BY <1>3, <1>5, <2>1, Zenon
  <2>. QED
    BY <1>2, <1>5, <2>1, <2>2, BitsFacts DEF code
<1>6. CASE code \notin {0, -6}
  <2>1. code # 0 /\ code # -6
    BY <1>6
  <2>2. gs = fs
    BY <1>3, <2>1, Zenon
  <2>. QED
    BY <2>1, <2>2 DEF code
<1>. QED
  BY <1>4, <1>5, <1>6

LEMMA CopyMarks ==
  ASSUME NEW fs \in Image, NEW d, EntriesOf(fs, d) \in Seq(EntryRec), NEW s, NEW t,
         NEW gs, gs = copy_file(fs, d, s, t),
         gs.imap \subseteq 1 .. StoredInodes \/ StoredInodes = INODES_PER_GROUP
  PROVE  IF copy_file_code(fs, d, s, t) = 0
         THEN LET nd == Source(fs, d, s)
              IN  /\ nd \in NodeType /\ PlacedBlocks(fs, nd) = CopiedBlocks(nd)
                  /\ \E i \in FreeInodes(fs) :
                       /\ gs.imap = fs.imap \cup {i}
                       /\ gs.bmap = fs.bmap \cup NewBlocks(fs, nd)
                       /\ gs.node[i] = CopyNode(fs, nd)
         ELSE gs.imap = fs.imap /\ gs.bmap = fs.bmap
<1>. DEFINE code == copy_file_code(fs, d, s, t)
            i    == allocate_node(fs)
            nd   == Source(fs, d, s)
            copied == DataCopied(fs, nd)
            synced == sync_node(copied, i, CopyNode(fs, nd))
            es   == AddEntry(synced.blk[DirBlock(fs, d)], t, i, "reg")
<1>1. code \in {0, -5, -8} =>
        /\ Has(EntriesOf(fs, d), s) /\ FreeInodes(fs) # {}
        /\ code # -5 => PlacedBlocks(fs, nd) = CopiedBlocks(nd)
  BY DEF copy_file_code, Source
<1>2. code \in {0, -5, -8} => nd \in NodeType /\ FreeInodes(fs) # {}
  BY <1>1, SourceType
<1>3. gs = CASE code = 0  -> [synced EXCEPT !.blk[DirBlock(fs, d)] = es]
             [] code = -5 -> BitsAsIn(fs, copied)
             [] code = -8 -> BitsAsIn(fs, synced)
             [] OTHER     -> fs
  BY DEF copy_file, Source
<1>. HIDE DEF nd
<1>4. code \in {0, -5, -8} =>
        /\ i \in FreeInodes(fs) /\ i \in Inodes
        /\ copied \in Image /\ copied.imap = fs.imap \cup {i}
        /\ copied.bmap = fs.bmap \cup NewBlocks(fs, nd)
  BY <1>2, DataCopiedFacts DEF NewBlocks
<1>. HIDE DEF code, i, copied
<1>5. code \in {0, -8} =>
        /\ CopyNode(fs, nd) \in NodeType
        /\ synced \in Image /\ synced.imap = copied.imap /\ synced.bmap = copied.bmap
        /\ i \in 1 .. StoredInodes => synced.node[i] = CopyNode(fs, nd)
  <2>. SUFFICES ASSUME code \in {0, -8}
                PROVE  /\ CopyNode(fs, nd) \in NodeType
                       /\ synced \in Image /\ synced.imap = copied.imap
                       /\ synced.bmap = copied.bmap
                       /\ i \in 1 .. StoredInodes => synced.node[i] = CopyNode(fs, nd)
    OBVIOUS
  <2>1. CopyNode(fs, nd) \in NodeType
    BY <1>1, <1>2, CopyNodeFacts
  <2>. QED
    BY <1>4, <2>1, SyncFacts
<1>. HIDE DEF synced, es
<1>6. CASE code = 0
  <2>1. gs = [synced EXCEPT !.blk[DirBlock(fs, d)] = es]
    BY <1>3, <1>6
  <2>2. gs.imap = synced.imap /\ gs.bmap = synced.bmap /\ gs.node = synced.node
    BY <1>5, <1>6, <2>1 DEF Image
  <2>3. i \in 1 .. StoredInodes
    BY <1>4, <1>5, <1>6, <2>2 DEF Inodes
  <2>4. /\ gs.imap = fs.imap \cup {i} /\ gs.bmap = fs.bmap \cup NewBlocks(fs, nd)
        /\ gs.node[i] = CopyNode(fs, nd) /\ i \in FreeInodes(fs)
    BY <1>4, <1>5, <1>6, <2>2, <2>3
  <2>5. nd \in NodeType /\ PlacedBlocks(fs, nd) = CopiedBlocks(nd)
    BY <1>1, <1>2, <1>6
  <2>. QED
    BY <1>6, <2>4, <2>5 DEF code, nd
<1>7. CASE code = -5
  <2>1. code # 0 /\ code # -8
    BY <1>7
  <2>2. gs = BitsAsIn(fs, copied)
    BY <1>3, <1>7, <2>1, Zenon
  <2>. QED
    BY <1>4, <1>7, <2>1, <2>2, BitsFacts DEF code
<1>8. CASE code = -8
  <2>1. code # 0 /\ code # -5
    BY <1>8
  <2>2. gs = BitsAsIn(fs, synced)
    BY <1>3, <1>8, <2>1, Zenon
  <2>. QED
    BY <1>5, <1>8, <2>1, <2>2, BitsFacts DEF code
<1>9. CASE code \notin {0, -5, -8}
  <2>1. code # 0 /\ code # -5 /\ code # -8
    BY <1>9
  <2>2. gs = fs
    BY <1>3, <2>1, Zenon
  <2>. QED
    BY <2>1, <2>2 DEF code
<1>. QED
  BY <1>6, <1>7, <1>8, <1>9

LEMMA MkdirTight ==
  ASSUME NEW fs, NEW h, Holds(fs, h), Tight(h), NEW d \in DirsOf(h), NEW n, NEW gs,
         gs = create_directory(fs, d, n), gs \in Image,
         fs.imap \subseteq gs.imap, fs.bmap \subseteq gs.bmap,
         gs.imap \subseteq 1 .. StoredInodes \/ StoredInodes = INODES_PER_GROUP,
         NEW g, g = Sound(h, fs, gs), \A j \in h.imap : g.node[j] = h.node[j]
  PROVE  Tight(g)
<1>1. fs \in Image /\ d \in Inodes
  BY HeldFacts, ImageFields DEF DirsOf
<1>2. /\ g.imap = h.imap \cup (gs.imap \ fs.imap) /\ g.bmap = h.bmap \cup (gs.bmap \ fs.bmap)
      /\ g.node = gs.node
  BY SoundFacts
<1>3. CASE create_directory_code(fs, d, n) = 0
  <2>1. PICK i, b : /\ i \in FreeInodes(fs) /\ b \in FreeBlocks(fs)
                    /\ gs.imap = fs.imap \cup {i} /\ gs.bmap = fs.bmap \cup {b}
                    /\ gs.node[i] = DirNode(b)
    BY <1>1, <1>3, MkdirMarks
  <2>2. g.imap = h.imap \cup {i} /\ g.bmap \ h.bmap \subseteq {b} /\ g.node[i] = DirNode(b)
    BY <1>2, <2>1 DEF FreeInodes
  <2>3. b \in Blocks /\ DirNode(b).ptr[0] = b /\ DirNode(b).ind = NoBlock
    BY <2>1, DirNodeFields DEF FreeBlocks
  <2>4. DirShaped(g, i) /\ DirBlock(g, i) = b
    BY <2>2, <2>3 DEF DirShaped, DirBlock
  <2>5. BlocksOf(g, i) = {b} /\ i \notin h.imap
    BY <2>1, <2>4, OneBlockOfDir, HeldFacts DEF FreeInodes
  <2>6. g.imap # h.imap
    BY <2>2, <2>5
  <2>7. \E j : /\ g.imap = h.imap \cup {j} /\ g.node[j].ind = NoBlock
               /\ g.bmap \ h.bmap \subseteq BlocksOf(g, j)
    BY <2>2, <2>3, <2>5
  <2>. QED
    BY <2>6, <2>7, TightGrown
<1>4. CASE create_directory_code(fs, d, n) # 0
  <2>1. gs.imap = fs.imap /\ gs.bmap = fs.bmap
    BY <1>1, <1>4, MkdirMarks
  <2>2. g.imap = h.imap /\ g.bmap \subseteq h.bmap
    BY <1>2, <2>1
  <2>. QED
    BY <2>2, TightGrown
<1>. QED
  BY <1>3, <1>4

LEMMA CopyTight ==
  ASSUME NEW fs, NEW h, Holds(fs, h), Tight(h), NEW d \in DirsOf(h), NEW s, NEW t, NEW gs,
         gs = copy_file(fs, d, s, t), gs \in Image,
         fs.imap \subseteq gs.imap, fs.bmap \subseteq gs.bmap,
         gs.imap \subseteq 1 .. StoredInodes \/ StoredInodes = INODES_PER_GROUP,
         NEW g, g = Sound(h, fs, gs), \A j \in h.imap : g.node[j] = h.node[j]
  PROVE  Tight(g)
<1>1. fs \in Image /\ EntriesOf(fs, d) \in Seq(EntryRec)
  <2>1. DiskOK(h) /\ fs \in Image /\ EntriesOf(fs, d) = EntriesOf(h, d)
    BY HeldFacts DEF Holds
  <2>. QED
    BY <2>1, DirFacts DEF TableOK
<1>2. /\ g.imap = h.imap \cup (gs.imap \ fs.imap) /\ g.bmap = h.bmap \cup (gs.bmap \ fs.bmap)
      /\ g.node = gs.node
  BY SoundFacts
<1>3. CASE copy_file_code(fs, d, s, t) = 0
  <2>. DEFINE nd == Source(fs, d, s)
  <2>1. nd \in NodeType /\ PlacedBlocks(fs, nd) = CopiedBlocks(nd)
    BY <1>1, <1>3, CopyMarks
  <2>2. PICK i \in FreeInodes(fs) : /\ gs.imap = fs.imap \cup {i}
                                    /\ gs.bmap = fs.bmap \cup NewBlocks(fs, nd)
                                    /\ gs.node[i] = CopyNode(fs, nd)
    BY <1>1, <1>3, CopyMarks
  <2>. HIDE DEF nd
  <2>3. /\ g.imap = h.imap \cup {i} /\ g.bmap \ h.bmap \subseteq NewBlocks(fs, nd)
        /\ g.node[i] = CopyNode(fs, nd) /\ i \notin h.imap
    BY <1>2, <2>2, HeldFacts DEF FreeInodes
  <2>4. /\ CopyNode(fs, nd).size = nd.size /\ CopyNode(fs, nd).ind = NoBlock
        /\ \A k \in Direct : CopyNode(fs, nd).ptr[k]
                               = IF k \in CopiedBlocks(nd) THEN CopyTarget(fs, nd, k) ELSE NoBlock
    BY <2>1, CopyNodeFacts
  <2>5. NewBlocks(fs, nd) \subseteq BlocksOf(g, i)
    <3>. SUFFICES ASSUME NEW k \in PlacedBlocks(fs, nd)
                  PROVE  CopyTarget(fs, nd, k) \in BlocksOf(g, i)
      BY DEF NewBlocks
    <3>1. k \in CopiedBlocks(nd) /\ k \in Direct /\ k < nd.size /\ nd.size \in Nat
      BY <2>1, NodeFields DEF CopiedBlocks
    <3>2. k \in 0 .. nd.size - 1 /\ k < DIRECT
      BY <3>1 DEF Direct
    <3>3. CopyTarget(fs, nd, k) # NoBlock
      BY <2>1, TargetFacts, BlockKinds DEF FreeBlocks
    <3>4. get_physical_block_from_logical(g, g.node[i], k) = CopyTarget(fs, nd, k)
      BY <2>3, <2>4, <3>1, <3>2 DEF get_physical_block_from_logical
    <3>5. CopyTarget(fs, nd, k) \in DataBlocks(g, g.node[i])
      BY <2>3, <2>4, <3>2, <3>3, <3>4 DEF DataBlocks
    <3>. QED
      BY <3>5 DEF BlocksOf
  <2>6. \E j : /\ g.imap = h.imap \cup {j} /\ g.node[j].ind = NoBlock
               /\ g.bmap \ h.bmap \subseteq BlocksOf(g, j)
    BY <2>3, <2>4, <2>5
  <2>7. g.imap # h.imap
    BY <2>3
  <2>. QED
    BY <2>6, <2>7, TightGrown
<1>4. CASE copy_file_code(fs, d, s, t) # 0
  <2>1. gs.imap = fs.imap /\ gs.bmap = fs.bmap
    BY <1>1, <1>4, CopyMarks
  <2>2. g.imap = h.imap /\ g.bmap \subseteq h.bmap
    BY <1>2, <2>1
  <2>. QED
    BY <2>2, TightGrown
<1>. QED
  BY <1>3, <1>4

\* The image of the inserter marks what its two inodes use.
LEMMA InitTight ==
  ASSUME ShellSize <= DIRECT
  PROVE  Tight(write(create_ext2, ShellName, ShellSize))
<1>. DEFINE fs   == create_ext2
            i    == allocate_node(fs)
            tab  == TableBlock(fs, ShellSize)
            data == {DataBlock(fs, k) : k \in 0 .. ShellSize - 1}
            gs   == write(fs, ShellName, ShellSize)
            nd   == gs.node[i]
<1>1. /\ i # Root /\ gs.imap = {Root, i}
      /\ gs.bmap = {FirstBlock} \cup data \cup ({tab} \ {NoBlock})
      /\ gs.node[Root] = DirNode(FirstBlock)
      /\ nd = [mode |-> "reg", size |-> ShellSize, blocks |-> ShellSize, ind |-> tab,
               ptr |-> [k \in Direct |-> IF k < ShellSize THEN DataBlock(fs, k)
                                         ELSE NoBlock]]
  BY ImageWritten
<1>2. tab = NoBlock /\ \A k \in 0 .. ShellSize - 1 : DataBlock(fs, k) \in Blocks
  <2>1. ~ (ShellSize > DIRECT)
    OBVIOUS
  <2>. QED
    BY <2>1, ShellBlocks DEF FreeBlocks
<1>. HIDE DEF i, gs, tab
<1>3. /\ nd.size = ShellSize /\ nd.ind = NoBlock
      /\ \A k \in 0 .. ShellSize - 1 : nd.ptr[k] = DataBlock(fs, k) /\ k < DIRECT
  BY <1>1, <1>2 DEF Direct
<1>4. data \subseteq BlocksOf(gs, i)
  <2>. SUFFICES ASSUME NEW k \in 0 .. ShellSize - 1
                PROVE  DataBlock(fs, k) \in BlocksOf(gs, i)
    OBVIOUS
  <2>1. get_physical_block_from_logical(gs, nd, k) = DataBlock(fs, k)
    BY <1>3 DEF get_physical_block_from_logical
  <2>2. DataBlock(fs, k) \in DataBlocks(gs, nd)
    BY <1>2, <1>3, <2>1, BlockKinds DEF DataBlocks
  <2>. QED
    BY <2>2 DEF BlocksOf
<1>5. BlocksOf(gs, Root) = {FirstBlock} /\ gs.node[Root].ind = NoBlock
  <2>1. FirstBlock \in Blocks /\ DirNode(FirstBlock).ptr[0] = FirstBlock
        /\ DirNode(FirstBlock).ind = NoBlock
    BY FirstBlockFacts, DirNodeFields
  <2>2. DirShaped(gs, Root) /\ DirBlock(gs, Root) = FirstBlock
    BY <1>1, <2>1 DEF DirShaped, DirBlock
  <2>. QED
    BY <1>1, <2>1, <2>2, OneBlockOfDir
<1>6. gs.bmap \subseteq UNION {BlocksOf(gs, j) : j \in gs.imap}
  <2>. HIDE DEF data
  <2>. QED
    BY <1>1, <1>2, <1>4, <1>5
<1>7. \A j \in gs.imap : gs.node[j].ind = NoBlock
  BY <1>1, <1>3, <1>5
<1>. QED
  BY <1>6, <1>7 DEF Tight, gs

-----------------------------------------------------------------------------
(* The steps. *)

\* The disk fs stands for the image h after c power losses, T being the names whose
\* removal was cut short.
Stands(fs, h, T, c) ==
  /\ Kept(fs, h, T)
  /\ Lost(fs, h, c)
  /\ ShellSize <= DIRECT => Tight(h)

LEMMA KeptIsHeld ==
  ASSUME NEW fs, NEW h
  PROVE  Kept(fs, h, {}) <=> Holds(fs, h)
<1>1. TargetsOf(h, {}) = {} /\ GivenBack(h, {}) = {}
  BY DEF TargetsOf, GivenBack
<1>. QED
  BY <1>1 DEF Kept, Holds, SameContent

\* A creation that was not cut short.
LEMMA MadeStands ==
  ASSUME NEW fs, NEW h, NEW c, Stands(fs, h, {}, c), NEW gs \in Image,
         fs.imap \subseteq gs.imap, fs.bmap \subseteq gs.bmap,
         NEW g, g = Sound(h, fs, gs), DiskOK(g), Tight(h) => Tight(g)
  PROVE  Stands(gs, g, {}, c) /\ SameContent(gs, g)
<1>1. Holds(fs, h) /\ Lost(fs, h, c) /\ fs \in Image
  BY KeptIsHeld DEF Stands, Holds
<1>2. /\ Holds(gs, g) /\ g.node = gs.node /\ g.blk = gs.blk
      /\ gs.imap \ g.imap = fs.imap \ h.imap /\ gs.bmap \ g.bmap = fs.bmap \ h.bmap
  BY <1>1, SoundFacts
<1>3. Lost(gs, g, c)
  BY <1>1, <1>2, LostLess
<1>. QED
  BY <1>2, <1>3, KeptIsHeld DEF Stands, SameContent

\* A creation that was cut short: the tree is as it was, and what was taken for the
\* new inode may be lost.
LEMMA StrayedStands ==
  ASSUME NEW fs, NEW h, NEW c, Stands(fs, h, {}, c), NEW gs, Strayed(fs, gs)
  PROVE  \E g : Stands(gs, g, {}, c + 1) /\ SameContent(gs, g) /\ SameTree(h, g)
<1>1. Holds(fs, h) /\ Lost(fs, h, c) /\ fs \in Image /\ DiskOK(h) /\ h \in Image
  BY KeptIsHeld, HeldFacts DEF Stands, Holds
<1>2. PICK i \in FreeInodes(fs), B \in SUBSET FreeBlocks(fs) :
        Cardinality(B) <= DIRECT /\ Near(fs, gs, {i}, B, {i}, B)
  BY DEF Strayed
<1>. DEFINE g == [imap |-> h.imap, bmap |-> h.bmap, node |-> gs.node, blk |-> gs.blk]
<1>3. /\ gs \in Image /\ g \in Image
      /\ g.imap = h.imap /\ g.bmap = h.bmap /\ g.node = gs.node /\ g.blk = gs.blk
  <2>1. gs \in Image
    BY <1>2 DEF Near
  <2>2. /\ h.imap \in SUBSET Inodes /\ h.bmap \in SUBSET Blocks
        /\ gs.node \in [Inodes -> NodeType] /\ gs.blk \in [Blocks -> Content]
    BY <1>1, <2>1, ImageFields
  <2>. QED
    BY <2>1, <2>2 DEF Image
<1>. HIDE DEF g
<1>4. /\ h.imap \subseteq fs.imap /\ h.bmap \subseteq fs.bmap
      /\ h.imap \subseteq Inodes /\ h.bmap \subseteq Blocks
      /\ fs.node = h.node /\ fs.blk = h.blk
  BY <1>1, ImageFields DEF Holds
<1>5. i \notin fs.imap /\ \A b \in B : b \notin fs.bmap
  BY DEF FreeInodes, FreeBlocks
<1>6. /\ \A j \in h.imap : g.node[j] = h.node[j]
      /\ \A b \in h.bmap : g.blk[b] = h.blk[b]
  <2>1. \A j \in h.imap : j \in Inodes \ {i}
    BY <1>4, <1>5
  <2>2. \A b \in h.bmap : b \in Blocks \ B
    BY <1>4, <1>5
  <2>3. /\ \A j \in Inodes \ {i} : gs.node[j] = fs.node[j]
        /\ \A b \in Blocks \ B : gs.blk[b] = fs.blk[b]
    BY <1>2 DEF Near
  <2>. QED
    BY <1>3, <1>4, <2>1, <2>2, <2>3
<1>7. DiskOK(g)
  BY <1>1, <1>3, <1>6, CleanedUpOK
<1>8. SameTree(h, g)
  <2>1. Root \in DirsOf(h)
    BY <1>1 DEF DiskOK
  <2>2. Frame(h, g, Root, ShellName)
    BY <1>1, <1>6, <2>1, FrameUnchanged
  <2>. QED
    BY <1>1, <1>3, <1>7, <2>1, <2>2, TreeKept DEF SameTree
<1>9. h.imap \subseteq gs.imap /\ h.bmap \subseteq gs.bmap
  BY <1>2, <1>4, <1>5 DEF Near
<1>10. Holds(gs, g)
  BY <1>3, <1>7, <1>9 DEF Holds
<1>11. Lost(gs, g, c + 1)
  <2>1. /\ gs.imap \ g.imap \subseteq (fs.imap \ h.imap) \cup {i}
        /\ gs.bmap \ g.bmap \subseteq (fs.bmap \ h.bmap) \cup B
    BY <1>2, <1>3 DEF Near
  <2>2. IsFiniteSet(B)
    BY FreeBlocksFinite, FS_Subset
  <2>. QED
    BY <1>1, <1>2, <2>1, <2>2, LostMore
<1>12. Tight(h) => Tight(g)
  BY <1>3, <1>6, TightGrown
<1>13. Stands(gs, g, {}, c + 1)
  BY <1>10, <1>11, <1>12, KeptIsHeld DEF Stands
<1>. QED
  BY <1>3, <1>8, <1>13 DEF SameContent

\* A removal that was not cut short.
LEMMA RemovedStands ==
  ASSUME NEW fs, NEW h, NEW T, NEW c, Stands(fs, h, T, c),
         NEW d \in DirsOf(h), NEW n \in UserNames,
         ShellSees(fs, d, n), rm_code(fs, d, n) = 0
  PROVE  LET gs == EntryDeleted(fs, d, n)
         IN  Stands(gs, EntryDeleted(h, d, n), {t \in T : Has(EntriesOf(gs, t[1]), t[2])}, c)
<1>. DEFINE i  == ShellTarget(h, d, n)
            g  == EntryDeleted(h, d, n)
            gs == EntryDeleted(fs, d, n)
            U  == {t \in T : Has(EntriesOf(gs, t[1]), t[2])}
<1>1. Kept(fs, h, T) /\ DiskOK(h) /\ h \in Image /\ fs \in Image /\ SameContent(fs, h)
  BY KeptFacts DEF Stands
<1>2. Has(EntriesOf(h, d), n) /\ (i \in DirsOf(h) => IsEmptyDirectory(h, i))
  <2>1. /\ EntriesOf(fs, d) = EntriesOf(h, d) /\ ShellTarget(fs, d, n) = i
        /\ IsDirectory(fs, i) <=> IsDirectory(h, i)
    BY <1>1, ContentFacts
  <2>2. /\ delete_directory_code(fs, d, n) = delete_directory_code(h, d, n)
        /\ delete_file_code(fs, d, n) = delete_file_code(h, d, n)
    BY <1>1, SameDecisions
  <2>3. rm_code(h, d, n) = 0
    BY <2>1, <2>2 DEF rm_code
  <2>4. Has(EntriesOf(h, d), n)
    BY <2>1 DEF ShellSees
  <2>. QED
    BY <1>1, <2>3, <2>4, RemovableIsLeaf
<1>3. DiskOK(g) /\ i \in h.imap
  BY <1>1, <1>2, RemoveOK, TargetIsLive
<1>4. /\ g.imap = h.imap \ {i} /\ g.bmap = h.bmap \ Released(h, i) /\ g.node = h.node
  BY <1>1, DeletedFields
<1>5. gs.imap = fs.imap \ {i} /\ gs.bmap = fs.bmap \ Released(h, i)
  <2>1. ShellTarget(fs, d, n) = i /\ Released(fs, i) = Released(h, i)
    BY <1>1, ContentFacts, KeptFacts
  <2>. QED
    BY <1>1, <2>1, DeletedFields
<1>6. gs \in Image
  <2>1. gs.node = g.node /\ gs.blk = g.blk /\ g \in Image
    BY <1>1, <1>3, SameDeletion DEF SameContent, DiskOK
  <2>2. gs = [imap |-> gs.imap, bmap |-> gs.bmap, node |-> gs.node, blk |-> gs.blk]
    <3>. DEFINE j == EntriesOf(fs, d)[IndexOf(EntriesOf(fs, d), n)].inode
                x == fs.bmap \ Released(fs, j)
                y == fs.imap \ {j}
                z == [fs.blk EXCEPT ![DirBlock(fs, d)] = RemoveEntry(@, n)]
    <3>1. gs = [fs EXCEPT !.bmap = x, !.imap = y, !.blk = z]
      BY Zenon DEF EntryDeleted
    <3>. HIDE DEF gs, x, y, z
    <3>. QED
      BY <1>1, <3>1 DEF Image
  <2>. HIDE DEF gs, g
  <2>3. gs.imap \in SUBSET Inodes /\ gs.bmap \in SUBSET Blocks
        /\ gs.node \in [Inodes -> NodeType] /\ gs.blk \in [Blocks -> Content]
    BY <1>1, <1>5, <2>1, ImageFields
  <2>. QED
    BY <2>2, <2>3 DEF Image
<1>7. Kept(gs, g, U)
  BY <1>1, <1>2, <1>6, RemovedKept
<1>8. Lost(gs, g, c)
  <2>1. gs.imap \ g.imap \subseteq fs.imap \ h.imap /\ gs.bmap \ g.bmap \subseteq fs.bmap \ h.bmap
    BY <1>4, <1>5
  <2>2. Lost(fs, h, c)
    BY DEF Stands
  <2>. HIDE DEF gs, g
  <2>. QED
    BY <1>1, <2>1, <2>2, LostLess
<1>9. Tight(h) => Tight(g)
  BY <1>1, <1>3, <1>4, TightAfterRemoval
<1>. QED
  BY <1>7, <1>8, <1>9 DEF Stands

LEMMA SameNames ==
  ASSUME NEW fs, NEW h, SameContent(fs, h)
  PROVE  /\ \A d : EntriesOf(fs, d) = EntriesOf(h, d)
         /\ \A d, n : ShellTarget(fs, d, n) = ShellTarget(h, d, n)
         /\ \A i : IsDirectory(fs, i) <=> IsDirectory(h, i)
BY ContentFacts

\* A removal that was cut short.
LEMMA TornStands ==
  ASSUME NEW fs, NEW h, NEW T, NEW c, Stands(fs, h, T, c),
         NEW d \in DirsOf(h), NEW n \in UserNames, ShellSees(fs, d, n), rm_code(fs, d, n) = 0,
         NEW gs, Near(fs, gs, {ShellTarget(fs, d, n)}, Released(fs, ShellTarget(fs, d, n)), {}, {})
  PROVE  Stands(gs, h, T \cup {<<d, n>>}, c + 1) /\ SameContent(gs, h)
<1>. DEFINE i == ShellTarget(h, d, n)
            t == <<d, n>>
            U == T \cup {t}
<1>1. Kept(fs, h, T) /\ DiskOK(h) /\ h \in Image /\ fs \in Image /\ SameContent(fs, h)
  BY KeptFacts DEF Stands
<1>2. /\ EntriesOf(fs, d) = EntriesOf(h, d) /\ ShellTarget(fs, d, n) = i
      /\ IsDirectory(fs, i) <=> IsDirectory(h, i)
      /\ Released(fs, i) = Released(h, i)
  <2>0. SameContent(fs, h)
    BY <1>1
  <2>1. /\ EntriesOf(fs, d) = EntriesOf(h, d)
        /\ ShellTarget(fs, d, n) = ShellTarget(h, d, n)
    BY <2>0, SameNames
  <2>3. \A j : IsDirectory(fs, j) <=> IsDirectory(h, j)
    BY <2>0, SameNames
  <2>2. \A j : Released(fs, j) = Released(h, j)
    BY KeptFacts DEF Stands
  <2>. QED
    BY <2>1, <2>2, <2>3
<1>3. Has(EntriesOf(h, d), n) /\ rm_code(h, d, n) = 0
  <2>1. /\ delete_directory_code(fs, d, n) = delete_directory_code(h, d, n)
        /\ delete_file_code(fs, d, n) = delete_file_code(h, d, n)
    BY <1>1, SameDecisions
  <2>2. rm_code(fs, d, n) = rm_code(h, d, n)
    BY <1>2, <2>1, Zenon DEF rm_code
  <2>3. Has(EntriesOf(fs, d), n)
    BY DEF ShellSees
  <2>. QED
    BY <1>2, <2>2, <2>3
<1>4. Leaf(h, t) /\ i \in h.imap
  BY <1>1, <1>3, RemovableIsLeaf, TargetIsLive
<1>5. /\ gs \in Image /\ gs.imap \ {i} = fs.imap \ {i}
      /\ gs.bmap \ Released(h, i) = fs.bmap \ Released(h, i)
  <2>1. /\ gs \in Image
        /\ gs.imap \ {ShellTarget(fs, d, n)} = fs.imap \ {ShellTarget(fs, d, n)}
        /\ gs.bmap \ Released(fs, ShellTarget(fs, d, n))
             = fs.bmap \ Released(fs, ShellTarget(fs, d, n))
    BY Zenon DEF Near
  <2>2. ShellTarget(fs, d, n) = i /\ Released(fs, i) = Released(h, i)
    BY <1>2
  <2>. QED
    BY <2>1, <2>2, Zenon
<1>6. SameContent(gs, h)
  <2>1. /\ \A j \in Inodes : gs.node[j] = fs.node[j]
        /\ \A b \in Blocks : gs.blk[b] = fs.blk[b]
    BY DEF Near
  <2>2. /\ gs.node \in [Inodes -> NodeType] /\ gs.blk \in [Blocks -> Content]
        /\ fs.node \in [Inodes -> NodeType] /\ fs.blk \in [Blocks -> Content]
    BY <1>1, <1>5, ImageFields
  <2>3. gs.node = fs.node /\ gs.blk = fs.blk
    BY <2>1, <2>2
  <2>. QED
    BY <1>1, <2>3 DEF SameContent
<1>7. t[1] = d /\ t[2] = n
  OBVIOUS
<1>. HIDE DEF i
<1>8. TargetsOf(h, U) = TargetsOf(h, T) \cup {i}
  <2>1. /\ \A j : j \in TargetsOf(h, U) <=> \E u \in U : j = ShellTarget(h, u[1], u[2])
        /\ \A j : j \in TargetsOf(h, T) <=> \E u \in T : j = ShellTarget(h, u[1], u[2])
    BY DEF TargetsOf
  <2>2. \A u : u \in U <=> u \in T \/ u = t
    OBVIOUS
  <2>3. i = ShellTarget(h, t[1], t[2])
    BY <1>7 DEF i
  <2>. HIDE DEF t, U
  <2>. QED
    BY <2>1, <2>2, <2>3
<1>9. GivenBack(h, U) = GivenBack(h, T) \cup Released(h, i)
  <2>1. /\ \A b : b \in GivenBack(h, U) <=> \E j \in TargetsOf(h, U) : b \in Released(h, j)
        /\ \A b : b \in GivenBack(h, T) <=> \E j \in TargetsOf(h, T) : b \in Released(h, j)
    BY GivenBackHas
  <2>2. \A j : j \in TargetsOf(h, U) <=> j \in TargetsOf(h, T) \/ j = i
    BY <1>8
  <2>. HIDE DEF U
  <2>3. \A b : b \in GivenBack(h, U) <=> b \in GivenBack(h, T) \/ b \in Released(h, i)
    BY <2>1, <2>2
  <2>. QED
    BY <2>3
<1>. HIDE DEF t
<1>10. Kept(gs, h, U)
  <2>1. h.imap \ TargetsOf(h, U) \subseteq gs.imap
    BY <1>1, <1>5, <1>8 DEF Kept
  <2>2. h.bmap \ GivenBack(h, U) \subseteq gs.bmap
    BY <1>1, <1>5, <1>9 DEF Kept
  <2>3. \A x \in U : Leaf(h, x)
    BY <1>1, <1>4 DEF Kept
  <2>. HIDE DEF U
  <2>. QED
    BY <1>1, <1>5, <1>6, <2>1, <2>2, <2>3 DEF Kept
<1>11. Lost(gs, h, c + 1)
  <2>1. Released(h, i) \subseteq h.bmap
    BY <1>1, <1>4, ReleasedAreOwn DEF DiskOK, Owning
  <2>2. gs.imap \ h.imap \subseteq fs.imap \ h.imap /\ gs.bmap \ h.bmap \subseteq fs.bmap \ h.bmap
    BY <1>4, <1>5, <2>1
  <2>. QED
    BY <1>1, <2>2, LostLess DEF Stands
<1>. QED
  BY <1>6, <1>10, <1>11 DEF Stands, t

\* The inductive invariant: some sound image shows the shell's path, and the disk
\* stands for it.
PowerInv ==
  \E h : /\ Shows(disk, h, current_inode, current_working_directory)
         /\ Stands(disk, h, torn, cuts)

LEMMA InvNext ==
  \A h : Shows(disk', h, current_inode', current_working_directory')
           /\ Stands(disk', h, torn', cuts') => PowerInv'
BY DEF PowerInv

LEMMA TornKept ==
  ASSUME NEW h, Stands(disk, h, torn, cuts), disk' = disk,
         torn' = {t \in torn : Has(EntriesOf(disk', t[1]), t[2])}
  PROVE  torn' = torn
BY KeptFacts DEF Stands

LEMMA MoveKeeps ==
  ASSUME NEW h, Shows(disk, h, current_inode, current_working_directory),
         Stands(disk, h, torn, cuts), CdUp \/ \E n \in Names : Cd(n),
         torn' = {t \in torn : Has(EntriesOf(disk', t[1]), t[2])}, cuts' = cuts
  PROVE  PowerInv' /\ FT!Next
<1>1. disk' = disk
  BY DEF CdUp, Cd
<1>2. Shows(disk', h, current_inode', current_working_directory') /\ FT!Next
  BY CdStep, CdUpStep
<1>3. Stands(disk', h, torn', cuts')
  BY <1>1, TornKept
<1>. QED
  BY <1>2, <1>3, InvNext

LEMMA MkdirPower ==
  ASSUME NEW h, Shows(disk, h, current_inode, current_working_directory),
         Stands(disk, h, torn, cuts), AllStored' \/ StoredInodes = INODES_PER_GROUP,
         torn = {}, NEW n \in UserNames, Mkdir(n), torn' = {}, cuts' = cuts
  PROVE  PowerInv' /\ FT!Next
<1>. DEFINE g == Sound(h, disk, disk')
<1>1. /\ disk' = create_directory(disk, current_inode, n)
      /\ disk'.imap \subseteq 1 .. StoredInodes \/ StoredInodes = INODES_PER_GROUP
      /\ current_inode \in DirsOf(h) /\ Holds(disk, h)
  BY KeptIsHeld DEF Mkdir, AllStored, Shows, Stands
<1>2. /\ disk' \in Image /\ disk.imap \subseteq disk'.imap /\ disk.bmap \subseteq disk'.bmap
      /\ DiskOK(g) /\ DirsOf(h) \subseteq DirsOf(g) /\ Frame(h, g, current_inode, n)
      /\ IF create_directory_code(disk, current_inode, n) = 0
         THEN \E i : Grown(h, g, current_inode, n, i) /\ IsDirectory(g, i)
         ELSE g.imap = h.imap
  BY <1>1, MkdirOn
<1>3. \A j \in h.imap : g.node[j] = h.node[j]
  <2>1. h.imap \subseteq g.imap
    BY <1>1, <1>2, SoundFacts
  <2>. HIDE DEF g
  <2>. QED
    BY <1>2, <2>1 DEF Frame
<1>4. Tight(h) => Tight(g)
  BY <1>1, <1>2, <1>3, MkdirTight
<1>5. Stands(disk', g, {}, cuts) /\ SameContent(disk', g)
  BY <1>2, <1>4, MadeStands
<1>. HIDE DEF g
<1>6. Shows(disk', g, current_inode', current_working_directory') /\ FT!Next
  BY <1>2, <1>5, MkdirStep
<1>. QED
  BY <1>5, <1>6, InvNext

LEMMA CopyPower ==
  ASSUME NEW h, Shows(disk, h, current_inode, current_working_directory),
         Stands(disk, h, torn, cuts), AllStored' \/ StoredInodes = INODES_PER_GROUP,
         torn = {}, NEW s \in UserNames, NEW t \in UserNames, Cp(s, t) \/ MvCopy(s, t),
         torn' = {}, cuts' = cuts
  PROVE  PowerInv' /\ FT!Next
<1>. DEFINE g == Sound(h, disk, disk')
<1>1. /\ disk' = copy_file(disk, current_inode, s, t)
      /\ disk'.imap \subseteq 1 .. StoredInodes \/ StoredInodes = INODES_PER_GROUP
      /\ current_inode \in DirsOf(h) /\ Holds(disk, h)
  BY KeptIsHeld DEF Cp, MvCopy, AllStored, Shows, Stands
<1>2. /\ disk' \in Image /\ disk.imap \subseteq disk'.imap /\ disk.bmap \subseteq disk'.bmap
      /\ DiskOK(g) /\ DirsOf(h) \subseteq DirsOf(g) /\ Frame(h, g, current_inode, t)
      /\ IF copy_file_code(disk, current_inode, s, t) = 0
         THEN \E i : /\ Grown(h, g, current_inode, t, i)
                     /\ CopyOf(h, g, ShellTarget(h, current_inode, s), i)
         ELSE g.imap = h.imap
  BY <1>1, CopyOn
<1>3. \A j \in h.imap : g.node[j] = h.node[j]
  <2>1. h.imap \subseteq g.imap
    BY <1>1, <1>2, SoundFacts
  <2>. HIDE DEF g
  <2>. QED
    BY <1>2, <2>1 DEF Frame
<1>4. Tight(h) => Tight(g)
  BY <1>1, <1>2, <1>3, CopyTight
<1>5. Stands(disk', g, {}, cuts) /\ SameContent(disk', g)
  BY <1>2, <1>4, MadeStands
<1>. HIDE DEF g
<1>6. Shows(disk', g, current_inode', current_working_directory') /\ FT!Next
  BY <1>2, <1>5, CopyStep
<1>. QED
  BY <1>5, <1>6, InvNext

LEMMA RmPower ==
  ASSUME NEW h, Shows(disk, h, current_inode, current_working_directory),
         Stands(disk, h, torn, cuts), NEW n \in UserNames, RmCommand(n),
         torn' = {t \in torn : Has(EntriesOf(disk', t[1]), t[2])}, cuts' = cuts
  PROVE  PowerInv' /\ FT!Next
<1>. DEFINE g == IF disk' = disk THEN h ELSE EntryDeleted(h, current_inode, n)
<1>1. disk \in Image /\ current_inode \in DirsOf(h)
  BY DEF Stands, Kept, Shows
<1>2. Shows(disk', g, current_inode', current_working_directory') /\ FT!Next
  BY <1>1, RmStep
<1>3. CASE disk' = disk
  <2>1. Stands(disk', g, torn', cuts')
    BY <1>3, TornKept
  <2>. QED
    BY <1>2, <2>1, InvNext
<1>4. CASE disk' # disk
  <2>1. /\ ShellSees(disk, current_inode, n) /\ rm_code(disk, current_inode, n) = 0
        /\ disk' = EntryDeleted(disk, current_inode, n)
    BY <1>4 DEF RmCommand, Rm, RmNotFound, rm_code
  <2>2. Stands(disk', EntryDeleted(h, current_inode, n), torn', cuts')
    BY <1>1, <2>1, RemovedStands
  <2>3. Stands(disk', g, torn', cuts')
    BY <1>4, <2>2
  <2>. HIDE DEF g
  <2>. QED
    BY <1>2, <2>3, InvNext
<1>. QED
  BY <1>3, <1>4

\* The machine boots from an image that stands for g, with the same tree.
LEMMA RebootPower ==
  ASSUME NEW h, Shows(disk, h, current_inode, current_working_directory), Reboot,
         NEW g, Stands(disk', g, torn', cuts'), SameContent(disk', g), SameTree(h, g)
  PROVE  PowerInv' /\ FT!Next
<1>1. DiskOK(g)
  BY DEF Stands, Kept
<1>2. current_inode' = Root /\ current_working_directory' = <<>> /\ buf' = NotRead
  BY DEF Reboot
<1>3. Shows(disk', g, current_inode', current_working_directory') /\ FT!Next
  BY <1>1, <1>2, RootStep
<1>. QED
  BY <1>3, InvNext

LEMMA CompletePower ==
  ASSUME PowerInv, AllStored' \/ StoredInodes = INODES_PER_GROUP, Complete
  PROVE  PowerInv' /\ FT!Next
<1>1. PICK h : /\ Shows(disk, h, current_inode, current_working_directory)
               /\ Stands(disk, h, torn, cuts)
  BY DEF PowerInv
<1>2. cuts' = cuts /\ torn' = {t \in torn : Has(EntriesOf(disk', t[1]), t[2])}
  BY DEF Complete
<1>3. CASE CdUp \/ \E n \in Names : Cd(n)
  BY <1>1, <1>2, <1>3, MoveKeeps
<1>4. ASSUME torn = {}, NEW n \in Names, Mkdir(n)
      PROVE  PowerInv' /\ FT!Next
  BY <1>1, <1>2, <1>4, MkdirPower DEF UserNames
<1>5. ASSUME torn = {}, NEW s \in UserNames, NEW t \in Names, Cp(s, t) \/ MvCopy(s, t)
      PROVE  PowerInv' /\ FT!Next
  <2>1. torn' = {} /\ t \in UserNames
    BY <1>2, <1>5 DEF UserNames
  <2>. QED
    BY <1>1, <1>2, <1>5, <2>1, CopyPower
<1>6. ASSUME NEW n \in UserNames, RmCommand(n)
      PROVE  PowerInv' /\ FT!Next
  BY <1>1, <1>2, <1>6, RmPower
<1>. QED
  BY <1>3, <1>4, <1>5, <1>6 DEF Complete, Careful

LEMMA PowerStep ==
  PowerInv /\ (AllStored' \/ StoredInodes = INODES_PER_GROUP) /\ [PowerNext]_powerVars
    => PowerInv' /\ [FT!Next]_<<Tree, current_working_directory, buf>>
<1>. SUFFICES ASSUME PowerInv, AllStored' \/ StoredInodes = INODES_PER_GROUP,
                     [PowerNext]_powerVars
              PROVE  PowerInv' /\ [FT!Next]_<<Tree, current_working_directory, buf>>
  OBVIOUS
<1>1. PICK h : /\ Shows(disk, h, current_inode, current_working_directory)
               /\ Stands(disk, h, torn, cuts)
  BY DEF PowerInv
<1>2. /\ disk \in Image /\ current_inode \in DirsOf(h) /\ DiskOK(h) /\ SameContent(disk, h)
      /\ SameTree(h, h)
  BY <1>1 DEF Stands, Kept, Shows, SameTree
<1>3. CASE UNCHANGED powerVars
  <2>1. disk' = disk /\ UNCHANGED place /\ UNCHANGED <<current_working_directory, buf>>
        /\ torn' = torn /\ cuts' = cuts
    BY <1>3 DEF powerVars, vars, power, place
  <2>2. /\ Shows(disk', h, current_inode', current_working_directory') /\ Tree' = Tree
        /\ Stands(disk', h, torn', cuts')
    BY <1>1, <1>2, <2>1, KeptInTree
  <2>. QED
    BY <2>1, <2>2, InvNext
<1>4. CASE Complete
  BY <1>4, CompletePower
<1>5. ASSUME PowerOff
      PROVE  PowerInv' /\ FT!Next
  <2>1. disk' = disk /\ torn' = torn /\ cuts' = cuts + 1 /\ Reboot
    BY <1>5 DEF PowerOff, Loss
  <2>2. Stands(disk', h, torn', cuts')
    <3>1. Lost(disk, h, cuts + 1)
      BY <1>1, <1>2, LostLess DEF Stands
    <3>. QED
      BY <1>1, <2>1, <3>1 DEF Stands
  <2>. QED
    BY <1>1, <1>2, <2>1, <2>2, RebootPower
<1>6. ASSUME torn = {}, torn' = torn, cuts' = cuts + 1, Reboot, Strayed(disk, disk')
      PROVE  PowerInv' /\ FT!Next
  <2>1. PICK g : Stands(disk', g, {}, cuts + 1) /\ SameContent(disk', g) /\ SameTree(h, g)
    BY <1>1, <1>6, StrayedStands
  <2>. QED
    BY <1>1, <1>6, <2>1, RebootPower
<1>7. ASSUME NEW n \in Names, PowerOffInMkdir(n)
      PROVE  PowerInv' /\ FT!Next
  <2>1. /\ torn = {} /\ torn' = torn /\ cuts' = cuts + 1 /\ Reboot
        /\ CutShort(create_directory_writes(disk, current_inode, n))
    BY <1>7 DEF PowerOffInMkdir, Loss, Careful
  <2>2. PICK k \in 1 .. Len(create_directory_writes(disk, current_inode, n)) - 1 :
          disk' = ImageAfter(disk, create_directory_writes(disk, current_inode, n), k)
    BY <2>1 DEF CutShort
  <2>3. current_inode \in Inodes
    BY <1>2, ImageFields DEF DirsOf, DiskOK
  <2>4. Strayed(disk, disk')
    BY <1>2, <2>2, <2>3, MkdirCut
  <2>. QED
    BY <1>6, <2>1, <2>4
<1>8. ASSUME NEW s \in UserNames, NEW t \in Names, PowerOffInCopy(s, t)
      PROVE  PowerInv' /\ FT!Next
  <2>1. /\ torn = {} /\ torn' = torn /\ cuts' = cuts + 1 /\ Reboot
        /\ CutShort(copy_file_writes(disk, current_inode, s, t))
    BY <1>8 DEF PowerOffInCopy, Loss, Careful
  <2>2. PICK k \in 1 .. Len(copy_file_writes(disk, current_inode, s, t)) - 1 :
          disk' = ImageAfter(disk, copy_file_writes(disk, current_inode, s, t), k)
    BY <2>1 DEF CutShort
  <2>3. EntriesOf(disk, current_inode) \in Seq(EntryRec)
    <3>1. EntriesOf(disk, current_inode) = EntriesOf(h, current_inode)
      BY <1>2, ContentFacts
    <3>. QED
      BY <1>2, <3>1, DirFacts DEF TableOK
  <2>4. Strayed(disk, disk')
    BY <1>2, <2>2, <2>3, CopyCut
  <2>. QED
    BY <1>6, <2>1, <2>4
<1>9. ASSUME NEW n \in UserNames, PowerOffInRm(n)
      PROVE  PowerInv' /\ FT!Next
  <2>1. /\ torn' = torn \cup {<<current_inode, n>>} /\ cuts' = cuts + 1 /\ Reboot
        /\ CutShort(rm_writes(disk, current_inode, n))
    BY <1>9 DEF PowerOffInRm, Loss
  <2>2. PICK k \in 1 .. Len(rm_writes(disk, current_inode, n)) - 1 :
          disk' = ImageAfter(disk, rm_writes(disk, current_inode, n), k)
    BY <2>1 DEF CutShort
  <2>3. ShellSees(disk, current_inode, n) /\ rm_code(disk, current_inode, n) = 0
    <3>. SUFFICES ASSUME ~ (ShellSees(disk, current_inode, n)
                              /\ rm_code(disk, current_inode, n) = 0)
                  PROVE  FALSE
      OBVIOUS
    <3>1. rm_writes(disk, current_inode, n) = <<>>
      BY DEF rm_writes
    <3>2. k \in 1 .. 0 - 1
      BY <3>1
    <3>. QED
      BY <3>2
  <2>4. ShellTarget(disk, current_inode, n) \in Inodes
    <3>1. EntriesOf(disk, current_inode) = EntriesOf(h, current_inode)
      BY <1>2, ContentFacts
    <3>2. EntriesOf(disk, current_inode) \in Seq(EntryRec)
      BY <1>2, <3>1, DirFacts DEF TableOK
    <3>. QED
      BY <1>2, <2>3, <3>2, SourceType DEF ShellSees
  <2>5. Near(disk, disk', {ShellTarget(disk, current_inode, n)},
             Released(disk, ShellTarget(disk, current_inode, n)), {}, {})
    BY <1>2, <2>2, <2>4, RmCut
  <2>6. Stands(disk', h, torn', cuts') /\ SameContent(disk', h)
    BY <1>1, <1>2, <2>1, <2>3, <2>5, TornStands
  <2>. QED
    BY <1>1, <1>2, <2>1, <2>6, RebootPower
<1>. QED
  BY <1>3, <1>4, <1>5, <1>7, <1>8, <1>9 DEF PowerNext

LEMMA PowerStart == PowerInit => PowerInv /\ FT!Init
<1>. SUFFICES ASSUME PowerInit
              PROVE  PowerInv /\ FT!Init
  OBVIOUS
<1>1. Init /\ torn = {} /\ cuts = 0
  BY DEF PowerInit
<1>2. PathInv /\ FT!Init
  BY <1>1, InitInTree
<1>3. DiskOK(disk) /\ Shows(disk, disk, current_inode, current_working_directory)
  BY <1>2, PathInvShows DEF PathInv, FInv
<1>4. Kept(disk, disk, {})
  BY <1>3, SoundInItself, KeptIsHeld
<1>5. Lost(disk, disk, 0)
  <2>1. disk.imap \ disk.imap = {} /\ disk.bmap \ disk.bmap = {} /\ DIRECT * 0 = 0
    OBVIOUS
  <2>. QED
    BY <2>1, FS_EmptySet DEF Lost
<1>6. ShellSize <= DIRECT => Tight(disk)
  BY <1>1, InitTight DEF Init
<1>7. Stands(disk, disk, torn, cuts)
  BY <1>1, <1>4, <1>5, <1>6 DEF Stands
<1>. QED
  BY <1>2, <1>3, <1>7 DEF PowerInv

-----------------------------------------------------------------------------
(* All the writes of a call. *)

Result(fs, ws) == ImageAfter(fs, ws, Len(ws))

LEMMA ImagesEqual ==
  ASSUME NEW fs \in Image, NEW gs \in Image, fs.imap = gs.imap, fs.bmap = gs.bmap,
         fs.node = gs.node, fs.blk = gs.blk
  PROVE  fs = gs
BY DEF Image

LEMMA BitsWritten ==
  ASSUME NEW fs \in Image
  PROVE  /\ \A i \in Inodes :
              /\ Written(fs, InodeBit(i, TRUE)) = [fs EXCEPT !.imap = fs.imap \cup {i}]
              /\ Written(fs, InodeBit(i, FALSE)) = [fs EXCEPT !.imap = fs.imap \ {i}]
         /\ \A b \in Blocks :
              /\ Written(fs, BlockBit(b, TRUE)) = [fs EXCEPT !.bmap = fs.bmap \cup {b}]
              /\ Written(fs, BlockBit(b, FALSE)) = [fs EXCEPT !.bmap = fs.bmap \ {b}]
<1>1. ASSUME NEW i \in Inodes
      PROVE  /\ Written(fs, InodeBit(i, TRUE)) = [fs EXCEPT !.imap = fs.imap \cup {i}]
             /\ Written(fs, InodeBit(i, FALSE)) = [fs EXCEPT !.imap = fs.imap \ {i}]
  BY DEF Written, InodeBit, WithBit, Image
<1>2. ASSUME NEW b \in Blocks
      PROVE  /\ Written(fs, BlockBit(b, TRUE)) = [fs EXCEPT !.bmap = fs.bmap \cup {b}]
             /\ Written(fs, BlockBit(b, FALSE)) = [fs EXCEPT !.bmap = fs.bmap \ {b}]
  BY DEF Written, BlockBit, WithBit, Image
<1>. QED
  BY <1>1, <1>2

\* An image with one field replaced.
LEMMA FieldReplaced ==
  ASSUME NEW fs \in Image
  PROVE  /\ \A x \in SUBSET Inodes :
              LET gs == [fs EXCEPT !.imap = x]
              IN  /\ gs \in Image /\ gs.imap = x /\ gs.bmap = fs.bmap
                  /\ gs.node = fs.node /\ gs.blk = fs.blk
         /\ \A x \in SUBSET Blocks :
              LET gs == [fs EXCEPT !.bmap = x]
              IN  /\ gs \in Image /\ gs.imap = fs.imap /\ gs.bmap = x
                  /\ gs.node = fs.node /\ gs.blk = fs.blk
         /\ \A x \in [Inodes -> NodeType] :
              LET gs == [fs EXCEPT !.node = x]
              IN  /\ gs \in Image /\ gs.imap = fs.imap /\ gs.bmap = fs.bmap
                  /\ gs.node = x /\ gs.blk = fs.blk
         /\ \A x \in [Blocks -> Content] :
              LET gs == [fs EXCEPT !.blk = x]
              IN  /\ gs \in Image /\ gs.imap = fs.imap /\ gs.bmap = fs.bmap
                  /\ gs.node = fs.node /\ gs.blk = x
BY DEF Image

LEMMA SamePrefix ==
  ASSUME NEW fs, NEW ws, Len(ws) \in Nat, NEW vs, Len(vs) \in Nat,
         NEW n \in Nat, n <= Len(ws), n <= Len(vs), \A j \in 1 .. n : ws[j] = vs[j]
  PROVE  \A k \in 0 .. n : ImageAfter(fs, ws, k) = ImageAfter(fs, vs, k)
<1>. DEFINE S == {k \in 0 .. n : ImageAfter(fs, ws, k) = ImageAfter(fs, vs, k)}
<1>1. /\ ImageAfter(fs, ws, 0) = fs
      /\ \A k \in 0 .. Len(ws) - 1 :
           ImageAfter(fs, ws, k + 1) = Written(ImageAfter(fs, ws, k), ws[k + 1])
  <2>1. Stepwise(fs, ws)
    BY ImageAfterSteps
  <2>. QED
    BY <2>1 DEF Stepwise
<1>2. /\ ImageAfter(fs, vs, 0) = fs
      /\ \A k \in 0 .. Len(vs) - 1 :
           ImageAfter(fs, vs, k + 1) = Written(ImageAfter(fs, vs, k), vs[k + 1])
  <2>1. Stepwise(fs, vs)
    BY ImageAfterSteps
  <2>. QED
    BY <2>1 DEF Stepwise
<1>3. 0 \in S
  BY <1>1, <1>2
<1>4. ASSUME NEW k \in 0 .. n - 1, k \in S
      PROVE  k + 1 \in S
  <2>1. k \in 0 .. Len(ws) - 1 /\ k \in 0 .. Len(vs) - 1 /\ k + 1 \in 1 .. n /\ k + 1 \in 0 .. n
    OBVIOUS
  <2>2. ws[k + 1] = vs[k + 1] /\ ImageAfter(fs, ws, k) = ImageAfter(fs, vs, k)
    BY <1>4, <2>1
  <2>. QED
    BY <1>1, <1>2, <2>1, <2>2
<1>. HIDE DEF S
<1>5. \A k \in 0 .. n : k \in S
  BY <1>3, <1>4, InductionUpTo
<1>. QED
  BY <1>5 DEF S

LEMMA ResultEmpty == \A fs : Result(fs, <<>>) = fs
<1>. SUFFICES ASSUME NEW fs
              PROVE  Result(fs, <<>>) = fs
  OBVIOUS
<1>1. Len(<<>>) = 0 /\ Len(<<>>) \in Nat
  OBVIOUS
<1>2. Stepwise(fs, <<>>)
  BY <1>1, ImageAfterSteps
<1>3. ImageAfter(fs, <<>>, 0) = fs
  BY <1>2 DEF Stepwise
<1>. QED
  BY <1>1, <1>3 DEF Result

LEMMA ResultAppend ==
  ASSUME NEW W, NEW ws \in Seq(W), NEW x \in W, NEW fs
  PROVE  Result(fs, Append(ws, x)) = Written(Result(fs, ws), x)
<1>. DEFINE vs == Append(ws, x)
            n  == Len(ws)
<1>1. /\ n \in Nat /\ Len(vs) = n + 1 /\ vs[n + 1] = x
      /\ \A j \in 1 .. n : vs[j] = ws[j]
  BY AppendFacts
<1>. HIDE DEF vs, n
<1>2. n = Len(ws)
  BY DEF n
<1>3. n \in 0 .. Len(vs) - 1 /\ Len(vs) \in Nat /\ n <= Len(vs) /\ n <= Len(ws) /\ n \in 0 .. n
  BY <1>1, <1>2
<1>4. ImageAfter(fs, vs, n + 1) = Written(ImageAfter(fs, vs, n), x)
  <2>1. \A k \in 0 .. Len(vs) - 1 :
          ImageAfter(fs, vs, k + 1) = Written(ImageAfter(fs, vs, k), vs[k + 1])
    <3>1. Stepwise(fs, vs)
      BY <1>3, ImageAfterSteps
    <3>. QED
      BY <3>1 DEF Stepwise
  <2>. QED
    BY <1>1, <1>3, <2>1
<1>5. ImageAfter(fs, ws, n) = ImageAfter(fs, vs, n)
  BY <1>1, <1>2, <1>3, SamePrefix
<1>6. Result(fs, vs) = ImageAfter(fs, vs, n + 1) /\ Result(fs, ws) = ImageAfter(fs, ws, n)
  BY <1>1, <1>2 DEF Result
<1>. QED
  BY <1>4, <1>5, <1>6 DEF vs

LEMMA ResultOfTwo ==
  \A u, v, gs : Result(gs, <<u, v>>) = Written(Written(gs, u), v)
<1>. SUFFICES ASSUME NEW u, NEW v, NEW gs
              PROVE  Result(gs, <<u, v>>) = Written(Written(gs, u), v)
  OBVIOUS
<1>. DEFINE W == {u, v}
<1>0. u \in W /\ v \in W
  OBVIOUS
<1>1. <<>> \in Seq(W) /\ <<u>> = Append(<<>>, u) /\ <<u>> \in Seq(W)
  OBVIOUS
<1>2. <<u, v>> = Append(<<u>>, v)
  OBVIOUS
<1>. HIDE DEF W
<1>3. Result(gs, Append(<<>>, u)) = Written(Result(gs, <<>>), u)
  BY <1>0, <1>1, ResultAppend
<1>4. Result(gs, Append(<<u>>, v)) = Written(Result(gs, <<u>>), v)
  BY <1>0, <1>1, ResultAppend
<1>5. Result(gs, <<>>) = gs
  BY ResultEmpty
<1>. QED
  BY <1>1, <1>2, <1>3, <1>4, <1>5, Zenon

LEMMA ResultConcat ==
  ASSUME NEW W, NEW p \in Seq(W), NEW q \in Seq(W), NEW fs
  PROVE  Result(fs, p \o q) = Result(Result(fs, p), q)
<1>. DEFINE ws == p \o q
            m  == Len(p)
            n  == Len(q)
            gs == Result(fs, p)
            S  == {k \in 0 .. n : ImageAfter(fs, ws, m + k) = ImageAfter(gs, q, k)}
<1>1. /\ m \in Nat /\ n \in Nat /\ Len(ws) = m + n
      /\ \A j \in 1 .. m : ws[j] = p[j]
      /\ \A j \in 1 .. n : ws[m + j] = q[j]
  OBVIOUS
<1>. HIDE DEF ws
<1>2. ImageAfter(fs, ws, m) = gs
  <2>0. m = Len(p)
    OBVIOUS
  <2>. HIDE DEF m, n
  <2>1. m <= Len(ws) /\ m <= Len(p) /\ Len(ws) \in Nat /\ Len(p) \in Nat /\ m \in 0 .. m
    BY <1>1, <2>0
  <2>2. ImageAfter(fs, ws, m) = ImageAfter(fs, p, m)
    <3>1. m \in Nat /\ \A j \in 1 .. m : ws[j] = p[j]
      BY <1>1
    <3>2. \A k \in 0 .. m : ImageAfter(fs, ws, k) = ImageAfter(fs, p, k)
      BY <2>1, <3>1, SamePrefix
    <3>. QED
      BY <2>1, <3>2
  <2>. QED
    BY <2>0, <2>2 DEF Result
<1>. HIDE DEF gs, m
<1>3. /\ ImageAfter(gs, q, 0) = gs
      /\ \A k \in 0 .. n - 1 : ImageAfter(gs, q, k + 1) = Written(ImageAfter(gs, q, k), q[k + 1])
  <2>1. Len(q) \in Nat
    OBVIOUS
  <2>2. /\ ImageAfter(gs, q, 0) = gs
        /\ \A k \in 0 .. Len(q) - 1 :
             ImageAfter(gs, q, k + 1) = Written(ImageAfter(gs, q, k), q[k + 1])
    <3>1. Stepwise(gs, q)
      BY <2>1, ImageAfterSteps
    <3>. QED
      BY <3>1 DEF Stepwise
  <2>. QED
    BY <2>2
<1>4. \A k \in 0 .. Len(ws) - 1 :
        ImageAfter(fs, ws, k + 1) = Written(ImageAfter(fs, ws, k), ws[k + 1])
  <2>1. Len(ws) \in Nat
    BY <1>1
  <2>2. Stepwise(fs, ws)
    BY <2>1, ImageAfterSteps
  <2>. QED
    BY <2>2 DEF Stepwise
<1>5. 0 \in S
  <2>1. m + 0 = m /\ 0 \in 0 .. n
    BY <1>1
  <2>. QED
    BY <1>2, <1>3, <2>1
<1>6. ASSUME NEW k \in 0 .. n - 1, k \in S
      PROVE  k + 1 \in S
  <2>1. /\ m + k \in 0 .. Len(ws) - 1 /\ (m + k) + 1 = m + (k + 1) /\ k + 1 \in 1 .. n
        /\ k + 1 \in 0 .. n
    BY <1>1
  <2>2. ImageAfter(fs, ws, (m + k) + 1) = Written(ImageAfter(fs, ws, m + k), ws[(m + k) + 1])
    BY <1>4, <2>1
  <2>3. ImageAfter(gs, q, k + 1) = Written(ImageAfter(gs, q, k), q[k + 1])
    BY <1>3
  <2>4. ws[m + (k + 1)] = q[k + 1] /\ ImageAfter(fs, ws, m + k) = ImageAfter(gs, q, k)
    BY <1>1, <1>6, <2>1
  <2>. QED
    BY <2>1, <2>2, <2>3, <2>4
<1>. HIDE DEF S, n
<1>7. \A k \in 0 .. n : k \in S
  BY <1>1, <1>5, <1>6, InductionUpTo
<1>8. ImageAfter(fs, ws, m + n) = ImageAfter(gs, q, n)
  <2>1. n \in 0 .. n
    BY <1>1
  <2>. QED
    BY <1>7, <2>1 DEF S
<1>. QED
  BY <1>1, <1>8 DEF Result, ws, gs, n
\* The image gs has these bitmaps, records and contents.
Fields(gs, I, B, N, K) ==
  gs \in Image /\ gs.imap = I /\ gs.bmap = B /\ gs.node = N /\ gs.blk = K

LEMMA FieldsEqual ==
  ASSUME NEW fs, NEW gs, NEW I, NEW B, NEW N, NEW K, Fields(fs, I, B, N, K), Fields(gs, I, B, N, K)
  PROVE  fs = gs
BY ImagesEqual DEF Fields

LEMMA WriteFields ==
  ASSUME NEW gs, NEW I, NEW B, NEW N, NEW K, Fields(gs, I, B, N, K)
  PROVE  /\ \A i \in Inodes :
              /\ Fields(Written(gs, InodeBit(i, TRUE)), I \cup {i}, B, N, K)
              /\ Fields(Written(gs, InodeBit(i, FALSE)), I \ {i}, B, N, K)
         /\ \A b \in Blocks :
              /\ Fields(Written(gs, BlockBit(b, TRUE)), I, B \cup {b}, N, K)
              /\ Fields(Written(gs, BlockBit(b, FALSE)), I, B \ {b}, N, K)
         /\ \A b \in Blocks, c \in Content :
              Fields(Written(gs, Filled(b, c)), I, B, N, [K EXCEPT ![b] = c])
         /\ \A i \in Inodes, nd \in NodeType :
              Fields(Written(gs, Record(i, nd)), I, B, [N EXCEPT ![i] = nd], K)
<1>1. /\ gs \in Image /\ gs.imap = I /\ gs.bmap = B /\ gs.node = N /\ gs.blk = K
      /\ I \in SUBSET Inodes /\ B \in SUBSET Blocks
      /\ N \in [Inodes -> NodeType] /\ K \in [Blocks -> Content]
  BY ImageFields DEF Fields
<1>2. \A x \in SUBSET Inodes : Fields([gs EXCEPT !.imap = x], x, B, N, K)
  BY <1>1, FieldReplaced DEF Fields
<1>3. \A x \in SUBSET Blocks : Fields([gs EXCEPT !.bmap = x], I, x, N, K)
  BY <1>1, FieldReplaced DEF Fields
<1>4. \A x \in [Inodes -> NodeType] : Fields([gs EXCEPT !.node = x], I, B, x, K)
  BY <1>1, FieldReplaced DEF Fields
<1>5. \A x \in [Blocks -> Content] : Fields([gs EXCEPT !.blk = x], I, B, N, x)
  BY <1>1, FieldReplaced DEF Fields
<1>6. ASSUME NEW i \in Inodes
      PROVE  /\ Fields(Written(gs, InodeBit(i, TRUE)), I \cup {i}, B, N, K)
             /\ Fields(Written(gs, InodeBit(i, FALSE)), I \ {i}, B, N, K)
  <2>1. /\ Written(gs, InodeBit(i, TRUE)) = [gs EXCEPT !.imap = I \cup {i}]
        /\ Written(gs, InodeBit(i, FALSE)) = [gs EXCEPT !.imap = I \ {i}]
    BY <1>1, BitsWritten
  <2>2. I \cup {i} \in SUBSET Inodes /\ I \ {i} \in SUBSET Inodes
    BY <1>1
  <2>3. /\ Fields([gs EXCEPT !.imap = I \cup {i}], I \cup {i}, B, N, K)
        /\ Fields([gs EXCEPT !.imap = I \ {i}], I \ {i}, B, N, K)
    BY <1>2, <2>2, Zenon
  <2>. QED
    BY <2>1, <2>3, Zenon
<1>7. ASSUME NEW b \in Blocks
      PROVE  /\ Fields(Written(gs, BlockBit(b, TRUE)), I, B \cup {b}, N, K)
             /\ Fields(Written(gs, BlockBit(b, FALSE)), I, B \ {b}, N, K)
  <2>1. /\ Written(gs, BlockBit(b, TRUE)) = [gs EXCEPT !.bmap = B \cup {b}]
        /\ Written(gs, BlockBit(b, FALSE)) = [gs EXCEPT !.bmap = B \ {b}]
    BY <1>1, BitsWritten
  <2>2. B \cup {b} \in SUBSET Blocks /\ B \ {b} \in SUBSET Blocks
    BY <1>1
  <2>3. /\ Fields([gs EXCEPT !.bmap = B \cup {b}], I, B \cup {b}, N, K)
        /\ Fields([gs EXCEPT !.bmap = B \ {b}], I, B \ {b}, N, K)
    BY <1>3, <2>2, Zenon
  <2>. QED
    BY <2>1, <2>3, Zenon
<1>8. ASSUME NEW b \in Blocks, NEW c \in Content
      PROVE  Fields(Written(gs, Filled(b, c)), I, B, N, [K EXCEPT ![b] = c])
  <2>3. gs \in Image
    BY <1>1
  <2>0. Written(gs, Filled(b, c)) = [gs EXCEPT !.blk = [gs.blk EXCEPT ![b] = c]]
    BY <2>3 DEF Written, Filled, Image
  <2>1. Written(gs, Filled(b, c)) = [gs EXCEPT !.blk = [K EXCEPT ![b] = c]]
    BY <1>1, <2>0, Zenon
  <2>2. [K EXCEPT ![b] = c] \in [Blocks -> Content]
    BY <1>1
  <2>. QED
    BY <1>5, <2>1, <2>2
<1>9. ASSUME NEW i \in Inodes, NEW nd \in NodeType
      PROVE  Fields(Written(gs, Record(i, nd)), I, B, [N EXCEPT ![i] = nd], K)
  <2>3. gs \in Image
    BY <1>1
  <2>0. Written(gs, Record(i, nd)) = [gs EXCEPT !.node = [gs.node EXCEPT ![i] = nd]]
    BY <2>3 DEF Written, Record, Image
  <2>1. Written(gs, Record(i, nd)) = [gs EXCEPT !.node = [N EXCEPT ![i] = nd]]
    BY <1>1, <2>0, Zenon
  <2>2. [N EXCEPT ![i] = nd] \in [Inodes -> NodeType]
    BY <1>1
  <2>. QED
    BY <1>4, <2>1, <2>2
<1>. QED
  BY <1>6, <1>7, <1>8, <1>9

LEMMA NodeResult ==
  ASSUME NEW fs \in Image, NEW i \in Inodes, NEW nd \in NodeType,
         NEW gs, NEW I, NEW B, NEW N, NEW K, Fields(gs, I, B, N, K)
  PROVE  Fields(Result(gs, NodeWrites(fs, i, nd)), I, B, [N EXCEPT ![i] = StoredPart(i, nd)], K)
<1>. DEFINE new == StoredPart(i, nd)
            first == [new EXCEPT !.ptr = fs.node[i].ptr, !.ind = fs.node[i].ind]
<1>1. new \in NodeType
  BY StoredPartType
<1>2. fs.node[i].ptr \in [Direct -> Pointers] /\ fs.node[i].ind \in Pointers
  <2>1. fs.node[i] \in NodeType
    BY ImageFields
  <2>. QED
    BY <2>1, NodeFields
<1>3. NodeWrites(fs, i, nd) = <<Record(i, first), Record(i, new)>>
  BY DEF NodeWrites
<1>. HIDE DEF new
<1>4. first \in NodeType
  BY <1>1, <1>2 DEF NodeType
<1>. HIDE DEF first
<1>5. Result(gs, <<Record(i, first), Record(i, new)>>)
        = Written(Written(gs, Record(i, first)), Record(i, new))
  BY ResultOfTwo, Zenon
<1>6. Fields(Written(gs, Record(i, first)), I, B, [N EXCEPT ![i] = first], K)
  BY <1>4, WriteFields
<1>7. Fields(Written(Written(gs, Record(i, first)), Record(i, new)), I, B,
             [[N EXCEPT ![i] = first] EXCEPT ![i] = new], K)
  BY <1>1, <1>6, WriteFields
<1>8. [[N EXCEPT ![i] = first] EXCEPT ![i] = new] = [N EXCEPT ![i] = new]
  <2>1. N \in [Inodes -> NodeType]
    BY ImageFields DEF Fields
  <2>. QED
    BY <2>1
<1>. QED
  BY <1>3, <1>5, <1>7, <1>8 DEF new

\* A directory's block and inode, as create_directory writes them.
LEMMA MadeResult ==
  ASSUME NEW fs \in Image, NEW i \in Inodes, NEW b \in Blocks, NEW d \in Inodes
  PROVE  LET made == <<InodeBit(i, TRUE), BlockBit(b, TRUE), Filled(b, DirectoryTable(i, d))>>
                     \o NodeWrites(fs, i, DirNode(b))
         IN  Fields(Result(fs, made), fs.imap \cup {i}, fs.bmap \cup {b},
                    [fs.node EXCEPT ![i] = StoredPart(i, DirNode(b))],
                    [fs.blk EXCEPT ![b] = DirectoryTable(i, d)])
<1>. DEFINE W == Within({i}, {b}, {i}, {b})
            x == InodeBit(i, TRUE)
            y == BlockBit(b, TRUE)
            z == Filled(b, DirectoryTable(i, d))
            gs == Result(fs, <<x, y, z>>)
            K  == [fs.blk EXCEPT ![b] = DirectoryTable(i, d)]
<1>1. DirectoryTable(i, d) \in Content
  BY NewTable DEF Content
<1>2. x \in W /\ y \in W /\ z \in W
  BY <1>1, WithinHas
<1>3. DirNode(b) \in NodeType
  BY DirNodeFields
<1>4. NodeWrites(fs, i, DirNode(b)) \in Seq(W)
  BY <1>3, NodeWritesFacts
<1>5. Fields(fs, fs.imap, fs.bmap, fs.node, fs.blk)
  BY DEF Fields
<1>6. Fields(Written(fs, x), fs.imap \cup {i}, fs.bmap, fs.node, fs.blk)
  BY <1>5, WriteFields
<1>7. Fields(Written(Written(fs, x), y), fs.imap \cup {i}, fs.bmap \cup {b}, fs.node, fs.blk)
  BY <1>6, WriteFields
<1>8. Fields(Written(Written(Written(fs, x), y), z), fs.imap \cup {i}, fs.bmap \cup {b},
             fs.node, K)
  BY <1>1, <1>7, WriteFields
<1>9. Result(fs, <<x, y>>) = Written(Written(fs, x), y)
  BY ResultOfTwo, Zenon
<1>14. Result(fs, Append(<<x, y>>, z)) = Written(Result(fs, <<x, y>>), z)
  <2>. HIDE DEF x, y, z, W
  <2>1. <<x, y>> \in Seq(W)
    BY <1>2, ShortSeqs
  <2>. QED
    BY <1>2, <2>1, ResultAppend
<1>15. <<x, y, z>> = Append(<<x, y>>, z)
  <2>. HIDE DEF x, y, z
  <2>. QED
    OBVIOUS
<1>16. Result(fs, <<x, y, z>>) = Written(Written(Written(fs, x), y), z)
  BY <1>9, <1>14, <1>15, Zenon
<1>. HIDE DEF x, y, z
<1>10. Fields(gs, fs.imap \cup {i}, fs.bmap \cup {b}, fs.node, K)
  BY <1>8, <1>16, Zenon
<1>11. <<x, y, z>> \in Seq(W)
  BY <1>2, ShortSeqs
<1>. HIDE DEF W, K
<1>12. Result(fs, <<x, y, z>> \o NodeWrites(fs, i, DirNode(b)))
         = Result(gs, NodeWrites(fs, i, DirNode(b)))
  <2>. DEFINE p == <<x, y, z>>
              q == NodeWrites(fs, i, DirNode(b))
  <2>. HIDE DEF p, q
  <2>1. p \in Seq(W) /\ q \in Seq(W)
    BY <1>4, <1>11 DEF p, q
  <2>2. Result(fs, p \o q) = Result(Result(fs, p), q)
    BY <2>1, ResultConcat
  <2>. QED
    BY <2>2, Zenon DEF p, q
<1>. HIDE DEF gs
<1>13. Fields(Result(gs, NodeWrites(fs, i, DirNode(b))), fs.imap \cup {i}, fs.bmap \cup {b},
              [fs.node EXCEPT ![i] = StoredPart(i, DirNode(b))], K)
  BY <1>3, <1>10, NodeResult
<1>. QED
  BY <1>12, <1>13 DEF x, y, z, K

LEMMA SyncFields ==
  ASSUME NEW gs, NEW I, NEW B, NEW N, NEW K, Fields(gs, I, B, N, K),
         NEW i \in Inodes, NEW nd \in NodeType
  PROVE  Fields(sync_node(gs, i, nd), I, B, [N EXCEPT ![i] = StoredPart(i, nd)], K)
<1>. DEFINE st == StoredPart(i, nd)
<1>1. st \in NodeType
  BY StoredPartType
<1>2. gs \in Image
  BY DEF Fields
<1>3. sync_node(gs, i, nd) = Written(gs, Record(i, st))
  BY <1>2 DEF sync_node, Written, Record, Image
<1>. HIDE DEF st
<1>4. Fields(Written(gs, Record(i, st)), I, B, [N EXCEPT ![i] = st], K)
  BY <1>1, WriteFields
<1>. QED
  BY <1>3, <1>4 DEF st

LEMMA NewDirectoryFields ==
  ASSUME NEW fs \in Image, NEW d \in Inodes, FreeInodes(fs) # {}, FreeBlocks(fs) # {}
  PROVE  LET i == allocate_node(fs)
             b == NthFree(fs, 0)
         IN  /\ i \in FreeInodes(fs) /\ i \in Inodes /\ b \in FreeBlocks(fs) /\ b \in Blocks
             /\ Fields(DirectoryWritten(fs, d), fs.imap \cup {i}, fs.bmap \cup {b},
                       [fs.node EXCEPT ![i] = StoredPart(i, DirNode(b))],
                       [fs.blk EXCEPT ![b] = DirectoryTable(i, d)])
<1>. DEFINE i == allocate_node(fs)
            b == NthFree(fs, 0)
            es == DirectoryTable(i, d)
            K  == [fs.blk EXCEPT ![b] = es]
            mid == [fs EXCEPT !.imap = fs.imap \cup {i}, !.bmap = fs.bmap \cup {b}, !.blk = K]
<1>1. i \in FreeInodes(fs) /\ i \in Inodes /\ b \in FreeBlocks(fs) /\ b \in Blocks
  BY WrittenFacts
<1>2. es \in Content
  BY <1>1, NewTable DEF Content
<1>3. DirectoryWritten(fs, d) = sync_node(mid, i, DirNode(b))
  BY DEF DirectoryWritten, Image
<1>. HIDE DEF i, b, es
<1>4. /\ fs.imap \cup {i} \in SUBSET Inodes /\ fs.bmap \cup {b} \in SUBSET Blocks
      /\ K \in [Blocks -> Content]
  BY <1>1, <1>2, ImageFields
<1>. HIDE DEF K
<1>5. Fields(mid, fs.imap \cup {i}, fs.bmap \cup {b}, fs.node, K)
  BY <1>4 DEF Fields, Image
<1>6. DirNode(b) \in NodeType
  BY <1>1, DirNodeFields
<1>. HIDE DEF mid
<1>7. Fields(sync_node(mid, i, DirNode(b)), fs.imap \cup {i}, fs.bmap \cup {b},
             [fs.node EXCEPT ![i] = StoredPart(i, DirNode(b))], K)
  BY <1>1, <1>5, <1>6, SyncFields
<1>. QED
  BY <1>1, <1>3, <1>7 DEF i, b, es, K

\* All the writes of create_directory make the image that the call makes.
LEMMA MkdirResult ==
  ASSUME NEW fs \in Image, NEW d \in Inodes, DirBlock(fs, d) \in fs.bmap, NEW n
  PROVE  Result(fs, create_directory_writes(fs, d, n)) = create_directory(fs, d, n)
<1>. DEFINE ws   == create_directory_writes(fs, d, n)
            code == create_directory_code(fs, d, n)
            i    == allocate_node(fs)
            b    == NthFree(fs, 0)
            D    == DirBlock(fs, d)
            new  == DirectoryWritten(fs, d)
            made == <<InodeBit(i, TRUE), BlockBit(b, TRUE), Filled(b, DirectoryTable(i, d))>>
                    \o NodeWrites(fs, i, DirNode(b))
            back == <<InodeBit(i, FALSE), BlockBit(b, FALSE)>>
            last == EntryWrite(fs, d, n, i, "dir")
            W    == Within({i}, {b}, {i}, {b})
<1>1. ws = CASE code = 0  -> Append(made, last)
             [] code = -6 -> made \o back
             [] code = -5 -> <<InodeBit(i, TRUE), InodeBit(i, FALSE)>>
             [] OTHER     -> <<>>
  BY DEF create_directory_writes
<1>2. create_directory(fs, d, n)
        = CASE code = 0 -> [new EXCEPT !.blk[D] = AddEntry(@, n, i, "dir")]
            [] code = -6 -> BitsAsIn(fs, new)
            [] OTHER -> fs
  BY DEF create_directory
<1>3. /\ code \in {0, -6, -5} => FreeInodes(fs) # {}
      /\ code \in {0, -6} => FreeBlocks(fs) # {}
  BY DEF create_directory_code
<1>4. last = Filled(D, AddEntry(fs.blk[D], n, i, "dir"))
  BY DEF EntryWrite, EntriesOf
<1>. HIDE DEF ws, code, last
<1>5. code \in {0, -6} =>
        /\ i \in FreeInodes(fs) /\ i \in Inodes /\ b \in FreeBlocks(fs) /\ b \in Blocks
        /\ new \in Image /\ Result(fs, made) = new
        /\ new.imap = fs.imap \cup {i} /\ new.bmap = fs.bmap \cup {b} /\ new.blk[D] = fs.blk[D]
        /\ made \in Seq(W)
  <2>. SUFFICES ASSUME code \in {0, -6}
                PROVE  /\ i \in FreeInodes(fs) /\ i \in Inodes /\ b \in FreeBlocks(fs) /\ b \in Blocks
                       /\ new \in Image /\ Result(fs, made) = new
                       /\ new.imap = fs.imap \cup {i} /\ new.bmap = fs.bmap \cup {b}
                       /\ new.blk[D] = fs.blk[D]
                       /\ made \in Seq(W)
    OBVIOUS
  <2>. DEFINE N == [fs.node EXCEPT ![i] = StoredPart(i, DirNode(b))]
              K == [fs.blk EXCEPT ![b] = DirectoryTable(i, d)]
  <2>1. /\ i \in FreeInodes(fs) /\ i \in Inodes /\ b \in FreeBlocks(fs) /\ b \in Blocks
        /\ Fields(new, fs.imap \cup {i}, fs.bmap \cup {b}, N, K)
    BY <1>3, NewDirectoryFields
  <2>. HIDE DEF i, b, new
  <2>2. Fields(Result(fs, made), fs.imap \cup {i}, fs.bmap \cup {b}, N, K)
    BY <2>1, MadeResult
  <2>3. K[D] = fs.blk[D]
    <3>1. D # b /\ fs.blk \in [Blocks -> Content] /\ D \in Blocks
      BY <2>1, ImageFields DEF FreeBlocks
    <3>. HIDE DEF D
    <3>. QED
      BY <3>1
  <2>4. made \in Seq(W)
    <3>1. /\ InodeBit(i, TRUE) \in W /\ BlockBit(b, TRUE) \in W
          /\ Filled(b, DirectoryTable(i, d)) \in W
      <4>1. DirectoryTable(i, d) \in Content
        BY <2>1, NewTable DEF Content
      <4>. QED
        BY <4>1, WithinHas
    <3>2. NodeWrites(fs, i, DirNode(b)) \in Seq(W)
      <4>1. DirNode(b) \in NodeType
        BY <2>1, DirNodeFields
      <4>. QED
        BY <2>1, <4>1, NodeWritesFacts
    <3>. HIDE DEF W
    <3>3. <<InodeBit(i, TRUE), BlockBit(b, TRUE), Filled(b, DirectoryTable(i, d))>> \in Seq(W)
      BY <3>1, ShortSeqs, EmptySeq
    <3>. QED
      BY <3>1, <3>2, <3>3, ShortSeqs
  <2>. HIDE DEF N, K, made
  <2>5. Result(fs, made) = new
    BY <2>1, <2>2, FieldsEqual
  <2>. QED
    BY <2>1, <2>3, <2>4, <2>5 DEF Fields
<1>. HIDE DEF made, new
<1>6. CASE code = 0
  <2>1. ws = Append(made, last)
    BY <1>1, <1>6
  <2>2. create_directory(fs, d, n) = [new EXCEPT !.blk[D] = AddEntry(@, n, i, "dir")]
    BY <1>2, <1>6
  <2>3. Result(fs, Append(made, last)) = Written(Result(fs, made), last)
    <3>. DEFINE V == W \cup {last}
    <3>1. made \in Seq(V) /\ last \in V
      BY <1>5, <1>6, SeqGrows
    <3>. HIDE DEF V
    <3>. QED
      BY <3>1, ResultAppend
  <2>4. new \in Image /\ new.blk[D] = fs.blk[D] /\ Result(fs, made) = new
    BY <1>5, <1>6
  <2>. DEFINE c == AddEntry(fs.blk[D], n, i, "dir")
  <2>5. Written(new, Filled(D, c)) = [new EXCEPT !.blk[D] = c]
    <3>. HIDE DEF c, D
    <3>. QED
      BY <2>4 DEF Written, Filled, Image
  <2>6. [new EXCEPT !.blk[D] = AddEntry(@, n, i, "dir")] = [new EXCEPT !.blk[D] = c]
    BY <2>4
  <2>. QED
    BY <1>4, <2>1, <2>2, <2>3, <2>4, <2>5, <2>6, Zenon DEF ws
<1>7. CASE code = -6
  <2>0. code # 0 /\ code # -5
    BY <1>7
  <2>1. ws = made \o back
    BY <1>1, <1>7, <2>0, Zenon
  <2>2. create_directory(fs, d, n) = BitsAsIn(fs, new)
    BY <1>2, <1>7, <2>0, Zenon
  <2>3. /\ i \in FreeInodes(fs) /\ i \in Inodes /\ b \in FreeBlocks(fs) /\ b \in Blocks
        /\ new \in Image /\ Result(fs, made) = new /\ made \in Seq(W)
        /\ new.imap = fs.imap \cup {i} /\ new.bmap = fs.bmap \cup {b}
    BY <1>5, <1>7
  <2>4. back \in Seq(W)
    <3>1. InodeBit(i, FALSE) \in W /\ BlockBit(b, FALSE) \in W
      BY WithinHas
    <3>. HIDE DEF W
    <3>. QED
      BY <3>1, ShortSeqs, EmptySeq
  <2>. DEFINE after == Written(Written(new, InodeBit(i, FALSE)), BlockBit(b, FALSE))
  <2>5. Result(fs, made \o back) = after
    <3>1. Result(fs, made \o back) = Result(Result(fs, made), back)
      <4>. HIDE DEF W, back
      <4>. QED
        BY <2>3, <2>4, ResultConcat
    <3>2. Result(new, back) = after
      BY ResultOfTwo, Zenon
    <3>. HIDE DEF back, after
    <3>. QED
      BY <2>3, <3>1, <3>2, Zenon
  <2>. HIDE DEF i, b
  <2>6. Fields(after, new.imap \ {i}, new.bmap \ {b}, new.node, new.blk)
    <3>1. Fields(new, new.imap, new.bmap, new.node, new.blk)
      BY <2>3 DEF Fields
    <3>2. Fields(Written(new, InodeBit(i, FALSE)), new.imap \ {i}, new.bmap, new.node, new.blk)
      BY <2>3, <3>1, WriteFields
    <3>. QED
      BY <2>3, <3>2, WriteFields
  <2>7. new.imap \ {i} = fs.imap /\ new.bmap \ {b} = fs.bmap
    BY <2>3 DEF FreeInodes, FreeBlocks
  <2>. HIDE DEF after
  <2>8. Fields(BitsAsIn(fs, new), fs.imap, fs.bmap, new.node, new.blk)
    BY <2>3, BitsFacts DEF Fields
  <2>9. after = BitsAsIn(fs, new)
    BY <2>6, <2>7, <2>8, FieldsEqual
  <2>. QED
    BY <2>1, <2>2, <2>5, <2>9, Zenon DEF ws
<1>8. CASE code = -5
  <2>0. code # 0 /\ code # -6
    BY <1>8
  <2>1. ws = <<InodeBit(i, TRUE), InodeBit(i, FALSE)>>
    BY <1>1, <1>8, <2>0, Zenon
  <2>2. create_directory(fs, d, n) = fs
    BY <1>2, <2>0
  <2>3. i \in FreeInodes(fs) /\ i \in Inodes
    BY <1>3, <1>8, AllocateNode
  <2>. DEFINE after == Written(Written(fs, InodeBit(i, TRUE)), InodeBit(i, FALSE))
  <2>4. Result(fs, <<InodeBit(i, TRUE), InodeBit(i, FALSE)>>) = after
    BY ResultOfTwo, Zenon
  <2>. HIDE DEF i
  <2>5. Fields(after, (fs.imap \cup {i}) \ {i}, fs.bmap, fs.node, fs.blk)
    <3>1. Fields(fs, fs.imap, fs.bmap, fs.node, fs.blk)
      BY DEF Fields
    <3>2. Fields(Written(fs, InodeBit(i, TRUE)), fs.imap \cup {i}, fs.bmap, fs.node, fs.blk)
      BY <2>3, <3>1, WriteFields
    <3>. QED
      BY <2>3, <3>2, WriteFields
  <2>6. (fs.imap \cup {i}) \ {i} = fs.imap
    BY <2>3 DEF FreeInodes
  <2>7. after = fs
    BY <2>5, <2>6, ImagesEqual DEF Fields
  <2>. QED
    BY <2>1, <2>2, <2>4, <2>7, Zenon DEF ws
<1>9. CASE code \notin {0, -6, -5}
  <2>1. ws = <<>> /\ create_directory(fs, d, n) = fs
    <3>. HIDE DEF back, i, b, D
    <3>1. code # 0 /\ code # -6 /\ code # -5
      BY <1>9
    <3>. QED
      BY <1>1, <1>2, <3>1, Zenon
  <2>. QED
    BY <2>1, ResultEmpty DEF ws
<1>. QED
  BY <1>6, <1>7, <1>8, <1>9

\* A row of cleared bits.
Cleared(f) == [j \in DOMAIN f |-> BlockBit(f[j], FALSE)]

LEMMA ClearedResult ==
  ASSUME NEW gs, NEW I, NEW B, NEW N, NEW K, Fields(gs, I, B, N, K), NEW f \in Seq(Blocks)
  PROVE  Fields(Result(gs, Cleared(f)), I, B \ {f[j] : j \in 1 .. Len(f)}, N, K)
<1>. DEFINE L == Len(f)
            ws == Cleared(f)
            A(k) == ImageAfter(gs, ws, k)
            gone(k) == {f[j] : j \in 1 .. k}
            S == {k \in 0 .. L : Fields(A(k), I, B \ gone(k), N, K)}
<1>1. L \in Nat /\ DOMAIN f = 1 .. L /\ \A j \in 1 .. L : f[j] \in Blocks
  BY ElementOfSeq
<1>2. Len(ws) = L /\ \A j \in 1 .. L : ws[j] = BlockBit(f[j], FALSE)
  BY <1>1 DEF Cleared
<1>. HIDE DEF L, ws
<1>3. A(0) = gs /\ \A k \in 0 .. L - 1 : A(k + 1) = Written(A(k), ws[k + 1])
  <2>1. Len(ws) \in Nat
    BY <1>1, <1>2
  <2>2. /\ ImageAfter(gs, ws, 0) = gs
        /\ \A k \in 0 .. Len(ws) - 1 :
             ImageAfter(gs, ws, k + 1) = Written(ImageAfter(gs, ws, k), ws[k + 1])
    <3>1. Stepwise(gs, ws)
      BY <2>1, ImageAfterSteps
    <3>. QED
      BY <3>1 DEF Stepwise
  <2>. QED
    BY <1>2, <2>2
<1>. HIDE DEF A
<1>4. 0 \in S
  <2>1. gone(0) = {}
    OBVIOUS
  <2>2. B \ gone(0) = B
    BY <2>1, ImageFields DEF Fields
  <2>. HIDE DEF gone
  <2>3. Fields(A(0), I, B \ gone(0), N, K)
    BY <1>3, <2>2
  <2>. QED
    BY <1>1, <2>3
<1>5. ASSUME NEW k \in 0 .. L - 1, k \in S
      PROVE  k + 1 \in S
  <2>1. k + 1 \in 1 .. L /\ k + 1 \in 0 .. L
    BY <1>1
  <2>. DEFINE b == f[k + 1]
  <2>2. b \in Blocks /\ A(k + 1) = Written(A(k), BlockBit(b, FALSE))
    BY <1>1, <1>2, <1>3, <2>1
  <2>3. gone(k + 1) = gone(k) \cup {b}
    <3>1. \A j : j \in 1 .. k + 1 <=> j \in 1 .. k \/ j = k + 1
      OBVIOUS
    <3>. QED
      BY <3>1
  <2>. HIDE DEF b, gone
  <2>4. Fields(Written(A(k), BlockBit(b, FALSE)), I, (B \ gone(k)) \ {b}, N, K)
    BY <1>5, <2>2, WriteFields
  <2>5. (B \ gone(k)) \ {b} = B \ gone(k + 1)
    BY <2>3
  <2>. QED
    BY <2>1, <2>2, <2>4, <2>5
<1>. HIDE DEF S
<1>6. \A k \in 0 .. L : k \in S
  BY <1>1, <1>4, <1>5, InductionUpTo
<1>7. Fields(A(L), I, B \ gone(L), N, K)
  <2>1. L \in 0 .. L
    BY <1>1
  <2>. HIDE DEF gone
  <2>. QED
    BY <1>6, <2>1 DEF S
<1>8. Result(gs, ws) = A(L)
  BY <1>2 DEF Result, A
<1>. QED
  BY <1>7, <1>8 DEF ws, L

LEMMA ClearedSeq ==
  ASSUME NEW f \in Seq(Blocks)
  PROVE  Cleared(f) \in Seq(Within({}, Blocks, {}, {}))
<1>1. Len(f) \in Nat /\ DOMAIN f = 1 .. Len(f) /\ \A j \in 1 .. Len(f) : f[j] \in Blocks
  BY ElementOfSeq
<1>. DEFINE W == Within({}, Blocks, {}, {})
<1>2. \A b \in Blocks : BlockBit(b, FALSE) \in W
  BY WithinHas
<1>. HIDE DEF W
<1>3. Cleared(f) \in [1 .. Len(f) -> W]
  BY <1>1, <1>2 DEF Cleared
<1>. QED
  BY <1>1, <1>3, FunctionIsSeq DEF W

LEMMA SeqWider ==
  ASSUME NEW S, NEW T, S \subseteq T, NEW p \in Seq(S)
  PROVE  p \in Seq(T)
<1>1. p = [j \in 1 .. Len(p) |-> p[j]] /\ Len(p) \in Nat
  OBVIOUS
<1>2. \A j \in 1 .. Len(p) : p[j] \in T
  BY ElementOfSeq
<1>. QED
  BY <1>1, <1>2

WithBitsOf(fs, gs) == [fs EXCEPT !.bmap = gs.bmap, !.imap = gs.imap]
WithBlocks(fs, c)  == [fs EXCEPT !.blk = c]

LEMMA OtherFields ==
  ASSUME NEW fs \in Image, NEW gs \in Image, gs.node = fs.node, NEW c
  PROVE  WithBlocks(WithBitsOf(fs, gs), c) = WithBlocks(gs, c)
BY DEF Image, WithBlocks, WithBitsOf

\* All the writes of rm make the image that the call makes.
LEMMA RmResult ==
  ASSUME NEW fs \in Image, NEW d, NEW n, ShellTarget(fs, d, n) \in Inodes,
         DirBlock(fs, d) \in Blocks, rm_writes(fs, d, n) # <<>>
  PROVE  Result(fs, rm_writes(fs, d, n)) = EntryDeleted(fs, d, n)
<1>. DEFINE i  == ShellTarget(fs, d, n)
            nd == fs.node[i]
            P  == {l \in Direct : l < nd.blocks /\ nd.ptr[l] # NoBlock}
            B  == Released(fs, i)
            ks == InOrder(P)
            f  == [j \in DOMAIN ks |-> nd.ptr[ks[j]]]
            D  == DirBlock(fs, d)
            last == Filled(D, RemoveEntry(EntriesOf(fs, d), n))
            x  == InodeBit(i, FALSE)
<1>1. rm_writes(fs, d, n) = [j \in DOMAIN ks |-> BlockBit(nd.ptr[ks[j]], FALSE)] \o <<x, last>>
  <2>1. rm_writes(fs, d, n) = DeletionWrites(fs, d, n)
    BY DEF rm_writes
  <2>. QED
    BY <2>1, Zenon DEF DeletionWrites
<1>2. nd \in NodeType
  BY ImageFields
<1>3. B = {nd.ptr[l] : l \in P} /\ B \in SUBSET Blocks
  <2>1. \A l \in Direct : nd.ptr[l] \in Pointers
    BY <1>2, NodeFields
  <2>. QED
    BY <2>1 DEF Released, Pointers
<1>4. P \in SUBSET Nat /\ IsFiniteSet(P)
  <2>1. IsFiniteSet(0 .. DIRECT - 1)
    <3>1. 0 \in Int /\ DIRECT - 1 \in Int
      OBVIOUS
    <3>. QED
      BY <3>1, FS_Interval
  <2>2. P \subseteq Direct /\ Direct \in SUBSET Nat
    BY DEF Direct
  <2>. QED
    BY <2>1, <2>2, FS_Subset DEF Direct
<1>5. /\ ks \in Seq(P) /\ Len(ks) = Cardinality(P)
      /\ \A l \in P : \E j \in 1 .. Len(ks) : ks[j] = l
  <2>. HIDE DEF P
  <2>. QED
    BY <1>4, InOrderFacts
<1>0. i \in Inodes /\ D \in Blocks
  OBVIOUS
<1>. HIDE DEF ks, P, B, i, nd, x
<1>6. DOMAIN ks = 1 .. Len(ks) /\ Len(ks) \in Nat /\ \A j \in 1 .. Len(ks) : ks[j] \in P
  BY <1>5, ElementOfSeq
<1>7. f \in Seq(Blocks) /\ Len(f) = Len(ks) /\ \A j \in 1 .. Len(ks) : f[j] = nd.ptr[ks[j]]
  <2>1. f \in [1 .. Len(ks) -> Blocks]
    BY <1>3, <1>6
  <2>. QED
    BY <1>6, <2>1, FunctionIsSeq
<1>8. {f[j] : j \in 1 .. Len(f)} = B
  BY <1>3, <1>5, <1>6, <1>7
<1>9. [j \in DOMAIN ks |-> BlockBit(nd.ptr[ks[j]], FALSE)] = Cleared(f)
  BY <1>6, <1>7 DEF Cleared
<1>. HIDE DEF f
<1>10. Fields(Result(fs, Cleared(f)), fs.imap, fs.bmap \ B, fs.node, fs.blk)
  <2>1. Fields(fs, fs.imap, fs.bmap, fs.node, fs.blk)
    BY DEF Fields
  <2>. QED
    BY <1>7, <1>8, <2>1, ClearedResult
<1>. DEFINE r == Result(fs, Cleared(f))
            g == Written(r, x)
<1>11. Result(fs, Cleared(f) \o <<x, last>>) = Result(r, <<x, last>>)
  <2>. DEFINE W == Within({}, Blocks, {}, {}) \cup {x, last}
  <2>1. Cleared(f) \in Seq(W)
    <3>1. Within({}, Blocks, {}, {}) \subseteq W
      OBVIOUS
    <3>2. Cleared(f) \in Seq(Within({}, Blocks, {}, {}))
      BY <1>7, ClearedSeq
    <3>. HIDE DEF W
    <3>. QED
      BY <3>1, <3>2, SeqWider
  <2>2. x \in W /\ last \in W
    OBVIOUS
  <2>. HIDE DEF W, last
  <2>. DEFINE p == Cleared(f)
              q == <<x, last>>
  <2>3. p \in Seq(W) /\ q \in Seq(W)
    BY <2>1, <2>2
  <2>. HIDE DEF p, q
  <2>4. Result(fs, p \o q) = Result(Result(fs, p), q)
    BY <2>3, ResultConcat
  <2>. QED
    BY <2>4, Zenon DEF p, q
<1>12. Result(r, <<x, last>>) = Written(g, last)
  <2>. HIDE DEF r, last
  <2>. QED
    BY ResultOfTwo, Zenon
<1>13. Fields(g, fs.imap \ {i}, fs.bmap \ B, fs.node, fs.blk)
  <2>. HIDE DEF r
  <2>. QED
    BY <1>0, <1>10, WriteFields DEF x, r
<1>. HIDE DEF g, D
<1>14. Written(g, last) = [g EXCEPT !.blk = [fs.blk EXCEPT ![D] = RemoveEntry(fs.blk[D], n)]]
  <2>1. EntriesOf(fs, d) = fs.blk[D]
    BY DEF EntriesOf, D
  <2>2. g \in Image /\ g.blk = fs.blk
    BY <1>13 DEF Fields
  <2>. DEFINE c == RemoveEntry(fs.blk[D], n)
  <2>3. last = Filled(D, c)
    BY <2>1
  <2>. HIDE DEF c, last
  <2>4. Written(g, Filled(D, c)) = [g EXCEPT !.blk = [g.blk EXCEPT ![D] = c]]
    BY <2>2 DEF Written, Filled, Image
  <2>. QED
    BY <2>2, <2>3, <2>4, Zenon DEF c
<1>15. EntryDeleted(fs, d, n)
         = [fs EXCEPT !.bmap = fs.bmap \ B, !.imap = fs.imap \ {i},
                      !.blk = [fs.blk EXCEPT ![D] = RemoveEntry(fs.blk[D], n)]]
  BY DEF EntryDeleted, Image, ShellTarget, i, B, D
<1>16. g \in Image /\ g.imap = fs.imap \ {i} /\ g.bmap = fs.bmap \ B /\ g.node = fs.node
  BY <1>13 DEF Fields
<1>18. Written(g, last) = EntryDeleted(fs, d, n)
  <2>. DEFINE c == [fs.blk EXCEPT ![D] = RemoveEntry(fs.blk[D], n)]
  <2>. HIDE DEF c, last
  <2>1. WithBlocks(WithBitsOf(fs, g), c) = WithBlocks(g, c)
    BY <1>16, OtherFields
  <2>2. Written(g, last) = WithBlocks(g, c)
    BY <1>14, Zenon DEF WithBlocks, c
  <2>3. EntryDeleted(fs, d, n) = WithBlocks(WithBitsOf(fs, g), c)
    BY <1>15, <1>16 DEF WithBlocks, WithBitsOf, c
  <2>. QED
    BY <2>1, <2>2, <2>3
<1>. QED
  BY <1>1, <1>9, <1>11, <1>12, <1>18, Zenon DEF r

LEMMA ResultOfOne ==
  \A u, gs : Result(gs, <<u>>) = Written(gs, u)
<1>. SUFFICES ASSUME NEW u, NEW gs
              PROVE  Result(gs, <<u>>) = Written(gs, u)
  OBVIOUS
<1>. DEFINE W == {u}
<1>0. u \in W
  OBVIOUS
<1>1. <<>> \in Seq(W) /\ <<u>> = Append(<<>>, u)
  OBVIOUS
<1>. HIDE DEF W
<1>2. Result(gs, Append(<<>>, u)) = Written(Result(gs, <<>>), u)
  BY <1>0, <1>1, ResultAppend
<1>3. Result(gs, <<>>) = gs
  BY ResultEmpty
<1>. QED
  BY <1>1, <1>2, <1>3, Zenon

LEMMA TargetList ==
  ASSUME NEW fs \in Image, NEW nd \in NodeType
  PROVE  LET cs == Targets(fs, nd)
             ks == InOrder(PlacedBlocks(fs, nd))
         IN  /\ Len(cs) \in Nat /\ Len(ks) = Len(cs) /\ DOMAIN cs = 1 .. Len(cs)
             /\ \A j \in 1 .. Len(cs) :
                  /\ ks[j] \in PlacedBlocks(fs, nd)
                  /\ cs[j].from = nd.ptr[ks[j]] /\ cs[j].to = CopyTarget(fs, nd, ks[j])
                  /\ cs[j].from \in Blocks /\ cs[j].to \in Blocks
             /\ \A k \in PlacedBlocks(fs, nd) : \E j \in 1 .. Len(cs) : ks[j] = k
             /\ \A j, l \in 1 .. Len(cs) : cs[j].to = cs[l].to => j = l
             /\ {cs[j].to : j \in 1 .. Len(cs)} = NewBlocks(fs, nd)
<1>. DEFINE placed == PlacedBlocks(fs, nd)
            ks == InOrder(placed)
            cs == Targets(fs, nd)
<1>1. /\ ks \in Seq(placed) /\ Len(ks) = Cardinality(placed)
      /\ \A j \in 1 .. Len(ks) : Below(placed, ks[j]) = j - 1
      /\ \A x \in placed : \E j \in 1 .. Len(ks) : ks[j] = x
  BY NewBlocksFew, InOrderFacts
<1>2. cs = [j \in DOMAIN ks |-> [from |-> nd.ptr[ks[j]], to |-> CopyTarget(fs, nd, ks[j])]]
  BY DEF Targets
<1>3. /\ \A k \in placed : nd.ptr[k] \in Blocks /\ CopyTarget(fs, nd, k) \in Blocks
      /\ \A k, l \in placed : CopyTarget(fs, nd, k) = CopyTarget(fs, nd, l) => k = l
  <2>1. \A k \in placed : nd.ptr[k] \in Blocks
    BY CopiedFacts DEF PlacedBlocks
  <2>2. \A k \in placed : CopyTarget(fs, nd, k) \in Blocks
    BY TargetFacts DEF FreeBlocks
  <2>. QED
    BY <2>1, <2>2, TargetFacts
<1>4. NewBlocks(fs, nd) = {CopyTarget(fs, nd, k) : k \in placed}
  BY DEF NewBlocks
<1>. HIDE DEF placed, ks
<1>5. DOMAIN ks = 1 .. Len(ks) /\ Len(ks) \in Nat /\ \A j \in 1 .. Len(ks) : ks[j] \in placed
  BY <1>1, ElementOfSeq
<1>6. /\ Len(cs) = Len(ks) /\ DOMAIN cs = 1 .. Len(ks)
      /\ \A j \in 1 .. Len(ks) : /\ cs[j].from = nd.ptr[ks[j]]
                                 /\ cs[j].to = CopyTarget(fs, nd, ks[j])
  <2>1. DOMAIN cs = 1 .. Len(ks)
    BY <1>2, <1>5
  <2>2. Len(cs) = Len(ks)
    <3>. DEFINE T == {cs[j] : j \in 1 .. Len(ks)}
    <3>1. cs \in [1 .. Len(ks) -> T]
      BY <1>2, <1>5
    <3>. HIDE DEF T, cs
    <3>. QED
      BY <1>5, <3>1, FunctionIsSeq
  <2>. QED
    BY <1>2, <1>5, <2>1, <2>2
<1>. HIDE DEF cs
<1>7. ASSUME NEW j \in 1 .. Len(ks), NEW l \in 1 .. Len(ks), cs[j].to = cs[l].to
      PROVE  j = l
  <2>1. ks[j] = ks[l]
    BY <1>3, <1>5, <1>6, <1>7
  <2>2. j - 1 = l - 1
    BY <1>1, <2>1
  <2>. QED
    BY <2>2
<1>8. {cs[j].to : j \in 1 .. Len(ks)} = NewBlocks(fs, nd)
  <2>1. \A j \in 1 .. Len(ks) : cs[j].to \in NewBlocks(fs, nd)
    BY <1>4, <1>5, <1>6
  <2>2. ASSUME NEW b \in NewBlocks(fs, nd)
        PROVE  \E j \in 1 .. Len(ks) : cs[j].to = b
    <3>1. PICK k \in placed : b = CopyTarget(fs, nd, k)
      BY <1>4
    <3>2. PICK j \in 1 .. Len(ks) : ks[j] = k
      BY <1>1
    <3>. QED
      BY <1>6, <3>1, <3>2
  <2>. QED
    BY <2>1, <2>2
<1>. QED
  BY <1>1, <1>3, <1>5, <1>6, <1>7, <1>8 DEF cs, ks, placed

LEMMA Halves ==
  \A k \in Nat : /\ ((2 * k + 1) + 1) \div 2 = k + 1 /\ (2 * k + 1) % 2 = 1
                 /\ ((2 * k + 2) + 1) \div 2 = k + 1 /\ (2 * k + 2) % 2 # 1
OBVIOUS

\* The data writes of copy_file mark and fill the blocks that DataCopied takes.
LEMMA DataResult ==
  ASSUME NEW fs \in Image, NEW nd \in NodeType, FreeInodes(fs) # {},
         NEW gs, NEW I, Fields(gs, I, fs.bmap, fs.node, fs.blk)
  PROVE  Fields(Result(gs, DataWrites(fs, nd)), I, fs.bmap \cup NewBlocks(fs, nd), fs.node,
                DataCopied(fs, nd).blk)
<1>. DEFINE cs == Targets(fs, nd)
            ks == InOrder(PlacedBlocks(fs, nd))
            L  == Len(cs)
            ws == DataWrites(fs, nd)
            A(k) == ImageAfter(gs, ws, 2 * k)
            to(k) == {cs[j].to : j \in 1 .. k}
            S == {k \in 0 .. L :
                    /\ Fields(A(k), I, fs.bmap \cup to(k), fs.node, A(k).blk)
                    /\ \A b \in Blocks \ to(k) : A(k).blk[b] = fs.blk[b]
                    /\ \A j \in 1 .. k : A(k).blk[cs[j].to] = fs.blk[cs[j].from]}
<1>1. /\ L \in Nat
      /\ \A j \in 1 .. L : /\ ks[j] \in PlacedBlocks(fs, nd)
                           /\ cs[j].from = nd.ptr[ks[j]] /\ cs[j].to = CopyTarget(fs, nd, ks[j])
                           /\ cs[j].from \in Blocks /\ cs[j].to \in Blocks
      /\ \A k \in PlacedBlocks(fs, nd) : \E j \in 1 .. L : ks[j] = k
      /\ \A j, l \in 1 .. L : cs[j].to = cs[l].to => j = l
      /\ {cs[j].to : j \in 1 .. L} = NewBlocks(fs, nd)
  BY TargetList
<1>2. /\ Len(ws) = 2 * L
      /\ \A m \in 1 .. 2 * L :
           ws[m] = IF m % 2 = 1 THEN BlockBit(cs[(m + 1) \div 2].to, TRUE)
                   ELSE Filled(cs[(m + 1) \div 2].to, fs.blk[cs[(m + 1) \div 2].from])
  <2>. DEFINE dw(m) == IF m % 2 = 1 THEN BlockBit(cs[(m + 1) \div 2].to, TRUE)
                       ELSE Filled(cs[(m + 1) \div 2].to, fs.blk[cs[(m + 1) \div 2].from])
              M == 2 * L
              T == {dw(m) : m \in 1 .. M}
  <2>1. ws = [m \in 1 .. M |-> dw(m)]
    BY DEF DataWrites
  <2>2. M \in Nat
    BY <1>1
  <2>. HIDE DEF dw, M, ws
  <2>3. ws \in [1 .. M -> T] /\ \A m \in 1 .. M : ws[m] = dw(m)
    BY <2>1
  <2>. HIDE DEF T
  <2>4. Len(ws) = M
    BY <2>2, <2>3, FunctionIsSeq
  <2>. QED
    BY <2>3, <2>4 DEF M, dw
<1>. HIDE DEF L, ws, cs, ks
<1>3. /\ ImageAfter(gs, ws, 0) = gs
      /\ \A k \in 0 .. 2 * L - 1 :
           ImageAfter(gs, ws, k + 1) = Written(ImageAfter(gs, ws, k), ws[k + 1])
  <2>1. Len(ws) \in Nat
    BY <1>1, <1>2
  <2>2. /\ ImageAfter(gs, ws, 0) = gs
        /\ \A k \in 0 .. Len(ws) - 1 :
             ImageAfter(gs, ws, k + 1) = Written(ImageAfter(gs, ws, k), ws[k + 1])
    <3>1. Stepwise(gs, ws)
      BY <2>1, ImageAfterSteps
    <3>. QED
      BY <3>1 DEF Stepwise
  <2>. QED
    BY <1>2, <2>2
<1>4. ASSUME NEW k \in 0 .. L - 1
      PROVE  LET c == cs[k + 1]
             IN  A(k + 1) = Written(Written(A(k), BlockBit(c.to, TRUE)), Filled(c.to, fs.blk[c.from]))
  <2>1. /\ 2 * k \in 0 .. 2 * L - 1 /\ 2 * k + 1 \in 0 .. 2 * L - 1
        /\ 2 * k + 1 \in 1 .. 2 * L /\ 2 * k + 2 \in 1 .. 2 * L
        /\ (2 * k + 1) + 1 = 2 * k + 2 /\ 2 * (k + 1) = 2 * k + 2 /\ k \in Nat
    BY <1>1
  <2>2. /\ ((2 * k + 1) + 1) \div 2 = k + 1 /\ (2 * k + 1) % 2 = 1
        /\ ((2 * k + 2) + 1) \div 2 = k + 1 /\ (2 * k + 2) % 2 # 1
    BY <2>1, Halves
  <2>3. /\ ws[2 * k + 1] = BlockBit(cs[k + 1].to, TRUE)
        /\ ws[2 * k + 2] = Filled(cs[k + 1].to, fs.blk[cs[k + 1].from])
    BY <1>2, <2>1, <2>2
  <2>4. /\ ImageAfter(gs, ws, 2 * k + 1) = Written(ImageAfter(gs, ws, 2 * k), ws[2 * k + 1])
        /\ ImageAfter(gs, ws, (2 * k + 1) + 1) = Written(ImageAfter(gs, ws, 2 * k + 1), ws[(2 * k + 1) + 1])
    BY <1>3, <2>1
  <2>5. ImageAfter(gs, ws, 2 * (k + 1)) = Written(ImageAfter(gs, ws, 2 * k + 1), ws[2 * k + 2])
    BY <2>1, <2>4
  <2>. QED
    BY <2>3, <2>4, <2>5
<1>5. A(0) = gs
  <2>1. 2 * 0 = 0
    OBVIOUS
  <2>. QED
    BY <1>3, <2>1
<1>. HIDE DEF A
<1>6. 0 \in S
  <2>1. to(0) = {}
    OBVIOUS
  <2>2. fs.bmap \cup to(0) = fs.bmap
    BY <2>1
  <2>3. gs.blk = fs.blk
    BY DEF Fields
  <2>. HIDE DEF to
  <2>4. 0 \in 0 .. L
    BY <1>1
  <2>5. Fields(A(0), I, fs.bmap \cup to(0), fs.node, A(0).blk)
    BY <1>5, <2>2, <2>3
  <2>6. \A b \in Blocks \ to(0) : A(0).blk[b] = fs.blk[b]
    BY <1>5, <2>3
  <2>7. \A j \in 1 .. 0 : A(0).blk[cs[j].to] = fs.blk[cs[j].from]
    OBVIOUS
  <2>. QED
    BY <2>4, <2>5, <2>6, <2>7
<1>7. ASSUME NEW k \in 0 .. L - 1, k \in S
      PROVE  k + 1 \in S
  <2>. DEFINE c == cs[k + 1]
              b == c.to
              v == fs.blk[c.from]
              K == A(k).blk
  <2>1. k + 1 \in 1 .. L /\ k + 1 \in 0 .. L /\ \A j \in 1 .. k : j \in 1 .. L /\ j # k + 1
    BY <1>1
  <2>2. b \in Blocks /\ c.from \in Blocks
    BY <1>1, <2>1
  <2>3. v \in Content
    BY <2>2, ImageFields
  <2>4. to(k + 1) = to(k) \cup {b}
    <3>1. \A j : j \in 1 .. k + 1 <=> j \in 1 .. k \/ j = k + 1
      OBVIOUS
    <3>. QED
      BY <3>1
  <2>5. \A j \in 1 .. k : cs[j].to # b /\ cs[j].to \in Blocks
    BY <1>1, <2>1
  <2>6. A(k + 1) = Written(Written(A(k), BlockBit(b, TRUE)), Filled(b, v))
    BY <1>4
  <2>. HIDE DEF c, b, v
  <2>7. /\ Fields(A(k), I, fs.bmap \cup to(k), fs.node, K)
        /\ \A a \in Blocks \ to(k) : K[a] = fs.blk[a]
        /\ \A j \in 1 .. k : K[cs[j].to] = fs.blk[cs[j].from]
    BY <1>7
  <2>. HIDE DEF K, to
  <2>8. Fields(Written(A(k), BlockBit(b, TRUE)), I, (fs.bmap \cup to(k)) \cup {b}, fs.node, K)
    BY <2>2, <2>7, WriteFields
  <2>9. Fields(A(k + 1), I, (fs.bmap \cup to(k)) \cup {b}, fs.node, [K EXCEPT ![b] = v])
    <3>. DEFINE mid == Written(A(k), BlockBit(b, TRUE))
                M   == (fs.bmap \cup to(k)) \cup {b}
    <3>. HIDE DEF mid, M
    <3>1. Fields(mid, I, M, fs.node, K)
      BY <2>8 DEF mid, M
    <3>2. \A x \in Blocks, y \in Content :
            Fields(Written(mid, Filled(x, y)), I, M, fs.node, [K EXCEPT ![x] = y])
      BY <3>1, WriteFields
    <3>3. Fields(Written(mid, Filled(b, v)), I, M, fs.node, [K EXCEPT ![b] = v])
      BY <2>2, <2>3, <3>2
    <3>. QED
      BY <2>6, <3>3, Zenon DEF mid, M
  <2>10. (fs.bmap \cup to(k)) \cup {b} = fs.bmap \cup to(k + 1)
    BY <2>4
  <2>11. A(k + 1).blk = [K EXCEPT ![b] = v] /\ K \in [Blocks -> Content]
    BY <2>7, <2>9, ImageFields DEF Fields
  <2>12. Fields(A(k + 1), I, fs.bmap \cup to(k + 1), fs.node, A(k + 1).blk)
    BY <2>9, <2>10, <2>11
  <2>13. \A a \in Blocks \ to(k + 1) : A(k + 1).blk[a] = fs.blk[a]
    BY <2>4, <2>7, <2>11
  <2>14. ASSUME NEW j \in 1 .. k + 1
         PROVE  A(k + 1).blk[cs[j].to] = fs.blk[cs[j].from]
    <3>1. CASE j \in 1 .. k
      BY <2>5, <2>7, <2>11, <3>1
    <3>2. CASE j = k + 1
      <4>1. cs[j].to = b /\ fs.blk[cs[j].from] = v
        BY <3>2 DEF b, v, c
      <4>. QED
        BY <2>2, <2>11, <4>1
    <3>. QED
      BY <3>1, <3>2
  <2>. QED
    BY <2>1, <2>12, <2>13, <2>14
<1>. HIDE DEF S
<1>8. \A k \in 0 .. L : k \in S
  BY <1>1, <1>6, <1>7, InductionUpTo
<1>9. /\ Fields(A(L), I, fs.bmap \cup to(L), fs.node, A(L).blk)
      /\ \A b \in Blocks \ to(L) : A(L).blk[b] = fs.blk[b]
      /\ \A j \in 1 .. L : A(L).blk[cs[j].to] = fs.blk[cs[j].from]
  <2>1. L \in 0 .. L
    BY <1>1
  <2>2. L \in S
    BY <1>8, <2>1
  <2>. QED
    BY <2>2 DEF S
<1>10. to(L) = NewBlocks(fs, nd)
  BY <1>1
<1>. HIDE DEF to
<1>11. A(L).blk = DataCopied(fs, nd).blk
  <2>. DEFINE K == DataCopied(fs, nd).blk
  <2>1. /\ K \in [Blocks -> Content]
        /\ \A b \in Blocks \ NewBlocks(fs, nd) : K[b] = fs.blk[b]
        /\ \A k \in PlacedBlocks(fs, nd) : K[CopyTarget(fs, nd, k)] = fs.blk[nd.ptr[k]]
    BY DataCopiedFacts, ImageFields DEF NewBlocks
  <2>2. A(L).blk \in [Blocks -> Content]
    BY <1>9, ImageFields DEF Fields
  <2>. HIDE DEF K
  <2>3. ASSUME NEW b \in Blocks
        PROVE  A(L).blk[b] = K[b]
    <3>1. CASE b \notin NewBlocks(fs, nd)
      BY <1>9, <1>10, <2>1, <3>1
    <3>2. CASE b \in NewBlocks(fs, nd)
      <4>1. PICK j \in 1 .. L : cs[j].to = b
        BY <1>1, <3>2
      <4>. QED
        BY <1>1, <1>9, <2>1, <4>1
    <3>. QED
      BY <3>1, <3>2
  <2>4. A(L).blk = K
    <3>. DEFINE J == A(L).blk
    <3>1. J \in [Blocks -> Content] /\ K \in [Blocks -> Content] /\ \A b \in Blocks : J[b] = K[b]
      BY <2>1, <2>2, <2>3
    <3>. HIDE DEF J
    <3>. HIDE Ext2Assumption
    <3>2. J = K
      BY <3>1
    <3>. QED
      BY <3>2 DEF J
  <2>. QED
    BY <2>4 DEF K
<1>12. Result(gs, ws) = A(L)
  BY <1>2 DEF Result, A
<1>. QED
  BY <1>9, <1>10, <1>11, <1>12 DEF ws

LEMMA TwoSeqs ==
  ASSUME NEW S, NEW p \in Seq(S), NEW q \in Seq(S)
  PROVE  p \o q \in Seq(S)
OBVIOUS

\* Where the writes of a copy come from, and what is marked for it.
CopyWrites(fs, nd) ==
  Within({allocate_node(fs)}, NewBlocks(fs, nd), {allocate_node(fs)}, NewBlocks(fs, nd))

\* The inode's bit and the data.
LEMMA CopiedResult ==
  ASSUME NEW fs \in Image, NEW nd \in NodeType, FreeInodes(fs) # {}
  PROVE  LET i      == allocate_node(fs)
             copied == <<InodeBit(i, TRUE)>> \o DataWrites(fs, nd)
             gs     == DataCopied(fs, nd)
         IN  /\ copied \in Seq(CopyWrites(fs, nd))
             /\ Result(fs, copied) = gs
             /\ i \in FreeInodes(fs) /\ i \in Inodes
             /\ NewBlocks(fs, nd) \in SUBSET FreeBlocks(fs)
             /\ Fields(gs, fs.imap \cup {i}, fs.bmap \cup NewBlocks(fs, nd), fs.node, gs.blk)
             /\ \A b \in Blocks \ NewBlocks(fs, nd) : gs.blk[b] = fs.blk[b]
<1>. DEFINE i  == allocate_node(fs)
            B  == NewBlocks(fs, nd)
            W  == CopyWrites(fs, nd)
            x  == InodeBit(i, TRUE)
            gs == DataCopied(fs, nd)
            K  == gs.blk
<1>1. /\ i \in FreeInodes(fs) /\ i \in Inodes /\ B \in SUBSET FreeBlocks(fs)
      /\ Fields(gs, fs.imap \cup {i}, fs.bmap \cup B, fs.node, K)
      /\ \A b \in Blocks \ B : K[b] = fs.blk[b]
  BY DataCopiedFacts DEF NewBlocks, Fields
<1>2. x \in W /\ DataWrites(fs, nd) \in Seq(W)
  BY CopyWritesIn, WithinHas DEF CopyWrites
<1>. HIDE DEF i, B, W, gs, K
<1>3. Fields(Written(fs, x), fs.imap \cup {i}, fs.bmap, fs.node, fs.blk)
  <2>1. Fields(fs, fs.imap, fs.bmap, fs.node, fs.blk)
    BY DEF Fields
  <2>. QED
    BY <1>1, <2>1, WriteFields
<1>. HIDE DEF x
<1>4. Fields(Result(Written(fs, x), DataWrites(fs, nd)), fs.imap \cup {i}, fs.bmap \cup B,
             fs.node, K)
  <2>. DEFINE I == fs.imap \cup {i}
              mid == Written(fs, x)
  <2>. HIDE DEF I, mid
  <2>1. Fields(mid, I, fs.bmap, fs.node, fs.blk)
    BY <1>3 DEF I, mid
  <2>2. Fields(Result(mid, DataWrites(fs, nd)), I, fs.bmap \cup NewBlocks(fs, nd), fs.node,
               DataCopied(fs, nd).blk)
    BY <2>1, DataResult
  <2>. QED
    BY <2>2, Zenon DEF I, mid, B, K, gs
<1>5. Result(fs, <<x>> \o DataWrites(fs, nd)) = Result(Written(fs, x), DataWrites(fs, nd))
  <2>1. <<x>> \in Seq(W)
    BY <1>2, ShortSeqs, EmptySeq
  <2>2. Result(fs, <<x>> \o DataWrites(fs, nd)) = Result(Result(fs, <<x>>), DataWrites(fs, nd))
    <3>. DEFINE p == <<x>>
                q == DataWrites(fs, nd)
    <3>. HIDE DEF p, q
    <3>1. p \in Seq(W) /\ q \in Seq(W)
      BY <1>2, <2>1 DEF p, q
    <3>2. Result(fs, p \o q) = Result(Result(fs, p), q)
      BY <3>1, ResultConcat
    <3>. QED
      BY <3>2, Zenon DEF p, q
  <2>. QED
    BY <2>2, ResultOfOne, Zenon
<1>6. Result(fs, <<x>> \o DataWrites(fs, nd)) = gs
  BY <1>1, <1>4, <1>5, FieldsEqual
<1>7. <<x>> \o DataWrites(fs, nd) \in Seq(W)
  <2>1. <<x>> \in Seq(W)
    BY <1>2, ShortSeqs, EmptySeq
  <2>. QED
    BY <1>2, <2>1, ShortSeqs
<1>. QED
  BY <1>1, <1>6, <1>7 DEF i, B, W, gs, K, x

\* Cleaning up clears the bits that the copy set.
LEMMA BackResult ==
  ASSUME NEW fs \in Image, NEW nd \in NodeType, FreeInodes(fs) # {}, NEW gs, NEW N, NEW K,
         Fields(gs, fs.imap \cup {allocate_node(fs)}, fs.bmap \cup NewBlocks(fs, nd), N, K)
  PROVE  Fields(Result(gs, BitsBack(fs, nd)), fs.imap, fs.bmap, N, K)
<1>. DEFINE i  == allocate_node(fs)
            B  == NewBlocks(fs, nd)
            cs == Targets(fs, nd)
            L  == Len(cs)
            f  == [j \in DOMAIN cs |-> cs[j].to]
            x  == InodeBit(i, FALSE)
            V  == Within({}, Blocks, {}, {})
<1>1. /\ L \in Nat /\ DOMAIN cs = 1 .. L
      /\ \A j \in 1 .. L : cs[j].to \in Blocks
      /\ {cs[j].to : j \in 1 .. L} = B
  BY TargetList
<1>2. i \in FreeInodes(fs) /\ i \in Inodes /\ B \in SUBSET FreeBlocks(fs)
  BY CopiedResult
<1>3. BitsBack(fs, nd) = <<x>> \o [j \in DOMAIN cs |-> BlockBit(cs[j].to, FALSE)]
  BY DEF BitsBack
<1>. HIDE DEF cs, L, i, B
<1>4. f \in Seq(Blocks) /\ Len(f) = L /\ \A j \in 1 .. L : f[j] = cs[j].to
  <2>1. f \in [1 .. L -> Blocks]
    BY <1>1
  <2>. QED
    BY <1>1, <2>1, FunctionIsSeq
<1>5. [j \in DOMAIN cs |-> BlockBit(cs[j].to, FALSE)] = Cleared(f)
  BY <1>1, <1>4 DEF Cleared
<1>6. {f[j] : j \in 1 .. Len(f)} = B
  BY <1>1, <1>4
<1>. HIDE DEF f
<1>7. Fields(Written(gs, x), (fs.imap \cup {i}) \ {i}, fs.bmap \cup B, N, K)
  <2>. DEFINE I == fs.imap \cup {i}
              M == fs.bmap \cup B
  <2>1. Fields(gs, I, M, N, K)
    BY DEF i, B
  <2>. HIDE DEF I, M
  <2>2. Fields(Written(gs, InodeBit(i, FALSE)), I \ {i}, M, N, K)
    BY <1>2, <2>1, WriteFields
  <2>. QED
    BY <2>2, Zenon DEF I, M, x
<1>. HIDE DEF x
<1>8. Fields(Result(Written(gs, x), Cleared(f)), (fs.imap \cup {i}) \ {i}, (fs.bmap \cup B) \ B,
             N, K)
  <2>. DEFINE I == (fs.imap \cup {i}) \ {i}
              M == fs.bmap \cup B
              mid == Written(gs, x)
  <2>. HIDE DEF I, M, mid
  <2>1. Fields(mid, I, M, N, K)
    BY <1>7, Zenon DEF I, M, mid
  <2>2. Fields(Result(mid, Cleared(f)), I, M \ {f[j] : j \in 1 .. Len(f)}, N, K)
    BY <1>4, <2>1, ClearedResult
  <2>. QED
    BY <1>6, <2>2, Zenon DEF I, M, mid
<1>9. (fs.imap \cup {i}) \ {i} = fs.imap /\ (fs.bmap \cup B) \ B = fs.bmap
  BY <1>2 DEF FreeInodes, FreeBlocks
<1>10. Result(gs, <<x>> \o Cleared(f)) = Result(Written(gs, x), Cleared(f))
  <2>. DEFINE W == V \cup {x}
  <2>1. Cleared(f) \in Seq(W) /\ x \in W
    <3>1. Cleared(f) \in Seq(V)
      BY <1>4, ClearedSeq
    <3>2. Cleared(f) \in Seq(V \cup {x})
      <4>. HIDE DEF V
      <4>. QED
        BY <3>1, SeqGrows
    <3>. QED
      BY <3>2
  <2>. HIDE DEF W
  <2>2. <<x>> \in Seq(W)
    BY <2>1, ShortSeqs, EmptySeq
  <2>3. Result(gs, <<x>> \o Cleared(f)) = Result(Result(gs, <<x>>), Cleared(f))
    <3>. DEFINE p == <<x>>
                q == Cleared(f)
    <3>. HIDE DEF p, q
    <3>1. p \in Seq(W) /\ q \in Seq(W)
      BY <2>1, <2>2 DEF p, q
    <3>2. Result(gs, p \o q) = Result(Result(gs, p), q)
      BY <3>1, ResultConcat
    <3>. QED
      BY <3>2, Zenon DEF p, q
  <2>4. Result(gs, <<x>>) = Written(gs, x)
    BY ResultOfOne
  <2>. QED
    BY <2>3, <2>4, Zenon
<1>11. Result(gs, BitsBack(fs, nd)) = Result(Written(gs, x), Cleared(f))
  <2>1. BitsBack(fs, nd) = <<x>> \o Cleared(f)
    BY <1>3, <1>5, Zenon
  <2>. QED
    BY <1>10, <2>1, Zenon
<1>12. Fields(Result(Written(gs, x), Cleared(f)), fs.imap, fs.bmap, N, K)
  BY <1>8, <1>9, Zenon
<1>. QED
  BY <1>11, <1>12, Zenon

\* The copy and its inode.
LEMMA SyncedResult ==
  ASSUME NEW fs \in Image, NEW nd \in NodeType, FreeInodes(fs) # {},
         PlacedBlocks(fs, nd) = CopiedBlocks(nd)
  PROVE  LET i      == allocate_node(fs)
             copied == <<InodeBit(i, TRUE)>> \o DataWrites(fs, nd)
             synced == copied \o NodeWrites(fs, i, CopyNode(fs, nd))
             gs     == sync_node(DataCopied(fs, nd), i, CopyNode(fs, nd))
         IN  /\ synced \in Seq(CopyWrites(fs, nd))
             /\ Result(fs, synced) = gs
             /\ Fields(gs, fs.imap \cup {i}, fs.bmap \cup NewBlocks(fs, nd), gs.node,
                       DataCopied(fs, nd).blk)
<1>. DEFINE i  == allocate_node(fs)
            B  == NewBlocks(fs, nd)
            W  == CopyWrites(fs, nd)
            cn == CopyNode(fs, nd)
            mid == DataCopied(fs, nd)
            copied == <<InodeBit(i, TRUE)>> \o DataWrites(fs, nd)
            gs == sync_node(mid, i, cn)
            I  == fs.imap \cup {i}
            M  == fs.bmap \cup B
            N  == [fs.node EXCEPT ![i] = StoredPart(i, cn)]
<1>1. /\ copied \in Seq(W) /\ Result(fs, copied) = mid
      /\ i \in Inodes /\ Fields(mid, I, M, fs.node, mid.blk)
  BY CopiedResult
<1>2. cn \in NodeType
  BY CopyNodeFacts
<1>3. NodeWrites(fs, i, cn) \in Seq(W)
  <2>. HIDE DEF cn
  <2>. QED
    BY <1>1, <1>2, NodeWritesFacts DEF CopyWrites
<1>. HIDE DEF i, W, cn, mid, copied, I, M
<1>4. Result(fs, copied \o NodeWrites(fs, i, cn)) = Result(mid, NodeWrites(fs, i, cn))
  BY <1>1, <1>3, ResultConcat
<1>5. Fields(Result(mid, NodeWrites(fs, i, cn)), I, M, N, mid.blk)
  BY <1>1, <1>2, NodeResult
<1>6. Fields(gs, I, M, N, mid.blk)
  BY <1>1, <1>2, SyncFields
<1>. HIDE DEF N
<1>7. Result(fs, copied \o NodeWrites(fs, i, cn)) = gs
  BY <1>4, <1>5, <1>6, FieldsEqual
<1>. HIDE DEF gs
<1>8. Fields(gs, I, M, gs.node, mid.blk)
  BY <1>6 DEF Fields
<1>9. copied \o NodeWrites(fs, i, cn) \in Seq(W)
  BY <1>1, <1>3, TwoSeqs
<1>. QED
  BY <1>7, <1>8, <1>9 DEF i, W, cn, mid, copied, I, M, gs

\* All the writes of copy_file make the image that the call makes.
LEMMA CopyResult ==
  ASSUME NEW fs \in Image, NEW d \in Inodes, EntriesOf(fs, d) \in Seq(EntryRec),
         DirBlock(fs, d) \in fs.bmap, NEW s, Has(EntriesOf(fs, d), s), NEW t
  PROVE  Result(fs, copy_file_writes(fs, d, s, t)) = copy_file(fs, d, s, t)
<1>. DEFINE ws   == copy_file_writes(fs, d, s, t)
            code == copy_file_code(fs, d, s, t)
            nd   == Source(fs, d, s)
            i    == allocate_node(fs)
            D    == DirBlock(fs, d)
            I    == fs.imap \cup {i}
            M    == fs.bmap \cup NewBlocks(fs, nd)
            mid  == DataCopied(fs, nd)
            gs   == sync_node(mid, i, CopyNode(fs, nd))
            copied == <<InodeBit(i, TRUE)>> \o DataWrites(fs, nd)
            synced == copied \o NodeWrites(fs, i, CopyNode(fs, nd))
            back == BitsBack(fs, nd)
            last == EntryWrite(fs, d, t, i, "reg")
            W    == CopyWrites(fs, nd)
<1>1. ws = CASE code = 0  -> Append(synced, last)
             [] code = -5 -> copied \o back
             [] code = -8 -> synced \o back
             [] OTHER     -> <<>>
  BY DEF copy_file_writes
<1>2. copy_file(fs, d, s, t)
        = CASE code = 0  -> [gs EXCEPT !.blk[D] = AddEntry(@, t, i, "reg")]
            [] code = -5 -> BitsAsIn(fs, mid)
            [] code = -8 -> BitsAsIn(fs, gs)
            [] OTHER     -> fs
  BY DEF copy_file, Source
<1>3. /\ code \in {0, -5, -8} => FreeInodes(fs) # {}
      /\ code \in {0, -8} => PlacedBlocks(fs, nd) = CopiedBlocks(nd)
  BY DEF copy_file_code, Source
<1>4. nd \in NodeType
  BY SourceType
<1>5. last = Filled(D, AddEntry(fs.blk[D], t, i, "reg"))
  BY DEF EntryWrite, EntriesOf
<1>. HIDE DEF ws, code, nd, last
<1>6. code \in {0, -5, -8} =>
        /\ copied \in Seq(W) /\ Result(fs, copied) = mid
        /\ back \in Seq(W)
        /\ Fields(mid, I, M, fs.node, mid.blk)
        /\ \A b \in Blocks \ NewBlocks(fs, nd) : mid.blk[b] = fs.blk[b]
        /\ NewBlocks(fs, nd) \in SUBSET FreeBlocks(fs)
  BY <1>3, <1>4, CopiedResult, CopyWritesIn DEF CopyWrites
<1>7. code \in {0, -8} =>
        synced \in Seq(W) /\ Result(fs, synced) = gs /\ Fields(gs, I, M, gs.node, mid.blk)
  BY <1>3, <1>4, SyncedResult
<1>8. \A g, N, K : code \in {0, -5, -8} /\ Fields(g, I, M, N, K)
                     => Fields(Result(g, back), fs.imap, fs.bmap, N, K)
  BY <1>3, <1>4, BackResult
<1>. HIDE DEF i, I, M, mid, copied, synced, gs, back, W, D
<1>9. CASE code = 0
  <2>1. ws = Append(synced, last)
    BY <1>1, <1>9
  <2>2. copy_file(fs, d, s, t) = [gs EXCEPT !.blk[D] = AddEntry(@, t, i, "reg")]
    BY <1>2, <1>9
  <2>3. /\ synced \in Seq(W) /\ Result(fs, synced) = gs /\ gs \in Image /\ gs.blk = mid.blk
        /\ mid.blk[D] = fs.blk[D]
    <3>1. D \in Blocks \ NewBlocks(fs, nd)
      BY <1>6, <1>9, ImageFields DEF FreeBlocks, D
    <3>. QED
      BY <1>6, <1>7, <1>9, <3>1 DEF Fields
  <2>4. Result(fs, Append(synced, last)) = Written(gs, last)
    <3>. DEFINE V == W \cup {last}
    <3>1. synced \in Seq(V) /\ last \in V
      BY <2>3, SeqGrows
    <3>. HIDE DEF V
    <3>. QED
      BY <2>3, <3>1, ResultAppend
  <2>. DEFINE c == AddEntry(fs.blk[D], t, i, "reg")
  <2>5. Written(gs, Filled(D, c)) = [gs EXCEPT !.blk[D] = c]
    <3>. HIDE DEF c
    <3>. QED
      BY <2>3 DEF Written, Filled, Image
  <2>6. [gs EXCEPT !.blk[D] = AddEntry(@, t, i, "reg")] = [gs EXCEPT !.blk[D] = c]
    BY <2>3
  <2>. QED
    BY <1>5, <2>1, <2>2, <2>4, <2>5, <2>6, Zenon DEF ws
<1>10. CASE code = -5
  <2>0. code # 0 /\ code # -8
    BY <1>10
  <2>1. ws = copied \o back
    BY <1>1, <1>10, <2>0, Zenon
  <2>2. copy_file(fs, d, s, t) = BitsAsIn(fs, mid)
    BY <1>2, <1>10, <2>0, Zenon
  <2>3. Result(fs, copied \o back) = Result(mid, back)
    BY <1>6, <1>10, ResultConcat
  <2>4. Fields(Result(mid, back), fs.imap, fs.bmap, fs.node, mid.blk)
    BY <1>6, <1>8, <1>10
  <2>5. Fields(BitsAsIn(fs, mid), fs.imap, fs.bmap, fs.node, mid.blk)
    BY <1>6, <1>10, BitsFacts DEF Fields
  <2>6. Result(mid, back) = BitsAsIn(fs, mid)
    BY <2>4, <2>5, FieldsEqual
  <2>. QED
    BY <2>1, <2>2, <2>3, <2>6, Zenon DEF ws
<1>11. CASE code = -8
  <2>0. code # 0 /\ code # -5
    BY <1>11
  <2>1. ws = synced \o back
    BY <1>1, <1>11, <2>0, Zenon
  <2>2. copy_file(fs, d, s, t) = BitsAsIn(fs, gs)
    BY <1>2, <1>11, <2>0, Zenon
  <2>3. Result(fs, synced \o back) = Result(gs, back)
    BY <1>6, <1>7, <1>11, ResultConcat
  <2>4. Fields(Result(gs, back), fs.imap, fs.bmap, gs.node, mid.blk)
    BY <1>7, <1>8, <1>11
  <2>5. Fields(BitsAsIn(fs, gs), fs.imap, fs.bmap, gs.node, mid.blk)
    BY <1>7, <1>11, BitsFacts DEF Fields
  <2>6. Result(gs, back) = BitsAsIn(fs, gs)
    BY <2>4, <2>5, FieldsEqual
  <2>. QED
    BY <2>1, <2>2, <2>3, <2>6, Zenon DEF ws
<1>12. CASE code \notin {0, -5, -8}
  <2>1. code # 0 /\ code # -5 /\ code # -8
    BY <1>12
  <2>2. ws = <<>> /\ copy_file(fs, d, s, t) = fs
    BY <1>1, <1>2, <2>1, Zenon
  <2>. QED
    BY <2>2, ResultEmpty DEF ws
<1>. QED
  BY <1>9, <1>10, <1>11, <1>12

-----------------------------------------------------------------------------
(* The theorems. *)

LEMMA NamedAre ==
  ASSUME NEW h, Shows(disk, h, current_inode, current_working_directory)
  PROVE  /\ {l.inode : l \in Located} = h.imap
         /\ \A l, m \in Located : l.inode = m.inode => l = m
<1>1. DiskOK(h) /\ SameContent(disk, h) /\ \E P : Named(h, P)
  BY DEF Shows
<1>2. PICK P : Named(h, P)
  BY <1>1
<1>3. Located = {PlaceOf(P, i) : i \in h.imap}
  BY <1>1, <1>2, LocatedAll
<1>4. \A i : PlaceOf(P, i).inode = i
  BY DEF PlaceOf
<1>. QED
  BY <1>3, <1>4

\* Whatever the power does, the disk stands for a sound image and the path that the
\* shell shows leads to its directory (interrupt.c:252-372, 447-577, 648-714).
THEOREM DiskStandsForAnImage == PowerSpec /\ []AllStored => []PowerInv
<1>1. PowerInv /\ AllStored' /\ [PowerNext]_powerVars => PowerInv'
  BY PowerStep
<1>. QED
  BY <1>1, PowerStart, PTL DEF PowerSpec

\* A table whose blocks hold every record is all that these theorems ask for, under
\* power losses as without them (ext2.c:862-975).
THEOREM WholeTableStoresPower ==
  ASSUME StoredInodes = INODES_PER_GROUP
  PROVE  PowerSpec => []AllStored
<1>1. PowerInv /\ [PowerNext]_powerVars => PowerInv'
  BY PowerStep
<1>2. PowerInv => AllStored
  BY ImageFields DEF PowerInv, Stands, Kept, AllStored, Inodes
<1>. QED
  BY <1>1, <1>2, PowerStart, PTL DEF PowerSpec

\* However often the power goes off, every name leads to an inode of its own, no
\* two names share a block, and what a name leads to is marked as used unless its
\* removal was cut short (interrupt.c:252-372, 447-577, 648-714).
THEOREM NamesOutlivePower == PowerSpec /\ []AllStored => []NamesSurvivePower
<1>1. PowerInv => NamesSurvivePower
  <2>. SUFFICES ASSUME PowerInv
                PROVE  NamesSurvivePower
    OBVIOUS
  <2>1. PICK h : /\ Shows(disk, h, current_inode, current_working_directory)
                 /\ Stands(disk, h, torn, cuts)
    BY DEF PowerInv
  <2>2. Kept(disk, h, torn) /\ DiskOK(h) /\ \A i : BlocksOf(disk, i) = BlocksOf(h, i)
    BY <2>1, KeptFacts DEF Stands
  <2>. DEFINE named == {l.inode : l \in Located}
  <2>3. named = h.imap /\ \A l, m \in Located : l.inode = m.inode => l = m
    BY <2>1, NamedAre
  <2>4. TornInodes = TargetsOf(h, torn)
    BY <2>2, KeptFacts DEF TornInodes, TargetsOf
  <2>. HIDE DEF named
  <2>5. ASSUME NEW i \in named \ TornInodes
        PROVE  i \in disk.imap /\ BlocksOf(disk, i) \subseteq disk.bmap
    <3>1. i \in h.imap /\ i \notin TargetsOf(h, torn)
      BY <2>3, <2>4
    <3>2. BlocksOf(h, i) \subseteq h.bmap
      BY <2>2, <3>1 DEF DiskOK, Owning
    <3>3. \A j \in TargetsOf(h, torn) : j \in h.imap /\ j # i
      BY <2>2, <3>1, LeafFacts DEF Kept, TargetsOf
    <3>4. \A j \in TargetsOf(h, torn) : BlocksOf(h, i) \cap Released(h, j) = {}
      <4>. SUFFICES ASSUME NEW j \in TargetsOf(h, torn)
                    PROVE  BlocksOf(h, i) \cap Released(h, j) = {}
        OBVIOUS
      <4>1. j \in h.imap /\ j # i
        BY <3>3
      <4>2. Released(h, j) \subseteq BlocksOf(h, j)
        BY <2>2, <4>1, ReleasedAreOwn
      <4>3. BlocksOf(h, i) \cap BlocksOf(h, j) = {}
        BY <2>2, <3>1, <4>1 DEF DiskOK, Owning
      <4>. QED
        BY <4>2, <4>3
    <3>5. BlocksOf(h, i) \subseteq h.bmap \ GivenBack(h, torn)
      BY <3>2, <3>4 DEF GivenBack
    <3>. QED
      BY <2>2, <3>1, <3>5 DEF Kept
  <2>6. \A i, j \in named : i # j => BlocksOf(disk, i) \cap BlocksOf(disk, j) = {}
    BY <2>2, <2>3 DEF DiskOK, Owning
  <2>. QED
    BY <2>3, <2>5, <2>6 DEF NamesSurvivePower, named
<1>. QED
  BY <1>1, DiskStandsForAnImage, PTL

\* One power loss loses at most one inode and the direct blocks of one file, when
\* no file has an indirect table whose removal would leave blocks behind
\* (interrupt.c:252-300, 447-501, 652-657).
THEOREM LossIsBounded ==
  ASSUME ShellSize <= DIRECT
  PROVE  PowerSpec /\ []AllStored => []LossBounded
<1>1. PowerInv => LossBounded
  <2>. SUFFICES ASSUME PowerInv
                PROVE  LossBounded
    OBVIOUS
  <2>1. PICK h : /\ Shows(disk, h, current_inode, current_working_directory)
                 /\ Stands(disk, h, torn, cuts)
    BY DEF PowerInv
  <2>2. /\ disk \in Image /\ Lost(disk, h, cuts) /\ Tight(h)
        /\ \A i : BlocksOf(disk, i) = BlocksOf(h, i)
    BY <2>1, KeptFacts DEF Stands
  <2>3. NamedInodes = h.imap
    BY <2>1, NamedAre DEF NamedInodes
  <2>. DEFINE rest == disk.bmap \ UNION {BlocksOf(disk, i) : i \in NamedInodes}
  <2>4. rest \subseteq disk.bmap \ h.bmap
    BY <2>2, <2>3 DEF Tight
  <2>5. IsFiniteSet(disk.bmap \ h.bmap)
    BY <2>2, BitsFinite
  <2>6. Cardinality(rest) <= Cardinality(disk.bmap \ h.bmap) /\ IsFiniteSet(rest)
    BY <2>4, <2>5, FS_Subset
  <2>7. Cardinality(rest) \in Nat /\ Cardinality(disk.bmap \ h.bmap) \in Nat
    BY <2>5, <2>6, FS_CardinalityType
  <2>8. cuts \in Nat /\ DIRECT * cuts \in Nat /\ Cardinality(disk.bmap \ h.bmap) <= DIRECT * cuts
    BY <2>2 DEF Lost
  <2>. HIDE DEF rest
  <2>9. Cardinality(rest) <= DIRECT * cuts
    BY <2>6, <2>7, <2>8
  <2>. QED
    BY <2>2, <2>3, <2>9 DEF LossBounded, Lost, rest
<1>. QED
  BY <1>1, DiskStandsForAnImage, PTL

\* A removal that was cut short can be made again and succeeds (interrupt.c:643-657,
\* 784-824).
THEOREM RemovalsRepeat == PowerSpec /\ []AllStored => []RemovalCanBeRepeated
<1>1. PowerInv => RemovalCanBeRepeated
  BY KeptFacts DEF PowerInv, Stands, RemovalCanBeRepeated
<1>. QED
  BY <1>1, DiskStandsForAnImage, PTL

\* Seen through the names, a power loss is no more than a return to the root: the
\* commands go on implementing the tree of FileTree, a call that was cut short has
\* not happened, and no file or folder that the tree shows is lost or changed
\* (interrupt.c:252-372, 447-577, 648-714, builtin_commands.c:281-809).
THEOREM PowerLossKeepsTree == PowerSpec /\ []AllStored => ImplementsFileTree
<1>1. PowerInv /\ AllStored' /\ [PowerNext]_powerVars
        => PowerInv' /\ [FT!Next]_<<Tree, current_working_directory, buf>>
  BY PowerStep
<1>. QED
  BY <1>1, PowerStart, PTL DEF PowerSpec, ImplementsFileTree, FT!Spec, FT!vars

\* However often the power goes off, find prints where something of the name is, says
\* whether it found something unless it refuses for want of rows, and finds what lies
\* within its reach: it reads none of the bitmaps (builtin_commands.c:844-1085).
THEOREM FindOutlivesPower == PowerSpec /\ []AllStored => []FindIsRight
<1>1. PowerInv => FindIsRight
  <2>. SUFFICES ASSUME PowerInv
                PROVE  FindIsRight
    OBVIOUS
  <2>1. PICK h : Shows(disk, h, current_inode, current_working_directory)
    BY DEF PowerInv
  <2>2. PICK P : Named(h, P)
    BY <2>1 DEF Shows
  <2>3. DiskOK(h) /\ SameContent(disk, h)
    BY <2>1 DEF Shows
  <2>. QED
    BY <2>2, <2>3, FindInSound
<1>. QED
  BY <1>1, DiskStandsForAnImage, PTL

\* A call that is not cut short is what its writes make, failures and their
\* cleaning up included, in every state that the calls and the power losses before
\* it can have left (interrupt.c:252-372, 447-577, 648-714).
THEOREM WritesMakeTheCalls == PowerSpec /\ []AllStored => []WritesMakeTheCall
<1>1. PowerInv => WritesMakeTheCall
  <2>. SUFFICES ASSUME PowerInv, Careful
                PROVE  WritesMakeTheCall
    BY DEF WritesMakeTheCall
  <2>. DEFINE d == current_inode
  <2>1. PICK h : /\ Shows(disk, h, current_inode, current_working_directory)
                 /\ Stands(disk, h, torn, cuts)
    BY DEF PowerInv
  <2>2. Holds(disk, h) /\ disk \in Image /\ d \in DirsOf(h) /\ DiskOK(h)
    BY <2>1, KeptIsHeld DEF Careful, Stands, Shows, Holds
  <2>3. /\ d \in Inodes /\ EntriesOf(disk, d) \in Seq(EntryRec)
        /\ DirBlock(disk, d) \in disk.bmap /\ DirBlock(disk, d) \in Blocks
    <3>1. /\ d \in h.imap /\ d \in Inodes /\ DirBlock(h, d) \in h.bmap
          /\ EntriesOf(h, d) \in Seq(EntryRec)
      BY <2>2, DirFacts, ImageFields DEF DirsOf, DiskOK, TableOK
    <3>2. EntriesOf(disk, d) = EntriesOf(h, d) /\ DirBlock(disk, d) = DirBlock(h, d)
      BY <2>2 DEF Holds, EntriesOf, DirBlock
    <3>. QED
      BY <2>2, <3>1, <3>2, ImageFields DEF Holds
  <2>4. \A ws : ImageAfter(disk, ws, Len(ws)) = Result(disk, ws)
    BY DEF Result
  <2>5. ASSUME NEW n \in Names
        PROVE  Result(disk, create_directory_writes(disk, d, n)) = create_directory(disk, d, n)
    BY <2>2, <2>3, MkdirResult
  <2>6. ASSUME NEW s \in UserNames, NEW t \in Names, Has(EntriesOf(disk, d), s)
        PROVE  Result(disk, copy_file_writes(disk, d, s, t)) = copy_file(disk, d, s, t)
    BY <2>2, <2>3, <2>6, CopyResult
  <2>7. ASSUME NEW n \in UserNames, rm_writes(disk, d, n) # <<>>
        PROVE  Result(disk, rm_writes(disk, d, n)) = EntryDeleted(disk, d, n)
    <3>1. Has(EntriesOf(disk, d), n)
      BY <2>7 DEF rm_writes, ShellSees
    <3>2. ShellTarget(disk, d, n) \in Inodes
      BY <2>2, <2>3, <3>1, SourceType
    <3>. QED
      BY <2>2, <2>3, <2>7, <3>2, RmResult
  <2>. HIDE DEF d
  <2>. QED
    BY <2>4, <2>5, <2>6, <2>7 DEF WritesMakeTheCall, d
<1>. QED
  BY <1>1, DiskStandsForAnImage, PTL
=============================================================================
