--------------------------- MODULE Ext2Tree_proofs --------------------------
(***************************************************************************)
(* The file commands implement the tree of names of FileTree.  The image is  *)
(* sound (Ext2_proofs), so that every live inode has one path; the tree is    *)
(* the set of those paths, each with its node, and every command changes one *)
(* of them or none.  What find comes to is one of these paths, too.          *)
(***************************************************************************)
EXTENDS Ext2Tree, Ext2_proofs

USE Ext2Assumption

-----------------------------------------------------------------------------
\* P gives every live inode of fs the path that leads to it, and no two the same.
Named(fs, P) ==
  /\ P \in [fs.imap -> Seq(UserNames)]
  /\ P[Root] = <<>>
  /\ \A d, e, i : Listed(fs, d, e, i) => P[i] = Append(P[d], e.name)
  /\ \A i, j \in fs.imap : P[i] = P[j] => i = j

NodeIn(fs, p, i) ==
  [path    |-> p,
   mode    |-> fs.node[i].mode,
   content |-> IF IsDirectory(fs, i) THEN Zero ELSE ContentOf(fs, i)]

NodesOf(fs, P) == {NodeIn(fs, P[i], i) : i \in fs.imap}

PlaceOf(P, i) == [path |-> P[i], inode |-> i]

RootPlace == [path |-> <<>>, inode |-> Root]

\* fs says in its inode table and its blocks what h says; their bitmaps may differ.
SameContent(fs, h) == fs.node = h.node /\ fs.blk = h.blk

LEMMA ContentFacts ==
  ASSUME NEW fs, NEW h, SameContent(fs, h)
  PROVE  \A i : /\ IsDirectory(fs, i) <=> IsDirectory(h, i)
                /\ DirBlock(fs, i) = DirBlock(h, i)
                /\ EntriesOf(fs, i) = EntriesOf(h, i)
                /\ ChildrenOf(fs, i) = ChildrenOf(h, i)
                /\ ContentOf(fs, i) = ContentOf(h, i)
                /\ \A n : ShellTarget(fs, i, n) = ShellTarget(h, i, n)
<1>1. \A i : /\ IsDirectory(fs, i) <=> IsDirectory(h, i)
             /\ DirBlock(fs, i) = DirBlock(h, i)
             /\ EntriesOf(fs, i) = EntriesOf(h, i)
  BY DEF SameContent, IsDirectory, DirBlock, EntriesOf
<1>2. \A i : /\ ChildrenOf(fs, i) = ChildrenOf(h, i)
             /\ \A n : ShellTarget(fs, i, n) = ShellTarget(h, i, n)
  BY <1>1 DEF ChildrenOf, ShellTarget
<1>3. \A nd, k : get_physical_block_from_logical(fs, nd, k)
                   = get_physical_block_from_logical(h, nd, k)
  BY DEF SameContent, get_physical_block_from_logical
<1>4. \A i : ContentOf(fs, i) = ContentOf(h, i)
  BY <1>3 DEF SameContent, ContentOf
<1>. QED
  BY <1>1, <1>2, <1>4

-----------------------------------------------------------------------------
(* What the search of the tree comes to: the place of every live inode. *)

IsBelow(B) ==
  B = [k \in 0 .. INODES_PER_GROUP |->
         [l \in Place |->
            {l} \cup IF k = 0 THEN {} ELSE UNION {B[k - 1][m] : m \in PlacesIn(l)}]]

LocatedBelow == CHOOSE B : IsBelow(B)

LEMMA LocatedIs == Located = LocatedBelow[INODES_PER_GROUP][RootPlace]
BY Zenon DEF Located, LocatedBelow, IsBelow, RootPlace

LEMMA BelowExists == IsBelow(LocatedBelow)
<1>. SUFFICES \E B : IsBelow(B)
  BY DEF LocatedBelow
<1>. DEFINE Deep(F) == [l \in Place |-> {l} \cup UNION {F[m] : m \in PlacesIn(l)}]
            Flat == [l \in Place |-> {l} \cup {}]
            UpTo(m, f) == f = [k \in 0 .. m |-> IF k = 0 THEN Flat ELSE Deep(f[k - 1])]
            S == {m \in Nat : \E f : UpTo(m, f)}
<1>. HIDE DEF Deep, Flat
<1>1. 0 \in S
  <2>. DEFINE f == [k \in 0 .. 0 |-> Flat]
  <2>1. UpTo(0, f)
    OBVIOUS
  <2>. QED
    BY <2>1
<1>2. ASSUME NEW m \in Nat, m \in S
      PROVE  m + 1 \in S
  <2>1. PICK g : UpTo(m, g)
    BY <1>2
  <2>. DEFINE f == [k \in 0 .. m + 1 |-> IF k = m + 1 THEN Deep(g[m]) ELSE g[k]]
  <2>2. \A k \in 0 .. m : g[k] = IF k = 0 THEN Flat ELSE Deep(g[k - 1])
    BY <2>1
  <2>. HIDE DEF UpTo
  <2>3. ASSUME NEW k \in 0 .. m + 1
        PROVE  f[k] = IF k = 0 THEN Flat ELSE Deep(f[k - 1])
    <3>1. CASE k = 0
      BY <2>2, <3>1
    <3>2. CASE k \in 1 .. m
      <4>1. k \in 0 .. m /\ k - 1 \in 0 .. m + 1 /\ k # m + 1 /\ k - 1 # m + 1 /\ k # 0
        BY <3>2
      <4>. QED
        BY <2>2, <4>1
    <3>3. CASE k = m + 1
      <4>1. k - 1 = m /\ m \in 0 .. m + 1 /\ m # m + 1 /\ k # 0
        BY <3>3
      <4>. QED
        BY <3>3, <4>1
    <3>. QED
      BY <3>1, <3>2, <3>3
  <2>4. f = [k \in 0 .. m + 1 |-> IF k = 0 THEN Flat ELSE Deep(f[k - 1])]
    BY <2>3
  <2>5. UpTo(m + 1, f)
    BY <2>4 DEF UpTo
  <2>. QED
    BY <2>5
<1>. HIDE DEF S
<1>3. INODES_PER_GROUP \in S
  <2>1. \A k \in 0 .. INODES_PER_GROUP - 1 : k \in S => k + 1 \in S
    BY <1>2
  <2>2. \A k \in 0 .. INODES_PER_GROUP : k \in S
    BY <1>1, <2>1, InductionUpTo
  <2>. QED
    BY <2>2
<1>4. PICK f : f = [k \in 0 .. INODES_PER_GROUP |-> IF k = 0 THEN Flat ELSE Deep(f[k - 1])]
  BY <1>3 DEF S
<1>5. ASSUME NEW k \in 0 .. INODES_PER_GROUP
      PROVE  (IF k = 0 THEN Flat ELSE Deep(f[k - 1]))
               = [l \in Place |->
                    {l} \cup IF k = 0 THEN {} ELSE UNION {f[k - 1][m] : m \in PlacesIn(l)}]
  BY DEF Flat, Deep
<1>6. f = [k \in 0 .. INODES_PER_GROUP |->
             [l \in Place |->
                {l} \cup IF k = 0 THEN {} ELSE UNION {f[k - 1][m] : m \in PlacesIn(l)}]]
  BY <1>4, <1>5
<1>. QED
  BY <1>6 DEF IsBelow

LEMMA BelowSteps ==
  /\ \A l \in Place : LocatedBelow[0][l] = {l}
  /\ \A k \in 0 .. INODES_PER_GROUP - 1 : \A l \in Place :
       LocatedBelow[k + 1][l] = {l} \cup UNION {LocatedBelow[k][m] : m \in PlacesIn(l)}
<1>. DEFINE B == LocatedBelow
<1>1. \A k \in 0 .. INODES_PER_GROUP : \A l \in Place :
        B[k][l] = {l} \cup IF k = 0 THEN {} ELSE UNION {B[k - 1][m] : m \in PlacesIn(l)}
  <2>. DEFINE Row(F, k) == [l \in Place |->
                             {l} \cup IF k = 0 THEN {} ELSE UNION {F[k - 1][m] : m \in PlacesIn(l)}]
  <2>1. B = [k \in 0 .. INODES_PER_GROUP |-> Row(B, k)]
    <3>1. IsBelow(B)
      BY BelowExists
    <3>. QED
      BY <3>1, Zenon DEF IsBelow
  <2>2. \A k \in 0 .. INODES_PER_GROUP : B[k] = Row(B, k)
    <3>. HIDE DEF Row, B
    <3>. QED
      BY <2>1
  <2>3. ASSUME NEW k \in 0 .. INODES_PER_GROUP, NEW l \in Place
        PROVE  B[k][l]
                 = {l} \cup IF k = 0 THEN {} ELSE UNION {B[k - 1][m] : m \in PlacesIn(l)}
    <3>1. B[k] = Row(B, k)
      BY <2>2
    <3>. HIDE DEF B
    <3>2. Row(B, k)[l]
            = {l} \cup IF k = 0 THEN {} ELSE UNION {B[k - 1][m] : m \in PlacesIn(l)}
      OBVIOUS
    <3>. HIDE DEF Row
    <3>. QED
      BY <3>1, <3>2, Zenon
  <2>. QED
    BY <2>3
<1>2. \A k \in 0 .. INODES_PER_GROUP - 1 :
        k + 1 \in 0 .. INODES_PER_GROUP /\ k + 1 # 0 /\ (k + 1) - 1 = k
  OBVIOUS
<1>. HIDE DEF B
<1>3. 0 \in 0 .. INODES_PER_GROUP
  OBVIOUS
<1>. QED
  BY <1>1, <1>2, <1>3 DEF B

\* The names in the place of a live inode lead to the places of what it lists.
LEMMA PlacesOfLive ==
  ASSUME NEW h, DiskOK(h), SameContent(disk, h), NEW P, Named(h, P)
  PROVE  /\ \A i \in h.imap : PlaceOf(P, i) \in Place
         /\ PlaceOf(P, Root) = RootPlace /\ Root \in h.imap
         /\ \A i \in h.imap : \A m : m \in PlacesIn(PlaceOf(P, i))
              <=> \E e, j : Listed(h, i, e, j) /\ m = PlaceOf(P, j)
         /\ \A i, e, j : Listed(h, i, e, j) => i \in h.imap /\ j \in h.imap \ {Root, i}
<1>1. h.imap \in SUBSET Inodes /\ Root \in h.imap
  BY ImageFields DEF DiskOK, DirsOf
<1>2. \A i \in h.imap : PlaceOf(P, i) \in Place
  BY <1>1 DEF PlaceOf, Place, Named
<1>3. ASSUME NEW i \in h.imap, NEW m
      PROVE  m \in PlacesIn(PlaceOf(P, i))
               <=> \E e, j : Listed(h, i, e, j) /\ m = PlaceOf(P, j)
  <2>1. /\ IsDirectory(disk, i) <=> i \in DirsOf(h)
        /\ ChildrenOf(disk, i) = ChildrenOf(h, i)
    BY ContentFacts DEF DirsOf
  <2>2. m \in PlacesIn(PlaceOf(P, i))
          <=> \E e : Listed(h, i, e, e.inode)
                       /\ m = [path |-> Append(P[i], e.name), inode |-> e.inode]
    BY <2>1 DEF PlacesIn, PlaceOf, Listed
  <2>3. \A e : Listed(h, i, e, e.inode)
          => [path |-> Append(P[i], e.name), inode |-> e.inode] = PlaceOf(P, e.inode)
    BY DEF Named, PlaceOf
  <2>4. \A e, j : Listed(h, i, e, j) => j = e.inode
    BY DEF Listed
  <2>. QED
    BY <2>2, <2>3, <2>4
<1>4. PlaceOf(P, Root) = RootPlace
  BY DEF PlaceOf, RootPlace, Named
<1>5. \A i, e, j : Listed(h, i, e, j) => i \in h.imap /\ j \in h.imap \ {Root, i}
  BY DEF Listed, DiskOK, Naming, DirsOf
<1>. QED
  BY <1>1, <1>2, <1>3, <1>4, <1>5

\* One more level brings the names of whatever was found.
LEMMA BelowGoesOn ==
  ASSUME NEW h, DiskOK(h), SameContent(disk, h), NEW P, Named(h, P)
  PROVE  \A k \in 0 .. INODES_PER_GROUP - 1 : \A i \in h.imap :
           \A m \in LocatedBelow[k][PlaceOf(P, i)] :
             {m} \cup PlacesIn(m) \subseteq LocatedBelow[k + 1][PlaceOf(P, i)]
<1>. DEFINE B == LocatedBelow
            N == INODES_PER_GROUP - 1
            S == {k \in 0 .. N : \A i \in h.imap : \A m \in B[k][PlaceOf(P, i)] :
                    {m} \cup PlacesIn(m) \subseteq B[k + 1][PlaceOf(P, i)]}
<1>1. /\ \A i \in h.imap : B[0][PlaceOf(P, i)] = {PlaceOf(P, i)}
      /\ \A k \in 0 .. N : \A i \in h.imap :
           B[k + 1][PlaceOf(P, i)]
             = {PlaceOf(P, i)} \cup UNION {B[k][m] : m \in PlacesIn(PlaceOf(P, i))}
  BY BelowSteps, PlacesOfLive
<1>2. N \in Nat
  OBVIOUS
<1>3. \A i \in h.imap : \A m \in PlacesIn(PlaceOf(P, i)) :
        \E j \in h.imap : m = PlaceOf(P, j)
  BY PlacesOfLive
<1>4. \A k \in 0 .. N : \A i \in h.imap : PlaceOf(P, i) \in B[k + 1][PlaceOf(P, i)]
  BY <1>1
<1>. HIDE DEF B, N
<1>5. 0 \in S
  <2>1. 0 \in 0 .. N /\ 0 + 1 = 1
    BY <1>2
  <2>2. ASSUME NEW i \in h.imap, NEW m \in B[0][PlaceOf(P, i)]
        PROVE  {m} \cup PlacesIn(m) \subseteq B[1][PlaceOf(P, i)]
    <3>1. m = PlaceOf(P, i)
      BY <1>1
    <3>2. B[1][m] = {m} \cup UNION {B[0][l] : l \in PlacesIn(m)}
      BY <1>1, <2>1, <3>1
    <3>3. \A l \in PlacesIn(m) : B[0][l] = {l}
      BY <1>1, <1>3, <3>1
    <3>. QED
      BY <3>1, <3>2, <3>3
  <2>. QED
    BY <2>1, <2>2
<1>6. ASSUME NEW k \in 0 .. N - 1, k \in S
      PROVE  k + 1 \in S
  <2>1. k \in 0 .. N /\ k + 1 \in 0 .. N
    BY <1>2
  <2>2. ASSUME NEW i \in h.imap, NEW m \in B[k + 1][PlaceOf(P, i)]
        PROVE  {m} \cup PlacesIn(m) \subseteq B[k + 1 + 1][PlaceOf(P, i)]
    <3>. DEFINE l == PlaceOf(P, i)
    <3>1. /\ B[k + 1][l] = {l} \cup UNION {B[k][x] : x \in PlacesIn(l)}
          /\ B[k + 1 + 1][l] = {l} \cup UNION {B[k + 1][x] : x \in PlacesIn(l)}
      BY <1>1, <2>1
    <3>2. CASE m = l
      <4>1. \A x \in PlacesIn(l) : x \in B[k + 1][x]
        BY <1>3, <1>4, <2>1
      <4>. QED
        BY <3>1, <3>2, <4>1
    <3>3. CASE m # l
      <4>1. PICK x \in PlacesIn(l) : m \in B[k][x]
        BY <3>1, <3>3
      <4>2. PICK j \in h.imap : x = PlaceOf(P, j)
        BY <1>3
      <4>3. {m} \cup PlacesIn(m) \subseteq B[k + 1][x]
        BY <1>6, <4>1, <4>2
      <4>. QED
        BY <3>1, <4>1, <4>3
    <3>. QED
      BY <3>2, <3>3
  <2>. QED
    BY <2>1, <2>2
<1>. HIDE DEF S
<1>7. \A k \in 0 .. N : k \in S
  BY <1>2, <1>5, <1>6, InductionUpTo
<1>. QED
  BY <1>7 DEF S, B, N

LEMMA LocatedAll ==
  ASSUME NEW h, DiskOK(h), SameContent(disk, h), NEW P, Named(h, P)
  PROVE  Located = {PlaceOf(P, i) : i \in h.imap}
<1>. DEFINE B == LocatedBelow
            N == INODES_PER_GROUP
            W == Levels(h)
            All == {PlaceOf(P, i) : i \in h.imap}
            S == {k \in 0 .. N : \A i \in h.imap : B[k][PlaceOf(P, i)] \subseteq All}
            T == {k \in 0 .. N : \A i \in W[k] : PlaceOf(P, i) \in B[k][RootPlace]}
<1>1. /\ \A i \in h.imap : B[0][PlaceOf(P, i)] = {PlaceOf(P, i)}
      /\ \A k \in 0 .. N - 1 : \A i \in h.imap :
           B[k + 1][PlaceOf(P, i)]
             = {PlaceOf(P, i)} \cup UNION {B[k][m] : m \in PlacesIn(PlaceOf(P, i))}
  BY BelowSteps, PlacesOfLive
<1>2. \A i \in h.imap : \A m \in PlacesIn(PlaceOf(P, i)) :
        \E j \in h.imap : m = PlaceOf(P, j)
  BY PlacesOfLive
<1>3. /\ W[0] = {Root}
      /\ \A k \in 0 .. N - 1 : W[k + 1] = Deeper(h, W[k])
      /\ \A k \in 0 .. N : W[k] \subseteq h.imap
      /\ h.imap = W[N]
  BY LevelsExist, LevelSteps, LevelsAreLive, LevelsReachAll
<1>4. N \in Nat /\ 0 \in 0 .. N /\ N \in 0 .. N
      /\ \A k \in 0 .. N - 1 : k \in 0 .. N /\ k + 1 \in 0 .. N
  OBVIOUS
<1>5. PlaceOf(P, Root) = RootPlace /\ Root \in h.imap
  BY PlacesOfLive
<1>6. \A k \in 0 .. N - 1 : \A m \in B[k][RootPlace] : {m} \cup PlacesIn(m) \subseteq B[k + 1][RootPlace]
  BY <1>5, BelowGoesOn
<1>. HIDE DEF B, N, W
<1>7. \A k \in 0 .. N : k \in S
  <2>1. 0 \in S
    BY <1>1, <1>4
  <2>2. ASSUME NEW k \in 0 .. N - 1, k \in S
        PROVE  k + 1 \in S
    BY <1>1, <1>2, <1>4, <2>2
  <2>. HIDE DEF S
  <2>. QED
    BY <1>4, <2>1, <2>2, InductionUpTo
<1>8. \A k \in 0 .. N : k \in T
  <2>1. 0 \in T
    BY <1>1, <1>3, <1>4, <1>5
  <2>2. ASSUME NEW k \in 0 .. N - 1, k \in T
        PROVE  k + 1 \in T
    <3>1. ASSUME NEW j \in W[k + 1]
          PROVE  PlaceOf(P, j) \in B[k + 1][RootPlace]
      <4>1. CASE j \in W[k]
        BY <1>4, <1>6, <2>2, <4>1
      <4>2. CASE j \notin W[k]
        <5>1. PICK d \in W[k] \cap DirsOf(h) : \E e \in ChildrenOf(h, d) : e.inode = j
          BY <1>3, <3>1, <4>2, DeeperIs
        <5>2. d \in h.imap /\ \E e : Listed(h, d, e, j)
          BY <5>1 DEF Listed, DirsOf
        <5>3. PlaceOf(P, j) \in PlacesIn(PlaceOf(P, d))
          BY <5>2, PlacesOfLive
        <5>4. PlaceOf(P, d) \in B[k][RootPlace]
          BY <1>4, <2>2, <5>1
        <5>. QED
          BY <1>6, <5>3, <5>4
      <4>. QED
        BY <4>1, <4>2
    <3>. QED
      BY <1>4, <3>1
  <2>. HIDE DEF T
  <2>. QED
    BY <1>4, <2>1, <2>2, InductionUpTo
<1>9. Located = B[N][RootPlace]
  BY LocatedIs DEF B, N
<1>10. Located \subseteq All
  BY <1>4, <1>5, <1>7, <1>9
<1>11. All \subseteq Located
  BY <1>3, <1>4, <1>8, <1>9
<1>. QED
  BY <1>10, <1>11

\* The tree that the image stands for.
LEMMA TreeIs ==
  \A h, P : DiskOK(h) /\ SameContent(disk, h) /\ Named(h, P) => Tree = NodesOf(h, P)
<1>. SUFFICES ASSUME NEW h, DiskOK(h), SameContent(disk, h), NEW P, Named(h, P)
              PROVE  Tree = NodesOf(h, P)
  OBVIOUS
<1>1. Tree = {NodeAt(l.path, l.inode) : l \in {PlaceOf(P, i) : i \in h.imap}}
  BY LocatedAll DEF Tree
<1>2. \A i : NodeAt(PlaceOf(P, i).path, PlaceOf(P, i).inode) = NodeIn(h, P[i], i)
  BY ContentFacts DEF NodeAt, NodeIn, PlaceOf, SameContent
<1>. QED
  BY <1>1, <1>2 DEF NodesOf

LEMMA TreeIsNext ==
  \A h, P : DiskOK(h) /\ SameContent(disk', h) /\ Named(h, P) => Tree' = NodesOf(h, P)
<1>1. (\A h, P : DiskOK(h) /\ SameContent(disk, h) /\ Named(h, P) => Tree = NodesOf(h, P))'
  BY TreeIs, PTL
<1>. QED
  BY <1>1

-----------------------------------------------------------------------------
(* Paths. *)

LEMMA AppendApart ==
  ASSUME NEW S, NEW p \in Seq(S), NEW q \in Seq(S), NEW x \in S, NEW y \in S
  PROVE  /\ Append(p, x) \in Seq(S) /\ Append(p, x) # <<>>
         /\ Append(p, x) = Append(q, y) => p = q /\ x = y
<1>1. /\ Append(p, x) \in Seq(S) /\ Len(Append(p, x)) = Len(p) + 1
      /\ Append(p, x)[Len(p) + 1] = x
      /\ \A k \in 1 .. Len(p) : Append(p, x)[k] = p[k]
  BY AppendFacts
<1>2. /\ Append(q, y) \in Seq(S) /\ Len(Append(q, y)) = Len(q) + 1
      /\ Append(q, y)[Len(q) + 1] = y
      /\ \A k \in 1 .. Len(q) : Append(q, y)[k] = q[k]
  BY AppendFacts
<1>3. Len(p) \in Nat /\ Len(q) \in Nat
  OBVIOUS
<1>4. Append(p, x) # <<>>
  BY <1>1, <1>3, EmptySeq
<1>5. ASSUME Append(p, x) = Append(q, y)
      PROVE  p = q /\ x = y
  <2>1. Len(p) = Len(q) /\ x = y
    BY <1>1, <1>2, <1>3, <1>5
  <2>2. \A k \in 1 .. Len(p) : p[k] = q[k]
    BY <1>1, <1>2, <1>5, <2>1
  <2>. QED
    BY <2>1, <2>2, SeqEqual
<1>. QED
  BY <1>1, <1>4, <1>5

LEMMA FrontOfAppend ==
  ASSUME NEW S, NEW p \in Seq(S), NEW x \in S
  PROVE  SubSeq(Append(p, x), 1, Len(Append(p, x)) - 1) = p
<1>. DEFINE s == Append(p, x)
<1>1. /\ s \in Seq(S) /\ Len(s) = Len(p) + 1 /\ Len(p) \in Nat
      /\ \A k \in 1 .. Len(p) : s[k] = p[k]
  BY AppendFacts
<1>. HIDE DEF s
<1>2. SubSeq(s, 1, Len(p)) = [k \in 1 .. Len(p) |-> s[k]]
  BY <1>1
<1>3. p = [k \in 1 .. Len(p) |-> p[k]]
  OBVIOUS
<1>4. Len(s) - 1 = Len(p)
  BY <1>1
<1>. QED
  BY <1>1, <1>2, <1>3, <1>4 DEF s

-----------------------------------------------------------------------------
(* How a change of one name changes the tree. *)

LEMMA ListedFacts ==
  ASSUME NEW fs, DiskOK(fs), NEW d, NEW e, NEW i, Listed(fs, d, e, i)
  PROVE  /\ d \in fs.imap /\ d \in DirsOf(fs) /\ i \in fs.imap /\ i # Root /\ i # d
         /\ fs.node[i].mode = e.type
         /\ e.name \in UserNames
<1>1. /\ d \in fs.imap /\ d \in DirsOf(fs) /\ i \in fs.imap /\ i # Root /\ i # d
      /\ fs.node[i].mode = e.type
  BY DEF Listed, DiskOK, Naming, DirsOf
<1>2. EntriesOf(fs, d) \in Seq(EntryRec)
  BY <1>1, DirFacts DEF TableOK
<1>3. e \in EntryRec /\ e.name \notin {Dot, DotDot}
  BY <1>2, ElementOfSeq DEF Listed, ChildrenOf
<1>. QED
  BY <1>1, <1>3, EntryFields

LEMMA ListedOnce ==
  ASSUME NEW fs, DiskOK(fs), NEW c, NEW d, NEW e, NEW f, NEW i,
         Listed(fs, c, e, i), Listed(fs, d, f, i)
  PROVE  c = d /\ e = f
BY DEF DiskOK, Naming

\* A live inode that stays has the node that it had, and the names that a command
\* does not change stay.
LEMMA FrameNodes ==
  ASSUME NEW fs, DiskOK(fs), NEW gs, NEW d \in DirsOf(fs), NEW n, Frame(fs, gs, d, n)
  PROVE  /\ \A i \in fs.imap \cap gs.imap : /\ i \in DirsOf(gs) <=> i \in DirsOf(fs)
                                            /\ \A p : NodeIn(gs, p, i) = NodeIn(fs, p, i)
         /\ \A c \in fs.imap \cap gs.imap : \A e, i :
              c # d \/ e.name # n => (Listed(gs, c, e, i) <=> Listed(fs, c, e, i))
<1>1. ASSUME NEW i \in fs.imap \cap gs.imap
      PROVE  /\ i \in DirsOf(gs) <=> i \in DirsOf(fs)
             /\ \A p : NodeIn(gs, p, i) = NodeIn(fs, p, i)
  <2>1. gs.node[i] = fs.node[i]
    BY DEF Frame
  <2>2. IsDirectory(gs, i) <=> IsDirectory(fs, i)
    BY <2>1 DEF IsDirectory
  <2>3. ~ IsDirectory(fs, i) => fs.node[i].mode = "reg"
    BY DirShapeFacts DEF DiskOK, Shapes, FileShaped
  <2>4. ~ IsDirectory(fs, i) => ContentOf(gs, i) = ContentOf(fs, i)
    BY <2>3, FrameKeepsOthers
  <2>. QED
    BY <2>1, <2>2, <2>4 DEF NodeIn, DirsOf
<1>2. ASSUME NEW c \in fs.imap \cap gs.imap, NEW e, NEW i, c # d \/ e.name # n
      PROVE  Listed(gs, c, e, i) <=> Listed(fs, c, e, i)
  <2>1. CASE c # d /\ c \in DirsOf(fs)
    <3>1. ChildrenOf(gs, c) = ChildrenOf(fs, c)
      BY <2>1, FrameKeepsOthers, ChildrenAreKids
    <3>. QED
      BY <1>1, <3>1 DEF Listed
  <2>2. CASE c = d
    <3>1. e \in ChildrenOf(gs, d) <=> e \in ChildrenOf(fs, d)
      BY <1>2, <2>2 DEF Frame
    <3>. QED
      BY <1>1, <2>2, <3>1 DEF Listed
  <2>3. CASE c \notin DirsOf(fs)
    BY <1>1, <2>3 DEF Listed
  <2>. QED
    BY <2>1, <2>2, <2>3
<1>. QED
  BY <1>1, <1>2

\* The tree of an image whose live inodes are those of another.
LEMMA TreeKept ==
  ASSUME NEW fs, DiskOK(fs), NEW gs, DiskOK(gs), NEW d \in DirsOf(fs), NEW n,
         Frame(fs, gs, d, n), gs.imap = fs.imap, NEW P, Named(fs, P)
  PROVE  Named(gs, P) /\ NodesOf(gs, P) = NodesOf(fs, P)
<1>1. ASSUME NEW c, NEW e, NEW i, Listed(gs, c, e, i)
      PROVE  P[i] = Append(P[c], e.name)
  <2>1. c \in fs.imap /\ i \in fs.imap \ {Root}
    BY <1>1, ListedFacts
  <2>2. PICK b, f : Listed(fs, b, f, i)
    BY <2>1 DEF DiskOK, Naming
  <2>3. b \in fs.imap
    BY <2>2, ListedFacts
  <2>4. c = b /\ e.name = f.name
    <3>1. CASE Listed(gs, b, f, i)
      BY <1>1, <3>1, ListedOnce
    <3>2. CASE Listed(fs, c, e, i)
      BY <2>2, <3>2, ListedOnce
    <3>3. CASE ~ Listed(gs, b, f, i) /\ ~ Listed(fs, c, e, i)
      <4>1. b = d /\ f.name = n
        BY <2>2, <2>3, <3>3, FrameNodes
      <4>2. c = d /\ e.name = n
        BY <1>1, <2>1, <3>3, FrameNodes
      <4>. QED
        BY <4>1, <4>2
    <3>. QED
      BY <3>1, <3>2, <3>3
  <2>. QED
    BY <2>2, <2>4 DEF Named
<1>2. Named(gs, P)
  BY <1>1 DEF Named
<1>3. \A i \in fs.imap : \A p : NodeIn(gs, p, i) = NodeIn(fs, p, i)
  BY FrameNodes
<1>. QED
  BY <1>2, <1>3 DEF NodesOf

\* The tree of an image with one inode more, under a name that was not there.
LEMMA TreeGrown ==
  ASSUME NEW fs, DiskOK(fs), NEW gs, DiskOK(gs), NEW d \in DirsOf(fs), NEW n \in UserNames,
         Frame(fs, gs, d, n), NEW i, Grown(fs, gs, d, n, i), NEW P, Named(fs, P)
  PROVE  \E Q : /\ Named(gs, Q)
                /\ \A j \in fs.imap : Q[j] = P[j] /\ P[j] # Append(P[d], n)
                /\ NodesOf(gs, Q) = NodesOf(fs, P) \cup {NodeIn(gs, Append(P[d], n), i)}
<1>. DEFINE p == Append(P[d], n)
            Q == [j \in gs.imap |-> IF j = i THEN p ELSE P[j]]
<1>1. /\ i \notin fs.imap /\ gs.imap = fs.imap \cup {i} /\ Root \in fs.imap /\ d \in fs.imap
      /\ fs.imap \cap gs.imap = fs.imap /\ i # Root
  BY DEF Grown, DiskOK, DirsOf
<1>2. \A e, j : Listed(fs, d, e, j) => e.name # n
  BY DEF Grown, Listed, ChildrenOf, Has
<1>3. \A j \in fs.imap : P[j] \in Seq(UserNames)
  BY DEF Named
<1>4. p \in Seq(UserNames) /\ p # <<>>
  BY <1>1, <1>3, AppendApart
<1>5. \A j \in fs.imap : P[j] # p
  <2>. SUFFICES ASSUME NEW j \in fs.imap, P[j] = p
                PROVE  FALSE
    OBVIOUS
  <2>1. j # Root
    BY <1>4 DEF Named
  <2>2. PICK c, e : Listed(fs, c, e, j)
    BY <2>1 DEF DiskOK, Naming
  <2>3. c \in fs.imap /\ e.name \in UserNames
    BY <2>2, ListedFacts
  <2>4. P[j] = Append(P[c], e.name)
    BY <2>2 DEF Named
  <2>5. P[c] = P[d] /\ e.name = n
    <3>1. P[c] \in Seq(UserNames) /\ P[d] \in Seq(UserNames)
      BY <1>1, <1>3, <2>3
    <3>2. Append(P[c], e.name) = Append(P[d], n)
      BY <2>4
    <3>. HIDE DEF p, Q
    <3>. QED
      BY <2>3, <3>1, <3>2, AppendApart
  <2>6. c = d
    BY <1>1, <2>3, <2>5 DEF Named
  <2>. QED
    BY <1>2, <2>2, <2>5, <2>6
<1>6. \A c \in fs.imap : \A e, j : c # d \/ e.name # n => (Listed(gs, c, e, j) <=> Listed(fs, c, e, j))
  BY <1>1, FrameNodes
<1>7. ASSUME NEW c, NEW e, NEW j, Listed(gs, c, e, j), j # i
      PROVE  P[j] = Append(P[c], e.name) /\ c \in fs.imap
  <2>1. j \in fs.imap \ {Root}
    BY <1>1, <1>7, ListedFacts
  <2>2. PICK b, f : Listed(fs, b, f, j)
    BY <2>1 DEF DiskOK, Naming
  <2>3. b \in fs.imap
    BY <2>2, ListedFacts
  <2>4. b # d \/ f.name # n
    BY <1>2, <2>2
  <2>5. Listed(gs, b, f, j)
    BY <1>6, <2>2, <2>3, <2>4
  <2>6. c = b /\ e = f
    BY <1>7, <2>5, ListedOnce
  <2>. QED
    BY <2>2, <2>3, <2>6 DEF Named
<1>8. ASSUME NEW c, NEW e, Listed(gs, c, e, i)
      PROVE  c = d /\ e.name = n
  <2>1. c \in fs.imap
    BY <1>1, <1>8, ListedFacts
  <2>2. CASE c # d \/ e.name # n
    <3>1. Listed(fs, c, e, i)
      BY <1>6, <1>8, <2>1, <2>2
    <3>. QED
      BY <1>1, <3>1, ListedFacts
  <2>. QED
    BY <2>2
<1>9. Named(gs, Q)
  <2>1. Q \in [gs.imap -> Seq(UserNames)]
    BY <1>1, <1>3, <1>4
  <2>2. Q[Root] = <<>>
    BY <1>1 DEF Named
  <2>3. ASSUME NEW c, NEW e, NEW j, Listed(gs, c, e, j)
        PROVE  Q[j] = Append(Q[c], e.name)
    <3>1. c \in gs.imap /\ j \in gs.imap
      BY <2>3, ListedFacts
    <3>2. CASE j = i
      <4>1. c = d /\ e.name = n
        BY <1>8, <2>3, <3>2
      <4>. QED
        BY <1>1, <3>1, <3>2, <4>1
    <3>3. CASE j # i
      <4>1. P[j] = Append(P[c], e.name) /\ c \in fs.imap
        BY <1>7, <2>3, <3>3
      <4>. QED
        BY <1>1, <3>1, <3>3, <4>1
    <3>. QED
      BY <3>2, <3>3
  <2>4. \A j, k \in gs.imap : Q[j] = Q[k] => j = k
    BY <1>1, <1>5 DEF Named
  <2>. QED
    BY <2>1, <2>2, <2>3, <2>4 DEF Named
<1>10. \A j \in fs.imap : Q[j] = P[j] /\ j # i
  BY <1>1
<1>11. Q[i] = p
  BY <1>1
<1>12. \A j \in fs.imap : \A q : NodeIn(gs, q, j) = NodeIn(fs, q, j)
  BY <1>1, FrameNodes
<1>. HIDE DEF Q, p
<1>13. NodesOf(gs, Q) = {NodeIn(gs, Q[j], j) : j \in fs.imap} \cup {NodeIn(gs, Q[i], i)}
  BY <1>1 DEF NodesOf
<1>14. {NodeIn(gs, Q[j], j) : j \in fs.imap} = NodesOf(fs, P)
  BY <1>10, <1>12 DEF NodesOf
<1>15. NodesOf(gs, Q) = NodesOf(fs, P) \cup {NodeIn(gs, p, i)}
  BY <1>11, <1>13, <1>14
<1>. QED
  BY <1>5, <1>9, <1>10, <1>15 DEF p

\* gs has lost the inode that name n of directory d led to, and that name alone.
Shrunk(fs, gs, d, n, i) ==
  /\ gs.imap = fs.imap \ {i}
  /\ \A c, e, j : Listed(gs, c, e, j) <=> Listed(fs, c, e, j) /\ j # i
  /\ \E e : e.name = n /\ Listed(fs, d, e, i)

\* The tree of an image without the inode that a name of d led to.
LEMMA TreeShrunk ==
  ASSUME NEW fs, DiskOK(fs), NEW gs, DiskOK(gs), NEW d \in DirsOf(fs), NEW n,
         Frame(fs, gs, d, n), NEW i, Shrunk(fs, gs, d, n, i), NEW P, Named(fs, P)
  PROVE  \E Q : /\ Named(gs, Q)
                /\ \A j \in gs.imap : Q[j] = P[j]
                /\ P[i] = Append(P[d], n) /\ i \in fs.imap /\ d \in gs.imap
                /\ NodesOf(gs, Q) = NodesOf(fs, P) \ {NodeIn(fs, P[i], i)}
                /\ \A j \in gs.imap : P[j] # <<>> => SubSeq(P[j], 1, Len(P[j]) - 1) # P[i]
<1>. DEFINE Q == [j \in gs.imap |-> P[j]]
<1>0. PICK e : e.name = n /\ Listed(fs, d, e, i)
  BY DEF Shrunk
<1>1. /\ i \in fs.imap /\ i # Root /\ i # d /\ d \in fs.imap /\ d \in gs.imap
      /\ fs.imap \cap gs.imap = gs.imap /\ i \notin gs.imap /\ fs.imap = gs.imap \cup {i}
      /\ Root \in gs.imap
  BY <1>0, ListedFacts DEF DiskOK, DirsOf, Shrunk
<1>2. P[i] = Append(P[d], n)
  BY <1>0 DEF Named
<1>3. \A j \in fs.imap : P[j] \in Seq(UserNames)
  BY DEF Named
<1>4. Named(gs, Q)
  <2>1. Q \in [gs.imap -> Seq(UserNames)]
    BY <1>1, <1>3
  <2>2. ASSUME NEW c, NEW x, NEW j, Listed(gs, c, x, j)
        PROVE  Q[j] = Append(Q[c], x.name)
    <3>1. c \in gs.imap /\ j \in gs.imap
      BY <2>2, ListedFacts
    <3>2. P[j] = Append(P[c], x.name)
      BY <2>2 DEF Named, Shrunk
    <3>. QED
      BY <3>1, <3>2
  <2>3. Q[Root] = <<>> /\ \A j, k \in gs.imap : Q[j] = Q[k] => j = k
    BY <1>1 DEF Named
  <2>. QED
    BY <2>1, <2>2, <2>3 DEF Named
<1>5. \A j \in gs.imap : P[j] # P[i]
  BY <1>1 DEF Named
<1>6. ASSUME NEW j \in gs.imap, P[j] # <<>>
      PROVE  SubSeq(P[j], 1, Len(P[j]) - 1) # P[i]
  <2>1. j # Root
    BY <1>6 DEF Named
  <2>2. PICK b, f : Listed(gs, b, f, j)
    BY <2>1 DEF DiskOK, Naming
  <2>3. b \in gs.imap /\ f.name \in UserNames
    BY <2>2, ListedFacts
  <2>4. P[j] = Append(P[b], f.name)
    BY <2>2 DEF Named, Shrunk
  <2>5. SubSeq(P[j], 1, Len(P[j]) - 1) = P[b]
    BY <1>1, <1>3, <2>3, <2>4, FrontOfAppend
  <2>. QED
    BY <1>5, <2>3, <2>5, Zenon
<1>7. \A j \in gs.imap : Q[j] = P[j] /\ \A q : NodeIn(gs, q, j) = NodeIn(fs, q, j)
  BY <1>1, FrameNodes
<1>. HIDE DEF Q
<1>8. NodesOf(gs, Q) = {NodeIn(fs, P[j], j) : j \in gs.imap}
  BY <1>7 DEF NodesOf
<1>9. NodesOf(fs, P) = {NodeIn(fs, P[j], j) : j \in gs.imap} \cup {NodeIn(fs, P[i], i)}
  BY <1>1 DEF NodesOf
<1>10. NodeIn(fs, P[i], i) \notin {NodeIn(fs, P[j], j) : j \in gs.imap}
  <2>1. \A q, j : NodeIn(fs, q, j).path = q
    BY DEF NodeIn
  <2>. SUFFICES ASSUME NEW j \in gs.imap, NodeIn(fs, P[i], i) = NodeIn(fs, P[j], j)
                PROVE  FALSE
    OBVIOUS
  <2>2. P[i] = P[j]
    BY <2>1, Zenon
  <2>. QED
    BY <1>5, <2>2
<1>11. NodesOf(gs, Q) = NodesOf(fs, P) \ {NodeIn(fs, P[i], i)}
  BY <1>8, <1>9, <1>10
<1>. QED
  BY <1>1, <1>2, <1>4, <1>6, <1>7, <1>11

\* What the shell's copy reads as: the first DIRECT pieces, and zeros.
LEMMA CopyContent ==
  ASSUME NEW fs, NEW gs, NEW src, NEW i, FileShaped(fs, src), CopyOf(fs, gs, src, i),
         fs.node[src] \in NodeType
  PROVE  /\ ~ IsDirectory(gs, i) /\ ~ IsDirectory(fs, src)
         /\ ContentOf(gs, i) = [k \in DOMAIN ContentOf(fs, src) |->
                                  IF k < DIRECT THEN ContentOf(fs, src)[k] ELSE Zero]
<1>. DEFINE nd == fs.node[src]
            cp == gs.node[i]
            size == nd.size
            Phys(f, x, k) == get_physical_block_from_logical(f, x, k)
            Part(f, x, k) == IF Phys(f, x, k) = NoBlock THEN Zero ELSE f.blk[Phys(f, x, k)]
<1>1. size \in Nat /\ nd.blocks = size /\ nd.mode = "reg"
  BY NodeFields DEF FileShaped
<1>2. /\ cp.mode = "reg" /\ cp.size = size /\ cp.ind = NoBlock
      /\ \A k \in Direct : IF k \in CopiedBlocks(nd)
                           THEN cp.ptr[k] # NoBlock /\ gs.blk[cp.ptr[k]] = fs.blk[nd.ptr[k]]
                           ELSE cp.ptr[k] = NoBlock
  BY DEF CopyOf
<1>3. /\ ContentOf(fs, src) = [k \in 0 .. size - 1 |-> Part(fs, nd, k)]
      /\ ContentOf(gs, i) = [k \in 0 .. size - 1 |-> Part(gs, cp, k)]
  BY <1>2 DEF ContentOf
<1>4. ASSUME NEW k \in 0 .. size - 1
      PROVE  Part(gs, cp, k) = IF k < DIRECT THEN Part(fs, nd, k) ELSE Zero
  <2>1. CASE k < DIRECT
    <3>1. k \in Direct /\ k < size
      BY <1>1, <2>1 DEF Direct
    <3>2. Phys(gs, cp, k) = cp.ptr[k] /\ Phys(fs, nd, k) = nd.ptr[k]
      BY <2>1 DEF get_physical_block_from_logical
    <3>3. k \in CopiedBlocks(nd) <=> nd.ptr[k] # NoBlock
      BY <1>1, <3>1 DEF CopiedBlocks
    <3>. QED
      BY <1>2, <2>1, <3>1, <3>2, <3>3
  <2>2. CASE ~ (k < DIRECT)
    <3>1. Phys(gs, cp, k) = NoBlock
      BY <1>2, <2>2 DEF get_physical_block_from_logical
    <3>. QED
      BY <2>2, <3>1
  <2>. QED
    BY <2>1, <2>2
<1>5. ~ IsDirectory(gs, i) /\ ~ IsDirectory(fs, src)
  BY <1>1, <1>2 DEF IsDirectory
<1>. HIDE DEF Part, nd, cp, size
<1>6. ContentOf(gs, i) = [k \in 0 .. size - 1 |-> IF k < DIRECT THEN Part(fs, nd, k) ELSE Zero]
  BY <1>3, <1>4
<1>7. /\ DOMAIN ContentOf(fs, src) = 0 .. size - 1
      /\ \A k \in 0 .. size - 1 : ContentOf(fs, src)[k] = Part(fs, nd, k)
  BY <1>3
<1>. QED
  BY <1>5, <1>6, <1>7

-----------------------------------------------------------------------------
(* The promise of FileTree, in the words of this module. *)

LEMMA PromiseWords ==
  /\ \A s : FT!Front(s) = SubSeq(s, 1, Len(s) - 1)
  /\ \A S : FT!Cardinality(S) = Cardinality(S)
  /\ FT!Zero = Zero /\ FT!Nothing = NotRead
<1>1. \A s : FT!Front(s) = SubSeq(s, 1, Len(s) - 1)
  BY DEF FT!Front
<1>2. \A S : FT!Cardinality(S) = Cardinality(S)
  BY Zenon DEF FT!Cardinality, Cardinality
<1>3. FT!Zero = Zero /\ FT!Nothing = NotRead
  BY DEF FT!Zero, FT!Nothing, Zero, NotRead
<1>. QED
  BY <1>1, <1>2, <1>3

\* The copy of a file, as a record.
LEMMA CopyToIs ==
  ASSUME NEW p, NEW q, NEW c, NEW f, f = [path |-> q, mode |-> "reg", content |-> c]
  PROVE  FT!CopyTo(p, f)
           = [path |-> p, mode |-> "reg",
              content |-> [k \in DOMAIN c |-> IF k < DIRECT THEN c[k] ELSE Zero]]
<1>. DEFINE new == [k \in DOMAIN c |-> IF k < DIRECT THEN c[k] ELSE Zero]
<1>1. FT!CopyTo(p, f) = [f EXCEPT !.path = p, !.content = new]
  BY DEF FT!CopyTo, FT!Zero, Zero
<1>2. f \in [path : {q}, mode : {"reg"}, content : {c}]
  OBVIOUS
<1>. HIDE DEF new
<1>3. [f EXCEPT !.path = p, !.content = new] \in [path : {p}, mode : {"reg"}, content : {new}]
  BY <1>2
<1>4. \A g \in [path : {p}, mode : {"reg"}, content : {new}] :
        g = [path |-> p, mode |-> "reg", content |-> new]
  OBVIOUS
<1>5. [f EXCEPT !.path = p, !.content = new] = [path |-> p, mode |-> "reg", content |-> new]
  BY <1>3, <1>4
<1>. QED
  BY <1>1, <1>5 DEF new

-----------------------------------------------------------------------------
(* The commands. *)

\* The image fs shows what the sound image h says, and the path w is the one that
\* leads to directory d.
Shows(fs, h, d, w) ==
  /\ DiskOK(h) /\ SameContent(fs, h)
  /\ d \in DirsOf(h)
  /\ \E P : Named(h, P) /\ w = P[d]

\* The inductive invariant: the image is sound, and the path that the shell shows
\* is the one that leads to its directory.
PathInv ==
  /\ FInv
  /\ \E P : Named(disk, P) /\ current_working_directory = P[current_inode]

LEMMA PathInvShows ==
  /\ PathInv => Shows(disk, disk, current_inode, current_working_directory)
  /\ FInv' /\ Shows(disk', disk', current_inode', current_working_directory') => PathInv'
BY DEF PathInv, Shows, FInv, SameContent

\* A command that leaves the live inodes leaves the tree.
LEMMA KeptInTree ==
  ASSUME NEW h, Shows(disk, h, current_inode, current_working_directory), UNCHANGED place,
         NEW g, DiskOK(g), SameContent(disk', g), current_inode \in DirsOf(g),
         \/ g = h
         \/ g.imap = h.imap /\ \E n : Frame(h, g, current_inode, n)
  PROVE  Shows(disk', g, current_inode', current_working_directory') /\ Tree' = Tree
<1>1. PICK P : Named(h, P) /\ current_working_directory = P[current_inode]
  BY DEF Shows
<1>2. /\ DiskOK(h) /\ SameContent(disk, h) /\ current_inode \in DirsOf(h)
      /\ current_inode' = current_inode
      /\ current_working_directory' = current_working_directory
  BY DEF Shows, place
<1>3. Named(g, P) /\ NodesOf(g, P) = NodesOf(h, P)
  <2>1. CASE g = h
    BY <1>1, <2>1
  <2>2. CASE g.imap = h.imap /\ \E n : Frame(h, g, current_inode, n)
    <3>1. PICK n : Frame(h, g, current_inode, n)
      BY <2>2
    <3>. QED
      BY <1>1, <1>2, <2>2, <3>1, TreeKept
  <2>. QED
    BY <2>1, <2>2
<1>4. Tree' = Tree
  BY <1>1, <1>2, <1>3, TreeIs, TreeIsNext
<1>5. Shows(disk', g, current_inode', current_working_directory')
  BY <1>1, <1>2, <1>3 DEF Shows
<1>. QED
  BY <1>4, <1>5

LEMMA GrownInTree ==
  ASSUME NEW h, Shows(disk, h, current_inode, current_working_directory), UNCHANGED place,
         NEW g, DiskOK(g), SameContent(disk', g), current_inode \in DirsOf(g),
         NEW n \in UserNames, Frame(h, g, current_inode, n),
         NEW i, Grown(h, g, current_inode, n, i)
  PROVE  LET p == Append(current_working_directory, n)
         IN  /\ Shows(disk', g, current_inode', current_working_directory')
             /\ p \in FT!NewIn(Tree, current_working_directory)
             /\ Tree' = Tree \cup {NodeIn(g, p, i)}
<1>. DEFINE d == current_inode
            w == current_working_directory
            p == Append(w, n)
<1>1. PICK P : Named(h, P) /\ w = P[d]
  BY DEF Shows
<1>2. /\ DiskOK(h) /\ SameContent(disk, h) /\ d \in DirsOf(h) /\ d \in h.imap
      /\ current_inode' = d /\ current_working_directory' = w
  BY DEF Shows, place, DirsOf
<1>3. PICK Q : /\ Named(g, Q)
               /\ \A j \in h.imap : Q[j] = P[j] /\ P[j] # Append(P[d], n)
               /\ NodesOf(g, Q) = NodesOf(h, P) \cup {NodeIn(g, Append(P[d], n), i)}
  BY <1>1, <1>2, TreeGrown
<1>4. Tree = NodesOf(h, P) /\ Tree' = NodesOf(g, Q)
  BY <1>1, <1>2, <1>3, TreeIs, TreeIsNext
<1>5. Shows(disk', g, current_inode', current_working_directory')
  BY <1>1, <1>2, <1>3 DEF Shows
<1>6. \A x \in Tree : x.path # p
  BY <1>1, <1>3, <1>4 DEF NodesOf, NodeIn
<1>7. p \in FT!NewIn(Tree, w)
  BY <1>6 DEF FT!NewIn, FT!Paths
<1>. QED
  BY <1>1, <1>3, <1>4, <1>5, <1>7

LEMMA ShrunkInTree ==
  ASSUME NEW h, Shows(disk, h, current_inode, current_working_directory), UNCHANGED place,
         NEW n \in UserNames, Has(EntriesOf(h, current_inode), n),
         LET t == ShellTarget(h, current_inode, n)
         IN  t \in DirsOf(h) => IsEmptyDirectory(h, t),
         SameContent(disk', EntryDeleted(h, current_inode, n))
  PROVE  /\ Shows(disk', EntryDeleted(h, current_inode, n),
                  current_inode', current_working_directory')
         /\ \E x \in Tree :
              /\ x.path # <<>>
              /\ SubSeq(x.path, 1, Len(x.path) - 1) = current_working_directory
              /\ Tree' = Tree \ {x}
              /\ \A z \in Tree' : z.path # <<>> => SubSeq(z.path, 1, Len(z.path) - 1) # x.path
<1>. DEFINE d == current_inode
            w == current_working_directory
            t == ShellTarget(h, d, n)
            g == EntryDeleted(h, d, n)
            x == NodeIn(h, Append(w, n), t)
<1>1. PICK P : Named(h, P) /\ w = P[d]
  BY DEF Shows
<1>2. /\ DiskOK(h) /\ SameContent(disk, h) /\ d \in DirsOf(h) /\ d \in h.imap
      /\ current_inode' = d /\ current_working_directory' = w
  BY DEF Shows, place, DirsOf
<1>3. DiskOK(g) /\ d \in DirsOf(g) /\ Frame(h, g, d, n)
  BY <1>2, RemoveOK
<1>4. Shrunk(h, g, d, n, t)
  BY <1>2, RemoveOK, TargetIsLive DEF Shrunk
<1>. HIDE DEF g
<1>5. PICK Q : /\ Named(g, Q)
               /\ \A j \in g.imap : Q[j] = P[j]
               /\ P[t] = Append(P[d], n) /\ t \in h.imap /\ d \in g.imap
               /\ NodesOf(g, Q) = NodesOf(h, P) \ {NodeIn(h, P[t], t)}
               /\ \A j \in g.imap : P[j] # <<>> => SubSeq(P[j], 1, Len(P[j]) - 1) # P[t]
  BY <1>1, <1>2, <1>3, <1>4, TreeShrunk
<1>6. Tree = NodesOf(h, P) /\ Tree' = NodesOf(g, Q)
  <2>1. SameContent(disk', g)
    BY DEF g
  <2>. QED
    BY <1>1, <1>2, <1>3, <1>5, <2>1, TreeIs, TreeIsNext
<1>7. Shows(disk', g, current_inode', current_working_directory')
  <2>1. SameContent(disk', g)
    BY DEF g
  <2>. QED
    BY <1>1, <1>2, <1>3, <1>5, <2>1 DEF Shows
<1>. HIDE DEF t
<1>8. x \in Tree /\ x.path = P[t] /\ Tree' = Tree \ {x}
  BY <1>1, <1>5, <1>6 DEF NodesOf, NodeIn
<1>9. w \in Seq(UserNames)
  BY <1>1, <1>2 DEF Named
<1>10. x.path # <<>> /\ SubSeq(x.path, 1, Len(x.path) - 1) = w
  <2>1. x.path = Append(w, n)
    BY DEF NodeIn
  <2>. HIDE DEF x, w
  <2>. QED
    BY <1>9, <2>1, AppendApart, FrontOfAppend
<1>11. ASSUME NEW z \in Tree', z.path # <<>>
       PROVE  SubSeq(z.path, 1, Len(z.path) - 1) # x.path
  <2>1. PICK j \in g.imap : z = NodeIn(g, Q[j], j)
    BY <1>6 DEF NodesOf
  <2>2. z.path = P[j]
    BY <1>5, <2>1 DEF NodeIn
  <2>. QED
    BY <1>5, <1>8, <1>11, <2>2
<1>. HIDE DEF x
<1>. QED
  BY <1>7, <1>8, <1>10, <1>11 DEF g

\* A command that changes nothing and shows nothing may be refused.
LEMMA RefuseStep ==
  ASSUME Tree' = Tree, current_working_directory' = current_working_directory, buf' = NotRead
  PROVE  FT!Next
BY PromiseWords DEF FT!Next, FT!Refuse

LEMMA CdStep ==
  ASSUME NEW h, Shows(disk, h, current_inode, current_working_directory),
         NEW n \in Names, Cd(n)
  PROVE  Shows(disk', h, current_inode', current_working_directory') /\ FT!Next
<1>. DEFINE t == ShellTarget(h, current_inode, n)
            w == current_working_directory
<1>1. PICK P : Named(h, P) /\ w = P[current_inode]
  BY DEF Shows
<1>2. DiskOK(h) /\ SameContent(disk, h) /\ current_inode \in DirsOf(h)
  BY DEF Shows
<1>3. /\ disk' = disk /\ current_inode' = t /\ current_working_directory' = Append(w, n)
      /\ buf' = NotRead /\ IsDirectory(h, t) /\ n \in UserNames
      /\ Has(EntriesOf(h, current_inode), n)
  BY <1>2, ContentFacts DEF Cd, ShellSees, UserNames
<1>4. PICK e : e.name = n /\ Listed(h, current_inode, e, t)
  BY <1>2, <1>3, TargetIsLive
<1>5. P[t] = Append(w, n) /\ t \in h.imap
  BY <1>1, <1>2, <1>3, <1>4, TargetIsLive DEF Named
<1>6. Shows(disk', h, current_inode', current_working_directory')
  <2>1. t \in DirsOf(h)
    BY <1>3, <1>5 DEF DirsOf
  <2>. QED
    BY <1>1, <1>2, <1>3, <1>5, <2>1 DEF Shows
<1>7. Tree = NodesOf(h, P) /\ Tree' = Tree
  BY <1>1, <1>2, <1>3, TreeIs, TreeIsNext
<1>8. FT!Folder(Append(w, n)) \in Tree
  <2>1. NodeIn(h, P[t], t) \in Tree
    BY <1>5, <1>7 DEF NodesOf
  <2>2. h.node[t].mode = "dir"
    BY <1>3 DEF IsDirectory
  <2>. QED
    BY <1>3, <1>5, <2>1, <2>2, PromiseWords DEF NodeIn, FT!Folder
<1>. HIDE DEF t, w
<1>9. FT!Enter
  BY <1>3, <1>7, <1>8, PromiseWords DEF FT!Enter, w
<1>. QED
  BY <1>6, <1>9 DEF FT!Next

\* Back in the root, with the image as it was or another one of the same tree.
SameTree(h, g) == \A P : Named(h, P) => Named(g, P) /\ NodesOf(g, P) = NodesOf(h, P)

LEMMA RootStep ==
  ASSUME NEW h, Shows(disk, h, current_inode, current_working_directory),
         NEW g, DiskOK(g), SameContent(disk', g), SameTree(h, g),
         current_inode' = Root, current_working_directory' = <<>>, buf' = NotRead
  PROVE  Shows(disk', g, current_inode', current_working_directory') /\ FT!Next
<1>1. PICK P : Named(h, P)
  BY DEF Shows
<1>2. DiskOK(h) /\ SameContent(disk, h)
  BY DEF Shows
<1>3. Named(g, P) /\ NodesOf(g, P) = NodesOf(h, P)
  BY <1>1 DEF SameTree
<1>4. Shows(disk', g, current_inode', current_working_directory')
  BY <1>3 DEF Shows, Named, DiskOK
<1>5. Tree' = Tree
  BY <1>1, <1>2, <1>3, TreeIs, TreeIsNext
<1>. QED
  BY <1>4, <1>5, PromiseWords DEF FT!Next, FT!BackToRoot

LEMMA CdUpStep ==
  ASSUME NEW h, Shows(disk, h, current_inode, current_working_directory), CdUp
  PROVE  Shows(disk', h, current_inode', current_working_directory') /\ FT!Next
<1>1. /\ disk' = disk /\ current_inode' = Root /\ current_working_directory' = <<>>
      /\ buf' = NotRead
  BY DEF CdUp, ShowRoot
<1>2. DiskOK(h) /\ SameContent(disk', h) /\ SameTree(h, h)
  BY <1>1 DEF Shows, SameTree
<1>. QED
  BY <1>1, <1>2, RootStep

\* mkdir, where g is the sound image that it leaves.
LEMMA MkdirStep ==
  ASSUME NEW h, Shows(disk, h, current_inode, current_working_directory),
         NEW n \in UserNames, Mkdir(n),
         NEW g, DiskOK(g), SameContent(disk', g), DirsOf(h) \subseteq DirsOf(g),
         Frame(h, g, current_inode, n),
         IF create_directory_code(disk, current_inode, n) = 0
         THEN \E i : Grown(h, g, current_inode, n, i) /\ IsDirectory(g, i)
         ELSE g.imap = h.imap
  PROVE  Shows(disk', g, current_inode', current_working_directory') /\ FT!Next
<1>. DEFINE w == current_working_directory
            p == Append(w, n)
<1>1. UNCHANGED place /\ current_working_directory' = w /\ buf' = NotRead
  BY DEF Mkdir, place
<1>2. current_inode \in DirsOf(g)
  BY DEF Shows
<1>3. CASE create_directory_code(disk, current_inode, n) = 0
  <2>1. PICK i : Grown(h, g, current_inode, n, i) /\ IsDirectory(g, i)
    BY <1>3
  <2>2. /\ Shows(disk', g, current_inode', current_working_directory')
        /\ p \in FT!NewIn(Tree, w) /\ Tree' = Tree \cup {NodeIn(g, p, i)}
    BY <1>1, <1>2, <2>1, GrownInTree
  <2>3. NodeIn(g, p, i) = FT!Folder(p)
    BY <2>1, PromiseWords DEF NodeIn, FT!Folder, IsDirectory
  <2>. HIDE DEF p, w
  <2>4. FT!MakeFolder
    BY <1>1, <2>2, <2>3, PromiseWords DEF FT!MakeFolder, w
  <2>. QED
    BY <2>2, <2>4 DEF FT!Next
<1>4. CASE create_directory_code(disk, current_inode, n) # 0
  BY <1>1, <1>2, <1>4, KeptInTree, RefuseStep
<1>. QED
  BY <1>3, <1>4

\* cp and the first half of mv.
LEMMA CopyStep ==
  ASSUME NEW h, Shows(disk, h, current_inode, current_working_directory),
         NEW s \in UserNames, NEW t \in UserNames, Cp(s, t) \/ MvCopy(s, t),
         NEW g, DiskOK(g), SameContent(disk', g), DirsOf(h) \subseteq DirsOf(g),
         Frame(h, g, current_inode, t),
         IF copy_file_code(disk, current_inode, s, t) = 0
         THEN \E i : /\ Grown(h, g, current_inode, t, i)
                     /\ CopyOf(h, g, ShellTarget(h, current_inode, s), i)
         ELSE g.imap = h.imap
  PROVE  Shows(disk', g, current_inode', current_working_directory') /\ FT!Next
<1>. DEFINE d   == current_inode
            w   == current_working_directory
            p   == Append(w, t)
            src == ShellTarget(h, d, s)
            f   == NodeIn(h, Append(w, s), src)
<1>1. /\ DiskOK(h) /\ SameContent(disk, h) /\ d \in DirsOf(h) /\ d \in h.imap
      /\ d \in DirsOf(g)
  BY DEF Shows, DirsOf
<1>2. UNCHANGED place /\ current_working_directory' = w /\ buf' = NotRead
  BY DEF Cp, MvCopy, place
<1>3. CASE copy_file_code(disk, d, s, t) = 0
  <2>1. PICK i : Grown(h, g, d, t, i) /\ CopyOf(h, g, src, i)
    BY <1>3
  <2>2. /\ Shows(disk', g, current_inode', current_working_directory')
        /\ p \in FT!NewIn(Tree, w) /\ Tree' = Tree \cup {NodeIn(g, p, i)}
    <3>. HIDE DEF src
    <3>. QED
      BY <1>1, <1>2, <2>1, GrownInTree
  <2>3. Has(EntriesOf(h, d), s) /\ ~ IsDirectory(h, src)
    <3>1. Has(EntriesOf(disk, d), s) /\ ~ IsDirectory(disk, ShellTarget(disk, d, s))
      BY <1>3 DEF copy_file_code, ShellTarget
    <3>. QED
      BY <1>1, <3>1, ContentFacts
  <2>4. PICK e : e.name = s /\ Listed(h, d, e, src)
    BY <1>1, <2>3, TargetIsLive
  <2>5. src \in h.imap /\ FileShaped(h, src)
    BY <1>1, <2>3, TargetIsLive
  <2>. HIDE DEF src
  <2>6. h.node[src] \in NodeType
    BY <1>1, <2>5, ImageFields DEF DiskOK
  <2>7. PICK P : Named(h, P) /\ w = P[d]
    BY DEF Shows
  <2>8. P[src] = Append(w, s) /\ w \in Seq(UserNames)
    BY <1>1, <2>4, <2>7 DEF Named
  <2>9. f \in Tree
    <3>1. f = NodeIn(h, P[src], src)
      BY <2>8
    <3>2. Tree = NodesOf(h, P)
      BY <1>1, <2>7, TreeIs
    <3>. HIDE DEF f
    <3>. QED
      BY <2>5, <3>1, <3>2 DEF NodesOf
  <2>10. f = [path |-> Append(w, s), mode |-> "reg", content |-> ContentOf(h, src)]
    BY <2>3, <2>5 DEF NodeIn, FileShaped
  <2>11. f \in FT!FilesIn(Tree, w)
    <3>1. f.mode = "reg" /\ f.path = Append(w, s)
      BY <2>10
    <3>. HIDE DEF f, w
    <3>2. FT!Front(f.path) = w
      BY <2>8, <3>1, FrontOfAppend, PromiseWords
    <3>. QED
      BY <2>9, <3>1, <3>2 DEF FT!FilesIn
  <2>12. NodeIn(g, p, i) = FT!CopyTo(p, f)
    <3>1. /\ ~ IsDirectory(g, i)
          /\ ContentOf(g, i) = [k \in DOMAIN ContentOf(h, src) |->
                                  IF k < DIRECT THEN ContentOf(h, src)[k] ELSE Zero]
      BY <2>1, <2>5, <2>6, CopyContent
    <3>2. g.node[i].mode = "reg"
      BY <2>1 DEF CopyOf
    <3>3. FT!CopyTo(p, f)
            = [path |-> p, mode |-> "reg",
               content |-> [k \in DOMAIN ContentOf(h, src) |->
                              IF k < DIRECT THEN ContentOf(h, src)[k] ELSE Zero]]
      <4>. HIDE DEF p, f, w
      <4>. QED
        BY <2>10, CopyToIs
    <3>. HIDE DEF p, f
    <3>. QED
      BY <3>1, <3>2, <3>3 DEF NodeIn
  <2>. HIDE DEF p, w, f
  <2>13. FT!Copy
    BY <1>2, <2>2, <2>11, <2>12, PromiseWords DEF FT!Copy, w
  <2>. QED
    BY <2>2, <2>13 DEF FT!Next
<1>4. CASE copy_file_code(disk, d, s, t) # 0
  BY <1>1, <1>2, <1>4, KeptInTree, RefuseStep
<1>. QED
  BY <1>3, <1>4

\* What rm decides by is the same in images of the same content.
LEMMA SameDecisions ==
  ASSUME NEW fs, NEW h, SameContent(fs, h), NEW d, NEW n
  PROVE  /\ delete_directory_code(fs, d, n) = delete_directory_code(h, d, n)
         /\ delete_file_code(fs, d, n) = delete_file_code(h, d, n)
         /\ ShellSees(fs, d, n) <=> ShellSees(h, d, n)
<1>1. \A i : /\ DirBlock(fs, i) = DirBlock(h, i)
             /\ EntriesOf(fs, i) = EntriesOf(h, i)
             /\ fs.node[i] = h.node[i]
  BY ContentFacts DEF SameContent
<1>2. \A i : IsEmptyDirectory(fs, i) <=> IsEmptyDirectory(h, i)
  BY <1>1 DEF IsEmptyDirectory
<1>3. /\ delete_directory_code(fs, d, n) = delete_directory_code(h, d, n)
      /\ delete_file_code(fs, d, n) = delete_file_code(h, d, n)
  <2>. DEFINE es == EntriesOf(h, d)
              x  == es[IndexOf(es, n)]
  <2>1. /\ delete_file_code(fs, d, n)
            = (IF ~ Has(es, n) THEN -3 ELSE IF x.type = "dir" THEN -6 ELSE 0)
        /\ delete_directory_code(fs, d, n)
            = (IF ~ Has(es, n) THEN -3 ELSE IF x.type # "dir" THEN -6
               ELSE IF ~ IsEmptyDirectory(fs, x.inode) THEN -7 ELSE 0)
    BY <1>1 DEF delete_directory_code, delete_file_code
  <2>2. /\ delete_file_code(h, d, n)
            = (IF ~ Has(es, n) THEN -3 ELSE IF x.type = "dir" THEN -6 ELSE 0)
        /\ delete_directory_code(h, d, n)
            = (IF ~ Has(es, n) THEN -3 ELSE IF x.type # "dir" THEN -6
               ELSE IF ~ IsEmptyDirectory(h, x.inode) THEN -7 ELSE 0)
    BY DEF delete_directory_code, delete_file_code
  <2>. HIDE DEF es, x
  <2>. QED
    BY <1>2, <2>1, <2>2
<1>4. ShellSees(fs, d, n) <=> ShellSees(h, d, n)
  BY <1>1 DEF ShellSees
<1>. QED
  BY <1>3, <1>4

LEMMA SameDeletion ==
  ASSUME NEW fs \in Image, NEW h \in Image, SameContent(fs, h), NEW d, NEW n
  PROVE  SameContent(EntryDeleted(fs, d, n), EntryDeleted(h, d, n))
<1>1. DirBlock(fs, d) = DirBlock(h, d) /\ EntriesOf(fs, d) = EntriesOf(h, d)
  BY ContentFacts
<1>. QED
  BY <1>1 DEF SameContent, EntryDeleted, Image

\* rm, also as the second half of mv.
LEMMA RmStep ==
  ASSUME NEW h, disk \in Image, Shows(disk, h, current_inode, current_working_directory),
         NEW n \in UserNames, RmCommand(n)
  PROVE  LET g == IF disk' = disk THEN h ELSE EntryDeleted(h, current_inode, n)
         IN  Shows(disk', g, current_inode', current_working_directory') /\ FT!Next
<1>. DEFINE t == ShellTarget(h, current_inode, n)
            w == current_working_directory
            code == IF IsDirectory(h, t)
                    THEN delete_directory_code(h, current_inode, n)
                    ELSE delete_file_code(h, current_inode, n)
<1>1. /\ DiskOK(h) /\ SameContent(disk, h) /\ current_inode \in DirsOf(h) /\ h \in Image
      /\ UNCHANGED place /\ w' = w /\ buf' = NotRead
  BY DEF Shows, RmCommand, Rm, RmNotFound, place, DiskOK
<1>2. CASE disk' = disk
  BY <1>1, <1>2, KeptInTree, RefuseStep
<1>3. CASE disk' # disk
  <2>1. Rm(n)
    BY <1>3 DEF RmCommand, RmNotFound
  <2>2. /\ Has(EntriesOf(h, current_inode), n)
        /\ code = 0 /\ disk' = EntryDeleted(disk, current_inode, n)
    <3>1. /\ ShellTarget(disk, current_inode, n) = t
          /\ IsDirectory(disk, t) <=> IsDirectory(h, t)
          /\ EntriesOf(disk, current_inode) = EntriesOf(h, current_inode)
      BY <1>1, ContentFacts
    <3>2. /\ delete_directory_code(disk, current_inode, n)
               = delete_directory_code(h, current_inode, n)
          /\ delete_file_code(disk, current_inode, n) = delete_file_code(h, current_inode, n)
      BY <1>1, SameDecisions
    <3>. QED
      BY <1>3, <2>1, <3>1, <3>2 DEF Rm, ShellSees
  <2>3. t \in DirsOf(h) => IsEmptyDirectory(h, t)
    BY <2>2 DEF delete_directory_code, ShellTarget, DirsOf
  <2>4. SameContent(disk', EntryDeleted(h, current_inode, n))
    BY <1>1, <2>2, SameDeletion
  <2>5. /\ Shows(disk', EntryDeleted(h, current_inode, n),
                 current_inode', current_working_directory')
        /\ \E x \in Tree :
             /\ x.path # <<>>
             /\ SubSeq(x.path, 1, Len(x.path) - 1) = w
             /\ Tree' = Tree \ {x}
             /\ \A z \in Tree' : z.path # <<>> => SubSeq(z.path, 1, Len(z.path) - 1) # x.path
    BY <1>1, <2>2, <2>3, <2>4, ShrunkInTree
  <2>6. FT!Delete
    BY <1>1, <2>5, PromiseWords DEF FT!Delete
  <2>. QED
    BY <1>3, <2>5, <2>6 DEF FT!Next
<1>. QED
  BY <1>2, <1>3

LEMMA ReadStep ==
  ASSUME PathInv, NEW n \in UserNames, NEW size \in BufferSizes, Read(n, size)
  PROVE  PathInv' /\ FT!Next
<1>. DEFINE t == ShellTarget(disk, current_inode, n)
            w == current_working_directory
            c == ContentOf(disk, t)
            x == NodeIn(disk, Append(w, n), t)
<1>1. /\ DiskOK(disk) /\ current_inode \in DirsOf(disk) /\ current_inode \in disk.imap /\ FInv'
      /\ SameContent(disk, disk)
  BY ReadKeeps DEF PathInv, FInv, DirsOf, SameContent
<1>2. disk' = disk /\ UNCHANGED place /\ w' = w
  BY DEF Read, place
<1>3. PathInv' /\ Tree' = Tree
  BY <1>1, <1>2, KeptInTree, PathInvShows
<1>4. CASE read_code(disk, current_inode, n, size) = 0
  <2>1. /\ Has(EntriesOf(disk, current_inode), n) /\ ~ IsDirectory(disk, t)
        /\ ~ (disk.node[t].size > size)
    BY <1>4 DEF read_code, ShellTarget
  <2>2. buf' = c
    BY <1>4 DEF Read
  <2>3. PICK e : e.name = n /\ Listed(disk, current_inode, e, t)
    BY <1>1, <2>1, TargetIsLive
  <2>4. t \in disk.imap /\ disk.node[t].mode = "reg"
    BY <1>1, <2>1, TargetIsLive DEF FileShaped
  <2>5. disk.node[t].size \in Nat
    BY <1>1, <2>4, ImageFields, NodeFields DEF DiskOK
  <2>6. PICK P : Named(disk, P) /\ w = P[current_inode]
    BY DEF PathInv
  <2>7. P[t] = Append(w, n) /\ w \in Seq(UserNames)
    BY <1>1, <2>3, <2>6 DEF Named
  <2>8. x \in Tree
    <3>1. x = NodeIn(disk, P[t], t)
      BY <2>7
    <3>2. Tree = NodesOf(disk, P)
      BY <1>1, <2>6, TreeIs
    <3>. HIDE DEF x
    <3>. QED
      BY <2>4, <3>1, <3>2 DEF NodesOf
  <2>9. x.mode = "reg" /\ x.path = Append(w, n) /\ x.content = c
    BY <2>1, <2>4 DEF NodeIn
  <2>10. Cardinality(DOMAIN c) <= size
    <3>1. DOMAIN c = 0 .. disk.node[t].size - 1
      BY DEF ContentOf
    <3>2. Cardinality(0 .. disk.node[t].size - 1) = disk.node[t].size
      <4>1. \A m \in Nat : Cardinality(0 .. m - 1) = m
        <5>1. \A m \in Nat : 0 \in Int /\ m - 1 \in Int /\ (m - 1) - 0 + 1 = m
                             /\ (0 > m - 1 <=> m = 0)
          OBVIOUS
        <5>. QED
          BY <5>1, FS_Interval
      <4>. QED
        BY <2>5, <4>1
    <3>3. size \in Nat
      OBVIOUS
    <3>. HIDE DEF c
    <3>. QED
      BY <2>1, <2>5, <3>1, <3>2, <3>3
  <2>. HIDE DEF x, c, w
  <2>11. FT!Front(x.path) = w
    BY <2>7, <2>9, FrontOfAppend, PromiseWords
  <2>12. c \in FT!Readable(Tree, w, size)
    BY <2>8, <2>9, <2>10, <2>11, PromiseWords DEF FT!Readable, FT!FilesIn
  <2>13. FT!Read
    BY <1>2, <1>3, <2>2, <2>12 DEF FT!Read, w
  <2>. QED
    BY <1>3, <2>13 DEF FT!Next
<1>5. CASE read_code(disk, current_inode, n, size) # 0
  <2>1. buf' = NotRead
    BY <1>5 DEF Read
  <2>. QED
    BY <1>2, <1>3, <2>1, RefuseStep
<1>. QED
  BY <1>4, <1>5

LEMMA StepInTree ==
  PathInv /\ (AllStored' \/ StoredInodes = INODES_PER_GROUP) /\ [Next]_vars
    => PathInv' /\ [FT!Next]_<<Tree, current_working_directory, buf>>
<1>. SUFFICES ASSUME PathInv, AllStored' \/ StoredInodes = INODES_PER_GROUP, [Next]_vars
              PROVE  PathInv' /\ [FT!Next]_<<Tree, current_working_directory, buf>>
  OBVIOUS
<1>1. /\ DiskOK(disk) /\ current_inode \in DirsOf(disk) /\ disk \in Image /\ FInv'
      /\ Shows(disk, disk, current_inode, current_working_directory)
  BY StepFInv, PathInvShows DEF PathInv, FInv, DiskOK
<1>2. DiskOK(disk') /\ current_inode' \in DirsOf(disk') /\ SameContent(disk', disk')
  BY <1>1 DEF FInv, SameContent
<1>3. CASE UNCHANGED vars
  <2>1. disk' = disk /\ UNCHANGED place /\ UNCHANGED <<current_working_directory, buf>>
    BY <1>3 DEF vars, place
  <2>2. PathInv' /\ Tree' = Tree
    BY <1>1, <1>2, <2>1, KeptInTree, PathInvShows
  <2>. QED
    BY <2>1, <2>2
<1>4. ASSUME CdUp \/ \E n \in Names : Cd(n)
      PROVE  PathInv' /\ FT!Next
  <2>1. disk' = disk
    BY <1>4 DEF CdUp, Cd
  <2>. QED
    BY <1>1, <1>4, <2>1, CdUpStep, CdStep, PathInvShows
<1>5. ASSUME NEW n \in Names, Mkdir(n)
      PROVE  PathInv' /\ FT!Next
  <2>1. disk' = create_directory(disk, current_inode, n) /\ n \in UserNames
    BY <1>5 DEF Mkdir, UserNames
  <2>2. /\ DirsOf(disk) \subseteq DirsOf(disk') /\ Frame(disk, disk', current_inode, n)
        /\ IF create_directory_code(disk, current_inode, n) = 0
           THEN \E i : Grown(disk, disk', current_inode, n, i) /\ IsDirectory(disk', i)
           ELSE disk'.imap = disk.imap
    BY <1>1, <2>1, MkdirOK DEF AllStored
  <2>. QED
    BY <1>1, <1>2, <1>5, <2>1, <2>2, MkdirStep, PathInvShows
<1>6. ASSUME NEW s \in UserNames, NEW t \in Names, Cp(s, t) \/ MvCopy(s, t)
      PROVE  PathInv' /\ FT!Next
  <2>1. disk' = copy_file(disk, current_inode, s, t) /\ t \in UserNames
    BY <1>6 DEF Cp, MvCopy, UserNames
  <2>2. /\ DirsOf(disk) \subseteq DirsOf(disk') /\ Frame(disk, disk', current_inode, t)
        /\ IF copy_file_code(disk, current_inode, s, t) = 0
           THEN \E i : /\ Grown(disk, disk', current_inode, t, i)
                       /\ CopyOf(disk, disk', ShellTarget(disk, current_inode, s), i)
           ELSE disk'.imap = disk.imap
    BY <1>1, <2>1, CopyOK DEF AllStored
  <2>. QED
    BY <1>1, <1>2, <1>6, <2>1, <2>2, CopyStep, PathInvShows
<1>7. ASSUME NEW n \in UserNames, RmCommand(n)
      PROVE  PathInv' /\ FT!Next
  <2>. DEFINE g == IF disk' = disk THEN disk ELSE EntryDeleted(disk, current_inode, n)
  <2>1. Shows(disk', g, current_inode', current_working_directory') /\ FT!Next
    BY <1>1, <1>7, RmStep
  <2>2. g = disk'
    BY <1>7 DEF RmCommand, Rm, RmNotFound
  <2>. HIDE DEF g
  <2>. QED
    BY <1>1, <2>1, <2>2, PathInvShows
<1>. QED
  BY <1>3, <1>4, <1>5, <1>6, <1>7, ReadStep DEF Next


-----------------------------------------------------------------------------
(* The image of the inserter. *)

LEMMA InitNames ==
  ASSUME Init
  PROVE  \E i : \E P :
           /\ Named(disk, P) /\ disk.imap = {Root, i} /\ i # Root
           /\ P[Root] = <<>> /\ P[i] = <<ShellName>>
           /\ IsDirectory(disk, Root) /\ disk.node[i].mode = "reg"
<1>. DEFINE fs == create_ext2
            i  == allocate_node(fs)
            e0 == Entry(Root, Dot, "dir", 0)
            e2 == Entry(i, ShellName, "reg", 12)
            P  == [j \in {Root, i} |-> IF j = Root THEN <<>> ELSE <<ShellName>>]
<1>1. disk = write(fs, ShellName, ShellSize)
  BY DEF Init
<1>2. /\ i # Root /\ disk.imap = {Root, i}
      /\ disk.node[Root] = DirNode(FirstBlock)
      /\ disk.node[i].mode = "reg"
      /\ disk.blk[FirstBlock] = <<e0, e2>>
  BY <1>1, ImageWritten
<1>3. DiskOK(disk) /\ DirsOf(disk) = {Root}
  BY <1>1, InitOK
<1>4. e0.name = Dot /\ e2.name = ShellName /\ e2.inode = i /\ ShellName \in UserNames
  BY DEF Entry, UserNames
<1>. HIDE DEF e0, e2, i
<1>5. EntriesOf(disk, Root) = <<e0, e2>>
  BY <1>2, FirstBlockFacts, DirNodeFields DEF EntriesOf, DirBlock
<1>6. ASSUME NEW c, NEW x, NEW j, Listed(disk, c, x, j)
      PROVE  c = Root /\ x.name = ShellName /\ j = i
  <2>1. c = Root /\ x \in ChildrenOf(disk, Root) /\ x.inode = j
    BY <1>3, <1>6 DEF Listed
  <2>2. PICK k \in DOMAIN <<e0, e2>> : x = <<e0, e2>>[k] /\ x.name \notin {Dot, DotDot}
    BY <1>5, <2>1 DEF ChildrenOf
  <2>3. x = e2
    BY <1>4, <2>2
  <2>. QED
    BY <1>4, <2>1, <2>3
<1>7. <<>> \in Seq(UserNames) /\ <<ShellName>> \in Seq(UserNames) /\ <<>> # <<ShellName>>
      /\ <<ShellName>> = Append(<<>>, ShellName)
  BY <1>4
<1>8. P[Root] = <<>> /\ P[i] = <<ShellName>>
  BY <1>2
<1>9. Named(disk, P)
  <2>1. P \in [disk.imap -> Seq(UserNames)]
    BY <1>2, <1>7
  <2>2. ASSUME NEW c, NEW x, NEW j, Listed(disk, c, x, j)
        PROVE  P[j] = Append(P[c], x.name)
    <3>1. c = Root /\ x.name = ShellName /\ j = i
      BY <1>6, <2>2
    <3>2. P[c] = <<>> /\ P[j] = <<ShellName>>
      BY <1>8, <3>1
    <3>. HIDE DEF P
    <3>. QED
      BY <1>7, <3>1, <3>2
  <2>3. \A j, k \in disk.imap : P[j] = P[k] => j = k
    BY <1>2, <1>7
  <2>. QED
    BY <1>8, <2>1, <2>2, <2>3 DEF Named
<1>10. IsDirectory(disk, Root)
  BY <1>3 DEF DirsOf
<1>. QED
  BY <1>2, <1>8, <1>9, <1>10

LEMMA InitInTree == Init => PathInv /\ FT!Init
<1>. SUFFICES ASSUME Init
              PROVE  PathInv /\ FT!Init
  OBVIOUS
<1>1. PICK i : \E P :
         /\ Named(disk, P) /\ disk.imap = {Root, i} /\ i # Root
         /\ P[Root] = <<>> /\ P[i] = <<ShellName>>
         /\ IsDirectory(disk, Root) /\ disk.node[i].mode = "reg"
  BY InitNames
<1>2. PICK P :
         /\ Named(disk, P) /\ disk.imap = {Root, i} /\ i # Root
         /\ P[Root] = <<>> /\ P[i] = <<ShellName>>
         /\ IsDirectory(disk, Root) /\ disk.node[i].mode = "reg"
  BY <1>1
<1>3. FInv /\ DiskOK(disk)
  BY InitFInv DEF FInv
<1>4. current_inode = Root /\ current_working_directory = <<>> /\ buf = NotRead
  BY DEF Init
<1>5. PathInv
  BY <1>2, <1>3, <1>4 DEF PathInv
<1>. DEFINE root == NodeIn(disk, <<>>, Root)
            file == NodeIn(disk, <<ShellName>>, i)
<1>6. Tree = {root, file}
  <2>1. Tree = NodesOf(disk, P)
    BY <1>2, <1>3, TreeIs DEF SameContent
  <2>2. Tree = {NodeIn(disk, P[j], j) : j \in {Root, i}}
    BY <1>2, <2>1, Zenon DEF NodesOf
  <2>3. {NodeIn(disk, P[j], j) : j \in {Root, i}}
          = {NodeIn(disk, P[Root], Root), NodeIn(disk, P[i], i)}
    OBVIOUS
  <2>. QED
    BY <1>2, <2>2, <2>3, Zenon
<1>7. /\ root = FT!Folder(<<>>)
      /\ root.path = <<>> /\ file.path = <<ShellName>> /\ file.mode = "reg"
  BY <1>2, PromiseWords DEF NodeIn, FT!Folder, IsDirectory
<1>8. ShellName \in UserNames /\ <<ShellName>> # <<>>
  BY DEF UserNames
<1>9. FT!Front(<<ShellName>>) = <<>>
  <2>1. <<ShellName>> = Append(<<>>, ShellName) /\ <<>> \in Seq(UserNames)
    BY <1>8
  <2>2. SubSeq(<<ShellName>>, 1, Len(<<ShellName>>) - 1) = <<>>
    BY <1>8, <2>1, FrontOfAppend
  <2>. QED
    BY <2>2, PromiseWords
<1>. HIDE DEF root, file
<1>10. root # file
  BY <1>7, <1>8
<1>11. Cardinality(Tree) = 2
  <2>1. IsFiniteSet({root}) /\ Cardinality({root}) = 1
    BY FS_Singleton
  <2>2. Tree = {root} \cup {file} /\ file \notin {root}
    BY <1>6, <1>10
  <2>3. Cardinality({root} \cup {file}) = Cardinality({root}) + 1
    BY <2>1, <2>2, FS_AddElement
  <2>. QED
    BY <2>1, <2>2, <2>3
<1>12. FT!Paths(Tree) = {<<>>, <<ShellName>>}
  BY <1>6, <1>7 DEF FT!Paths
<1>13. file \in FT!FilesIn(Tree, <<>>)
  BY <1>6, <1>7, <1>9 DEF FT!FilesIn
<1>14. FT!Init
  BY <1>4, <1>6, <1>7, <1>8, <1>11, <1>12, <1>13, PromiseWords DEF FT!Init
<1>. QED
  BY <1>5, <1>14

-----------------------------------------------------------------------------
(* find.                                                                   *)

\* S[k][d] is what find_recursive finds in directory d when it may enter k more.
IsSearch(fs, n, S) ==
  S = [k \in 0 .. FIND_DEPTH + 1 |->
         [d \in Inodes |-> IF k = 0 THEN <<>> ELSE find_recursive(fs, n, d, S[k - 1])]]

SearchOf(fs, n) == CHOOSE S : IsSearch(fs, n, S)

LEMMA FindIs == \A fs, n : FromRoot(fs, n) = SearchOf(fs, n)[FIND_DEPTH + 1][Root]
BY Zenon DEF FromRoot, SearchOf, IsSearch

LEMMA SearchExists == \A fs, n : IsSearch(fs, n, SearchOf(fs, n))
<1>. SUFFICES ASSUME NEW fs, NEW n
              PROVE  \E S : IsSearch(fs, n, S)
  BY DEF SearchOf
<1>. DEFINE Deep(f) == [d \in Inodes |-> find_recursive(fs, n, d, f)]
            Flat == [d \in Inodes |-> <<>>]
            UpTo(m, f) == f = [k \in 0 .. m |-> IF k = 0 THEN Flat ELSE Deep(f[k - 1])]
            T == {m \in Nat : \E f : UpTo(m, f)}
<1>. HIDE DEF Deep, Flat
<1>1. 0 \in T
  <2>. DEFINE f == [k \in 0 .. 0 |-> Flat]
  <2>1. UpTo(0, f)
    OBVIOUS
  <2>. QED
    BY <2>1
<1>2. ASSUME NEW m \in Nat, m \in T
      PROVE  m + 1 \in T
  <2>1. PICK g : UpTo(m, g)
    BY <1>2
  <2>. DEFINE f == [k \in 0 .. m + 1 |-> IF k = m + 1 THEN Deep(g[m]) ELSE g[k]]
  <2>2. \A k \in 0 .. m : g[k] = IF k = 0 THEN Flat ELSE Deep(g[k - 1])
    BY <2>1
  <2>. HIDE DEF UpTo
  <2>3. ASSUME NEW k \in 0 .. m + 1
        PROVE  f[k] = IF k = 0 THEN Flat ELSE Deep(f[k - 1])
    <3>1. CASE k = 0
      BY <2>2, <3>1
    <3>2. CASE k \in 1 .. m
      <4>1. k \in 0 .. m /\ k - 1 \in 0 .. m + 1 /\ k # m + 1 /\ k - 1 # m + 1 /\ k # 0
        BY <3>2
      <4>. QED
        BY <2>2, <4>1
    <3>3. CASE k = m + 1
      <4>1. k - 1 = m /\ m \in 0 .. m + 1 /\ m # m + 1 /\ k # 0
        BY <3>3
      <4>. QED
        BY <3>3, <4>1
    <3>. QED
      BY <3>1, <3>2, <3>3
  <2>4. f = [k \in 0 .. m + 1 |-> IF k = 0 THEN Flat ELSE Deep(f[k - 1])]
    BY <2>3
  <2>5. UpTo(m + 1, f)
    BY <2>4 DEF UpTo
  <2>. QED
    BY <2>5
<1>. HIDE DEF T
<1>3. FIND_DEPTH + 1 \in T
  <2>1. FIND_DEPTH + 1 \in Nat
    OBVIOUS
  <2>2. \A k \in 0 .. (FIND_DEPTH + 1) - 1 : k \in T => k + 1 \in T
    BY <1>2
  <2>3. \A k \in 0 .. FIND_DEPTH + 1 : k \in T
    BY <1>1, <2>1, <2>2, InductionUpTo
  <2>. QED
    BY <2>1, <2>3
<1>4. PICK f : f = [k \in 0 .. FIND_DEPTH + 1 |-> IF k = 0 THEN Flat ELSE Deep(f[k - 1])]
  BY <1>3 DEF T
<1>5. ASSUME NEW k \in 0 .. FIND_DEPTH + 1
      PROVE  (IF k = 0 THEN Flat ELSE Deep(f[k - 1]))
               = [d \in Inodes |-> IF k = 0 THEN <<>> ELSE find_recursive(fs, n, d, f[k - 1])]
  BY DEF Flat, Deep
<1>6. f = [k \in 0 .. FIND_DEPTH + 1 |->
             [d \in Inodes |-> IF k = 0 THEN <<>> ELSE find_recursive(fs, n, d, f[k - 1])]]
  BY <1>4, <1>5
<1>. QED
  BY <1>6 DEF IsSearch

GoesOn(fs, n, S) ==
  \A d \in Inodes :
    /\ S[0][d] = <<>>
    /\ \A k \in 0 .. FIND_DEPTH : S[k + 1][d] = find_recursive(fs, n, d, S[k])

LEMMA SearchSteps == \A fs, n : GoesOn(fs, n, SearchOf(fs, n))
<1>. SUFFICES ASSUME NEW fs, NEW n, NEW d \in Inodes
              PROVE  /\ SearchOf(fs, n)[0][d] = <<>>
                     /\ \A k \in 0 .. FIND_DEPTH :
                          SearchOf(fs, n)[k + 1][d] = find_recursive(fs, n, d, SearchOf(fs, n)[k])
  BY DEF GoesOn
<1>. DEFINE S == SearchOf(fs, n)
            Row(F, k) == [c \in Inodes |->
                            IF k = 0 THEN <<>> ELSE find_recursive(fs, n, c, F[k - 1])]
<1>1. S = [k \in 0 .. FIND_DEPTH + 1 |-> Row(S, k)]
  <2>1. IsSearch(fs, n, S)
    BY SearchExists
  <2>. QED
    BY <2>1, Zenon DEF IsSearch
<1>2. ASSUME NEW k \in 0 .. FIND_DEPTH + 1
      PROVE  S[k][d] = IF k = 0 THEN <<>> ELSE find_recursive(fs, n, d, S[k - 1])
  <2>1. S[k] = Row(S, k)
    <3>. HIDE DEF Row, S
    <3>. QED
      BY <1>1
  <2>. HIDE DEF S
  <2>2. Row(S, k)[d] = IF k = 0 THEN <<>> ELSE find_recursive(fs, n, d, S[k - 1])
    OBVIOUS
  <2>. HIDE DEF Row
  <2>. QED
    BY <2>1, <2>2, Zenon
<1>. HIDE DEF S, Row
<1>3. 0 \in 0 .. FIND_DEPTH + 1
      /\ \A k \in 0 .. FIND_DEPTH :
           k + 1 \in 0 .. FIND_DEPTH + 1 /\ k + 1 # 0 /\ (k + 1) - 1 = k
  OBVIOUS
<1>. QED
  BY <1>2, <1>3 DEF S

\* What an entry of d leads to.
Leads(fs, n, d, e, inside) ==
  e.name = n \/ (Descends(fs, d, e.inode) /\ inside[e.inode] # <<>>)

\* The search goes on at the entry that it stops at, and it stops when an entry
\* that it looks at leads to the name.
Stops(fs, n, d, inside, r) ==
  /\ r # <<>> =>
       \E e : /\ Listed(fs, d, e, e.inode)
              /\ \/ e.name = n /\ r = <<n>>
                 \/ /\ Descends(fs, d, e.inode) /\ inside[e.inode] # <<>>
                    /\ r = <<e.name>> \o inside[e.inode]
  /\ (\E j \in Scanned(EntriesOf(fs, d)) : Leads(fs, n, d, EntriesOf(fs, d)[j], inside))
       => r # <<>>

LEMMA OneDirectory ==
  ASSUME NEW fs, DiskOK(fs), NEW d \in DirsOf(fs), NEW n \in UserNames, NEW f,
         \A c \in DirsOf(fs) : f[c] \in Seq(UserNames)
  PROVE  Stops(fs, n, d, f, find_recursive(fs, n, d, f))
<1>. DEFINE es == EntriesOf(fs, d)
            r  == find_recursive(fs, n, d, f)
            Behind(j) == IF Descends(fs, d, es[j].inode) THEN f[es[j].inode] ELSE <<>>
            hits == {j \in Scanned(es) : es[j].name = n \/ Behind(j) # <<>>}
            first == Min(hits)
<1>1. r = IF hits = {} THEN <<>>
          ELSE IF es[first].name = n THEN <<n>> ELSE <<es[first].name>> \o Behind(first)
  BY Zenon DEF find_recursive
<1>2. es \in Seq(EntryRec) /\ DOMAIN es = 1 .. Len(es) /\ Len(es) \in Nat
  BY DirFacts DEF TableOK
<1>3. \A j \in Scanned(es) : j \in DOMAIN es /\ es[j].name \notin {Dot, DotDot}
  BY DEF Scanned, NamesUpTo
<1>. HIDE DEF r
<1>4. \A j \in Scanned(es) : Listed(fs, d, es[j], es[j].inode) /\ es[j].name \in UserNames
  <2>1. \A j \in Scanned(es) : Listed(fs, d, es[j], es[j].inode)
    BY <1>3 DEF Listed, ChildrenOf
  <2>. QED
    BY <2>1, ListedFacts
<1>5. ASSUME hits # {}
      PROVE  first \in hits
  <2>1. hits \in SUBSET Nat
    BY <1>2, <1>3
  <2>. HIDE DEF hits
  <2>2. PICK x \in hits : \A y \in hits : x <= y
    BY <1>5, <2>1, LeastExists
  <2>. QED
    BY <2>2 DEF Min
<1>6. \A j \in Scanned(es) : Behind(j) # <<>> <=> Descends(fs, d, es[j].inode) /\ f[es[j].inode] # <<>>
  OBVIOUS
<1>7. \A j \in hits : j \in Scanned(es) /\ Leads(fs, n, d, es[j], f)
  <2>1. \A j \in hits : j \in Scanned(es) /\ (es[j].name = n \/ Behind(j) # <<>>)
    OBVIOUS
  <2>. HIDE DEF hits, Behind
  <2>. QED
    BY <1>6, <2>1 DEF Leads
<1>8. \A j \in Scanned(es) : Leads(fs, n, d, es[j], f) => j \in hits
  BY <1>6 DEF Leads
<1>9. \A j \in hits : Behind(j) # <<>> => Behind(j) = f[es[j].inode] /\ Behind(j) \in Seq(UserNames)
  <2>1. ASSUME NEW j \in hits, Behind(j) # <<>>
        PROVE  Behind(j) = f[es[j].inode] /\ es[j].inode \in DirsOf(fs)
    <3>1. Descends(fs, d, es[j].inode) /\ Behind(j) = f[es[j].inode]
      BY <2>1
    <3>2. es[j].inode \in fs.imap
      BY <1>4, <1>7, <2>1, ListedFacts
    <3>. QED
      BY <3>1, <3>2 DEF Descends, DirsOf
  <2>. QED
    BY <2>1
<1>. HIDE DEF Behind, hits
<1>10. ASSUME r # <<>>
       PROVE  \E e : /\ Listed(fs, d, e, e.inode)
                     /\ \/ e.name = n /\ r = <<n>>
                        \/ /\ Descends(fs, d, e.inode) /\ f[e.inode] # <<>>
                           /\ r = <<e.name>> \o f[e.inode]
  <2>1. hits # {}
    BY <1>1, <1>10
  <2>2. first \in hits /\ first \in Scanned(es) /\ Leads(fs, n, d, es[first], f)
    BY <1>5, <1>7, <2>1
  <2>3. Listed(fs, d, es[first], es[first].inode)
    BY <1>4, <2>2
  <2>. HIDE DEF first, es
  <2>4. CASE es[first].name = n
    <3>1. r = <<n>>
      BY <1>1, <2>1, <2>4
    <3>. QED
      BY <2>3, <2>4, <3>1
  <2>5. CASE es[first].name # n
    <3>1. Descends(fs, d, es[first].inode) /\ f[es[first].inode] # <<>>
      BY <2>2, <2>5 DEF Leads
    <3>2. Behind(first) = f[es[first].inode]
      BY <1>6, <1>9, <2>2, <3>1
    <3>3. r = <<es[first].name>> \o f[es[first].inode]
      BY <1>1, <2>1, <2>5, <3>2
    <3>. QED
      BY <2>3, <3>1, <3>3
  <2>. QED
    BY <2>4, <2>5
<1>11. ASSUME NEW j \in Scanned(es), Leads(fs, n, d, es[j], f)
       PROVE  r # <<>>
  <2>1. hits # {}
    BY <1>8, <1>11
  <2>2. first \in hits /\ first \in Scanned(es) /\ Leads(fs, n, d, es[first], f)
    BY <1>5, <1>7, <2>1
  <2>3. es[first].name \in UserNames
    BY <1>4, <2>2
  <2>. HIDE DEF first, es
  <2>4. CASE es[first].name = n
    BY <1>1, <2>1, <2>4
  <2>5. CASE es[first].name # n
    <3>1. Behind(first) # <<>>
      BY <1>6, <2>2, <2>5 DEF Leads
    <3>2. Behind(first) \in Seq(UserNames)
      BY <1>9, <2>2, <3>1
    <3>3. Len(<<es[first].name>> \o Behind(first)) = 1 + Len(Behind(first)) /\ Len(Behind(first)) \in Nat
      BY <2>3, <3>2
    <3>4. <<es[first].name>> \o Behind(first) # <<>>
      BY <3>3
    <3>. QED
      BY <1>1, <2>1, <2>5, <3>4
  <2>. QED
    BY <2>4, <2>5
<1>. QED
  BY <1>10, <1>11 DEF Stops, es, r

LEMMA PrefixIs ==
  ASSUME NEW S, NEW a \in Seq(S), NEW p \in Seq(S)
  PROVE  IsPrefix(a, p) <=> Len(a) <= Len(p) /\ \A k \in 1 .. Len(a) : a[k] = p[k]
<1>. DEFINE s == SubSeq(a, 1, Len(a))
            t == SubSeq(p, 1, Len(a))
<1>1. Len(a) \in Nat /\ Len(p) \in Nat
  OBVIOUS
<1>. SUFFICES ASSUME Len(a) <= Len(p)
              PROVE  s = t <=> \A k \in 1 .. Len(a) : a[k] = p[k]
  BY DEF IsPrefix
<1>2. /\ s \in Seq(S) /\ Len(s) = Len(a) /\ \A k \in 1 .. Len(a) : s[k] = a[k]
      /\ t \in Seq(S) /\ Len(t) = Len(a) /\ \A k \in 1 .. Len(a) : t[k] = p[k]
  BY <1>1
<1>. HIDE DEF s, t
<1>3. (\A k \in 1 .. Len(s) : s[k] = t[k]) => s = t
  BY <1>2, SeqEqual
<1>. QED
  BY <1>2, <1>3

\* What is above Append(p, x) is p or above p.
LEMMA PrefixOfAppend ==
  ASSUME NEW S, NEW a \in Seq(S), NEW p \in Seq(S), NEW x \in S
  PROVE  /\ IsStrictPrefix(a, Append(p, x)) => IsPrefix(a, p)
         /\ IsPrefix(a, Append(p, x)) /\ a # Append(p, x) => IsPrefix(a, p)
<1>. DEFINE q == Append(p, x)
<1>1. /\ q \in Seq(S) /\ Len(q) = Len(p) + 1
      /\ \A k \in 1 .. Len(p) : q[k] = p[k]
  BY AppendFacts
<1>2. Len(a) \in Nat /\ Len(p) \in Nat
  OBVIOUS
<1>. HIDE DEF q
<1>. SUFFICES ASSUME IsPrefix(a, q), a # q
              PROVE  IsPrefix(a, p)
  BY DEF IsStrictPrefix, q
<1>3. Len(a) <= Len(q) /\ \A k \in 1 .. Len(a) : a[k] = q[k]
  BY <1>1, PrefixIs
<1>4. Len(a) # Len(q)
  BY <1>1, <1>3, SeqEqual
<1>5. Len(a) <= Len(p) /\ \A k \in 1 .. Len(a) : a[k] = p[k]
  BY <1>1, <1>2, <1>3, <1>4
<1>. QED
  BY <1>5, PrefixIs

LEMMA UpToFacts ==
  ASSUME NEW S, NEW p \in Seq(S), NEW m \in 0 .. Len(p)
  PROVE  /\ SubSeq(p, 1, m) \in Seq(S) /\ Len(SubSeq(p, 1, m)) = m
         /\ m = Len(p) => SubSeq(p, 1, m) = p
         /\ m = 0 => SubSeq(p, 1, m) = <<>>
         /\ m < Len(p) => /\ p[m + 1] \in S
                          /\ SubSeq(p, 1, m + 1) = Append(SubSeq(p, 1, m), p[m + 1])
                          /\ IsStrictPrefix(SubSeq(p, 1, m), p)
<1>. DEFINE s == SubSeq(p, 1, m)
            t == SubSeq(p, 1, m + 1)
<1>1. Len(p) \in Nat /\ m \in Nat /\ m <= Len(p)
  OBVIOUS
<1>2. s \in Seq(S) /\ Len(s) = m /\ \A k \in 1 .. m : s[k] = p[k]
  BY <1>1
<1>3. m = Len(p) => s = p
  BY SubSeqFull
<1>4. m = 0 => s = <<>>
  BY SubSeqEmpty
<1>5. ASSUME m < Len(p)
      PROVE  p[m + 1] \in S /\ t = Append(s, p[m + 1]) /\ IsStrictPrefix(s, p)
  <2>1. m + 1 \in 1 .. Len(p)
    BY <1>1, <1>5
  <2>2. p[m + 1] \in S
    BY <2>1, ElementOfSeq
  <2>3. t \in Seq(S) /\ Len(t) = m + 1 /\ \A k \in 1 .. m + 1 : t[k] = p[k]
    BY <1>1, <1>5
  <2>. HIDE DEF s, t
  <2>. DEFINE u == Append(s, p[m + 1])
  <2>4. /\ u \in Seq(S) /\ Len(u) = m + 1 /\ u[m + 1] = p[m + 1]
        /\ \A k \in 1 .. m : u[k] = s[k]
    BY <1>2, <2>2, AppendFacts
  <2>. HIDE DEF u
  <2>5. \A k \in 1 .. m + 1 : t[k] = u[k]
    BY <1>1, <1>2, <2>3, <2>4
  <2>6. t = u
    BY <2>3, <2>4, <2>5, SeqEqual
  <2>7. IsPrefix(s, p) /\ s # p
    BY <1>1, <1>2, <1>5, PrefixIs
  <2>. QED
    BY <2>2, <2>6, <2>7 DEF IsStrictPrefix, u
<1>. QED
  BY <1>2, <1>3, <1>4, <1>5

\* Path p leads through directories, each of which lists the next; the path of every
\* live inode does.
LeadsTo(fs, P, p) ==
  \A m \in 0 .. Len(p) - 1 :
    \E d, e, c : /\ Listed(fs, d, e, c)
                 /\ P[d] = SubSeq(p, 1, m) /\ e.name = p[m + 1]
                 /\ P[c] = SubSeq(p, 1, m + 1)

LEMMA PathSteps ==
  ASSUME NEW fs, DiskOK(fs), NEW P, Named(fs, P), NEW i \in fs.imap
  PROVE  LeadsTo(fs, P, P[i])
<1>. DEFINE p == P[i]
            L == Len(p)
            Reaches(m) == \E a \in fs.imap : P[a] = SubSeq(p, 1, m)
            T == {t \in 0 .. L : Reaches(L - t)}
<1>1. p \in Seq(UserNames) /\ L \in Nat
  BY DEF Named
<1>2. ASSUME NEW m \in 0 .. L - 1, Reaches(m + 1)
      PROVE  \E d, e, c : /\ Listed(fs, d, e, c)
                          /\ P[d] = SubSeq(p, 1, m) /\ e.name = p[m + 1]
                          /\ P[c] = SubSeq(p, 1, m + 1)
  <2>. HIDE DEF p, L
  <2>0. m \in 0 .. Len(p) /\ m + 1 \in 0 .. Len(p) /\ m < Len(p) /\ m \in Nat
    BY <1>1 DEF L
  <2>1. PICK a \in fs.imap : P[a] = SubSeq(p, 1, m + 1)
    BY <1>2
  <2>2. /\ SubSeq(p, 1, m) \in Seq(UserNames) /\ p[m + 1] \in UserNames
        /\ P[a] = Append(SubSeq(p, 1, m), p[m + 1])
    BY <1>1, <2>0, <2>1, UpToFacts
  <2>. DEFINE s == SubSeq(p, 1, m)
              x == p[m + 1]
  <2>. HIDE DEF s, x
  <2>2a. s \in Seq(UserNames) /\ x \in UserNames /\ P[a] = Append(s, x)
    BY <2>2 DEF s, x
  <2>3. P[a] # <<>>
    BY <2>2a, AppendProperties
  <2>4. a # Root
    BY <2>3 DEF Named
  <2>5. PICK d, e : Listed(fs, d, e, a)
    BY <2>4 DEF DiskOK, Naming
  <2>6. d \in fs.imap /\ e.name \in UserNames
    BY <2>5, ListedFacts
  <2>7. P[a] = Append(P[d], e.name) /\ P[d] \in Seq(UserNames)
    BY <2>5, <2>6 DEF Named
  <2>8. P[d] = s /\ e.name = x
    <3>. DEFINE q == P[d]
                y == e.name
    <3>1. q \in Seq(UserNames) /\ y \in UserNames /\ Append(s, x) = Append(q, y)
      BY <2>2a, <2>6, <2>7
    <3>. HIDE DEF q, y
    <3>2. s = q /\ x = y
      BY <2>2a, <3>1, AppendApart
    <3>. QED
      BY <3>2 DEF q, y
  <2>. QED
    BY <2>1, <2>5, <2>8 DEF s, x
<1>. HIDE DEF p
<1>3. 0 \in T
  <2>1. SubSeq(p, 1, L) = p /\ P[i] = p
    BY <1>1, SubSeqFull DEF L, p
  <2>2. Reaches(L)
    BY <2>1
  <2>. HIDE DEF Reaches, L
  <2>3. L - 0 = L /\ 0 \in 0 .. L
    BY <1>1
  <2>. QED
    BY <2>2, <2>3
<1>4. ASSUME NEW t \in 0 .. L - 1, t \in T
      PROVE  t + 1 \in T
  <2>. DEFINE m == L - (t + 1)
  <2>1. m \in 0 .. L - 1 /\ m + 1 = L - t /\ t + 1 \in 0 .. L
    BY <1>1
  <2>. HIDE DEF m
  <2>2. Reaches(m + 1)
    BY <1>4, <2>1
  <2>3. PICK d, e, c : Listed(fs, d, e, c) /\ P[d] = SubSeq(p, 1, m)
    BY <1>2, <2>1, <2>2
  <2>4. d \in fs.imap
    BY <2>3, ListedFacts
  <2>5. Reaches(m)
    BY <2>3, <2>4
  <2>. HIDE DEF Reaches
  <2>. QED
    BY <2>1, <2>5 DEF m
<1>. HIDE DEF T
<1>5. \A t \in 0 .. L : t \in T
  BY <1>1, <1>3, <1>4, InductionUpTo
<1>6. ASSUME NEW m \in 0 .. L - 1
      PROVE  Reaches(m + 1)
  <2>1. L - (m + 1) \in 0 .. L /\ L - (L - (m + 1)) = m + 1
    BY <1>1
  <2>. HIDE DEF Reaches
  <2>. QED
    BY <1>5, <2>1 DEF T
<1>. QED
  BY <1>2, <1>6 DEF LeadsTo, p, L

\* r is empty, or the way from directory d to something of name n, with at most k names.
\* If it starts neither at inode 1 nor below it, it does not lead through inode 1.
WayFrom(fs, P, n, d, k, r) ==
  /\ r \in Seq(UserNames)
  /\ r # <<>> =>
       \E i \in fs.imap :
         /\ P[i] = P[d] \o r /\ Last(r) = n /\ Len(r) <= k
         /\ 1 \in fs.imap /\ ~ IsPrefix(P[1], P[d]) => ~ IsStrictPrefix(P[1], P[i])

LEMMA WayToEntry ==
  ASSUME NEW fs, DiskOK(fs), NEW P, Named(fs, P), NEW d, NEW e, NEW c,
         Listed(fs, d, e, c), NEW k \in Nat
  PROVE  WayFrom(fs, P, e.name, d, k + 1, <<e.name>>)
<1>. DEFINE x == e.name
            p == P[d]
            q == P[c]
<1>1. c \in fs.imap /\ d \in fs.imap /\ x \in UserNames
  BY ListedFacts
<1>2. p \in Seq(UserNames) /\ q = Append(p, x) /\ (1 \in fs.imap => P[1] \in Seq(UserNames))
  BY <1>1 DEF Named
<1>. HIDE DEF x, p, q
<1>3. q = p \o <<x>>
  BY <1>1, <1>2, AppendIsConcat
<1>4. 1 \in fs.imap /\ ~ IsPrefix(P[1], p) => ~ IsStrictPrefix(P[1], q)
  BY <1>1, <1>2, PrefixOfAppend
<1>5. <<x>> \in Seq(UserNames) /\ Last(<<x>>) = x /\ Len(<<x>>) <= k + 1
  BY <1>1 DEF Last
<1>. QED
  BY <1>1, <1>3, <1>4, <1>5 DEF WayFrom, x, p, q

LEMMA WayThroughEntry ==
  ASSUME NEW fs, DiskOK(fs), NEW P, Named(fs, P), NEW d, NEW e, NEW c,
         Listed(fs, d, e, c), c # 1, NEW n, NEW k \in Nat, NEW r,
         r # <<>>, WayFrom(fs, P, n, c, k, r)
  PROVE  WayFrom(fs, P, n, d, k + 1, <<e.name>> \o r)
<1>. DEFINE x == e.name
            p == P[d]
            q == P[c]
            s == <<x>> \o r
<1>1. c \in fs.imap /\ d \in fs.imap /\ x \in UserNames
  BY ListedFacts
<1>2. p \in Seq(UserNames) /\ q = Append(p, x) /\ (1 \in fs.imap => P[1] \in Seq(UserNames))
  BY <1>1 DEF Named
<1>3. r \in Seq(UserNames)
  BY DEF WayFrom
<1>4. PICK i \in fs.imap :
        /\ P[i] = q \o r /\ Last(r) = n /\ Len(r) <= k
        /\ 1 \in fs.imap /\ ~ IsPrefix(P[1], q) => ~ IsStrictPrefix(P[1], P[i])
  BY DEF WayFrom
<1>5. 1 \in fs.imap => P[1] # q
  BY <1>1 DEF Named
<1>. HIDE DEF x, p, q, s
<1>6. P[i] = p \o s
  <2>1. q = p \o <<x>> /\ <<x>> \in Seq(UserNames)
    BY <1>1, <1>2, AppendIsConcat
  <2>2. (p \o <<x>>) \o r = p \o (<<x>> \o r)
    BY <1>2, <1>3, <2>1, ConcatAssociative
  <2>. QED
    BY <1>4, <2>1, <2>2 DEF s
<1>7. /\ s \in Seq(UserNames) /\ Len(s) = Len(r) + 1 /\ Len(r) \in Nat \ {0}
      /\ s[Len(s)] = r[Len(r)]
  <2>1. <<x>> \in Seq(UserNames) /\ Len(<<x>>) = 1
    BY <1>1
  <2>2. Len(r) \in Nat \ {0}
    BY <1>3, EmptySeq
  <2>3. /\ s \in Seq(UserNames) /\ Len(s) = 1 + Len(r)
        /\ \A j \in 1 .. 1 + Len(r) : s[j] = IF j <= 1 THEN <<x>>[j] ELSE r[j - 1]
    BY <1>3, <2>1, ConcatProperties DEF s
  <2>4. Len(r) + 1 \in 1 .. 1 + Len(r) /\ ~ (Len(r) + 1 <= 1) /\ (Len(r) + 1) - 1 = Len(r)
        /\ 1 + Len(r) = Len(r) + 1
    BY <2>2
  <2>. QED
    BY <2>2, <2>3, <2>4
<1>8. Last(s) = n /\ Len(s) <= k + 1
  BY <1>4, <1>7 DEF Last
<1>9. 1 \in fs.imap /\ ~ IsPrefix(P[1], p) => ~ IsStrictPrefix(P[1], P[i])
  BY <1>1, <1>2, <1>4, <1>5, PrefixOfAppend
<1>. QED
  BY <1>6, <1>7, <1>8, <1>9 DEF WayFrom, x, p, s

\* Whatever the search finds is there.
LEMMA SearchIsSound ==
  ASSUME NEW fs, DiskOK(fs), NEW P, Named(fs, P), NEW n \in UserNames
  PROVE  \A k \in 0 .. FIND_DEPTH + 1 : \A d \in DirsOf(fs) :
           WayFrom(fs, P, n, d, k, SearchOf(fs, n)[k][d])
<1>. DEFINE S == SearchOf(fs, n)
            T == {k \in 0 .. FIND_DEPTH + 1 :
                    \A d \in DirsOf(fs) : WayFrom(fs, P, n, d, k, S[k][d])}
<1>0. /\ \A d \in DirsOf(fs) : d \in Inodes /\ S[0][d] = <<>>
      /\ \A d \in DirsOf(fs) : \A k \in 0 .. FIND_DEPTH :
           S[k + 1][d] = find_recursive(fs, n, d, S[k])
  <2>1. GoesOn(fs, n, S)
    BY SearchSteps
  <2>. HIDE DEF S
  <2>. QED
    BY <2>1, DirFacts DEF GoesOn
<1>. HIDE DEF S
<1>1. 0 \in T
  <2>1. ASSUME NEW d \in DirsOf(fs)
        PROVE  WayFrom(fs, P, n, d, 0, S[0][d])
    <3>1. S[0][d] = <<>>
      BY <1>0
    <3>. QED
      BY <3>1, EmptySeq DEF WayFrom
  <2>. QED
    BY <2>1
<1>2. ASSUME NEW k \in 0 .. (FIND_DEPTH + 1) - 1, k \in T
      PROVE  k + 1 \in T
  <2>0. k \in 0 .. FIND_DEPTH /\ k + 1 \in 0 .. FIND_DEPTH + 1 /\ k \in Nat
    OBVIOUS
  <2>1. ASSUME NEW d \in DirsOf(fs)
        PROVE  WayFrom(fs, P, n, d, k + 1, S[k + 1][d])
    <3>. DEFINE f == S[k]
                r == find_recursive(fs, n, d, f)
    <3>1. S[k + 1][d] = r
      BY <1>0, <2>0
    <3>2. \A c \in DirsOf(fs) : WayFrom(fs, P, n, c, k, f[c])
      BY <1>2
    <3>3. \A c \in DirsOf(fs) : f[c] \in Seq(UserNames)
      BY <3>2 DEF WayFrom
    <3>. HIDE DEF f, r
    <3>4. CASE r = <<>>
      BY <3>1, <3>4, EmptySeq DEF WayFrom
    <3>5. CASE r # <<>>
      <4>1. PICK e : /\ Listed(fs, d, e, e.inode)
                     /\ \/ e.name = n /\ r = <<n>>
                        \/ /\ Descends(fs, d, e.inode) /\ f[e.inode] # <<>>
                           /\ r = <<e.name>> \o f[e.inode]
        <5>1. Stops(fs, n, d, f, r)
          BY <3>3, OneDirectory DEF r
        <5>. QED
          BY <3>5, <5>1 DEF Stops
      <4>2. CASE e.name = n /\ r = <<n>>
        BY <2>0, <3>1, <4>1, <4>2, WayToEntry
      <4>3. CASE /\ Descends(fs, d, e.inode) /\ f[e.inode] # <<>>
                 /\ r = <<e.name>> \o f[e.inode]
        <5>1. e.inode \in fs.imap
          BY <4>1, ListedFacts
        <5>2. e.inode \in DirsOf(fs) /\ e.inode # 1
          BY <4>3, <5>1 DEF Descends, DirsOf
        <5>. QED
          BY <2>0, <3>1, <3>2, <4>1, <4>3, <5>2, WayThroughEntry
      <4>. QED
        BY <4>1, <4>2, <4>3
    <3>. QED
      BY <3>4, <3>5
  <2>. QED
    BY <2>0, <2>1
<1>. HIDE DEF T
<1>3. FIND_DEPTH + 1 \in Nat
  OBVIOUS
<1>4. \A k \in 0 .. FIND_DEPTH + 1 : k \in T
  BY <1>1, <1>2, <1>3, InductionUpTo
<1>. QED
  BY <1>4 DEF T, S

\* Every name stands in front of any record that is too long for the search.
Regular(fs) ==
  \A d \in DirsOf(fs) :
    LET es == EntriesOf(fs, d)
    IN  \A j \in DOMAIN es : es[j].name \notin {Dot, DotDot} =>
          \A k \in 1 .. j : RecLen(es, k) <= BLOCK_SIZE - 12

LEMMA ListedIsScanned ==
  ASSUME NEW fs, Regular(fs), NEW d, NEW e, NEW c, Listed(fs, d, e, c)
  PROVE  \E j \in Scanned(EntriesOf(fs, d)) : EntriesOf(fs, d)[j] = e
<1>. DEFINE es == EntriesOf(fs, d)
<1>1. d \in DirsOf(fs) /\ e \in ChildrenOf(fs, d)
  BY DEF Listed
<1>2. PICK j \in DOMAIN es : es[j] = e /\ es[j].name \notin {Dot, DotDot}
  BY <1>1 DEF ChildrenOf
<1>3. \A k \in 1 .. j : RecLen(es, k) <= BLOCK_SIZE - 12
  BY <1>1, <1>2 DEF Regular
<1>. QED
  BY <1>2, <1>3 DEF Scanned, NamesUpTo

\* Whatever lies within the depth and not below inode 1 makes the search find something.
LEMMA SearchIsComplete ==
  ASSUME NEW fs, DiskOK(fs), Regular(fs), NEW P, Named(fs, P), NEW n \in UserNames,
         NEW i \in fs.imap, P[i] # <<>>, Last(P[i]) = n,
         1 \in fs.imap => ~ IsStrictPrefix(P[1], P[i])
  PROVE  \A k \in 0 .. FIND_DEPTH + 1 : \A d \in DirsOf(fs) : \A m \in 0 .. Len(P[i]) - 1 :
           P[d] = SubSeq(P[i], 1, m) /\ Len(P[i]) - m <= k => SearchOf(fs, n)[k][d] # <<>>
<1>. DEFINE S == SearchOf(fs, n)
            p == P[i]
            L == Len(p)
            T == {k \in 0 .. FIND_DEPTH + 1 :
                    \A d \in DirsOf(fs) : \A m \in 0 .. L - 1 :
                      P[d] = SubSeq(p, 1, m) /\ L - m <= k => S[k][d] # <<>>}
<1>1. p \in Seq(UserNames) /\ L \in Nat \ {0} /\ p[L] = n
  BY EmptySeq DEF Named, Last
<1>2. \A m \in 0 .. L - 1 :
        \E d, e, c : /\ Listed(fs, d, e, c)
                     /\ P[d] = SubSeq(p, 1, m) /\ e.name = p[m + 1]
                     /\ P[c] = SubSeq(p, 1, m + 1)
  <2>1. LeadsTo(fs, P, p)
    BY PathSteps
  <2>. HIDE DEF S, T, p
  <2>. QED
    BY <2>1 DEF LeadsTo, L
<1>3. \A a, b \in fs.imap : P[a] = P[b] => a = b
  BY DEF Named
<1>4. /\ \A d \in DirsOf(fs) : d \in Inodes /\ d \in fs.imap /\ DirShaped(fs, d)
      /\ \A d \in DirsOf(fs) : \A k \in 0 .. FIND_DEPTH :
           S[k + 1][d] = find_recursive(fs, n, d, S[k])
  <2>1. GoesOn(fs, n, S)
    BY SearchSteps
  <2>. HIDE DEF S
  <2>. QED
    BY <2>1, DirFacts DEF GoesOn
<1>5. \A k \in 0 .. FIND_DEPTH + 1 : \A d \in DirsOf(fs) : S[k][d] \in Seq(UserNames)
  BY SearchIsSound DEF WayFrom
<1>6. 1 \in fs.imap => ~ IsStrictPrefix(P[1], p)
  OBVIOUS
<1>. HIDE DEF S, p, L
<1>7. 0 \in T
  <2>1. \A m \in 0 .. L - 1 : ~ (L - m <= 0)
    BY <1>1
  <2>. QED
    BY <2>1
<1>8. ASSUME NEW k \in 0 .. (FIND_DEPTH + 1) - 1, k \in T
      PROVE  k + 1 \in T
  <2>0. k \in 0 .. FIND_DEPTH /\ k \in 0 .. FIND_DEPTH + 1 /\ k + 1 \in 0 .. FIND_DEPTH + 1 /\ k \in Nat
    OBVIOUS
  <2>1. ASSUME NEW d \in DirsOf(fs), NEW m \in 0 .. L - 1,
               P[d] = SubSeq(p, 1, m), L - m <= k + 1
        PROVE  S[k + 1][d] # <<>>
    <3>1. PICK c, e : /\ Listed(fs, d, e, c)
                      /\ e.name = p[m + 1] /\ P[c] = SubSeq(p, 1, m + 1)
      <4>1. PICK a, e, c : /\ Listed(fs, a, e, c)
                           /\ P[a] = SubSeq(p, 1, m) /\ e.name = p[m + 1]
                           /\ P[c] = SubSeq(p, 1, m + 1)
        BY <1>2
      <4>2. a \in fs.imap /\ d \in fs.imap
        BY <1>4, <4>1, ListedFacts
      <4>3. a = d
        BY <1>3, <2>1, <4>1, <4>2
      <4>. QED
        BY <4>1, <4>3
    <3>2. c \in fs.imap /\ c # d /\ e.inode = c
      BY <3>1, ListedFacts DEF Listed
    <3>3. Leads(fs, n, d, e, S[k])
      <4>1. CASE m + 1 = L
        BY <1>1, <3>1, <4>1 DEF Leads
      <4>2. CASE m + 1 # L
        <5>1. m + 1 \in 0 .. L - 1 /\ L - (m + 1) <= k
          BY <1>1, <2>0, <2>1, <4>2
        <5>2. PICK a, f, b : Listed(fs, a, f, b) /\ P[a] = SubSeq(p, 1, m + 1)
          BY <1>2, <5>1
        <5>3. a \in fs.imap /\ a \in DirsOf(fs)
          BY <5>2, ListedFacts
        <5>4. c \in DirsOf(fs)
          BY <1>3, <3>1, <3>2, <5>2, <5>3
        <5>5. S[k][c] # <<>>
          BY <1>8, <3>1, <5>1, <5>4
        <5>6. IsStrictPrefix(SubSeq(p, 1, m + 1), p)
          <6>1. m + 1 \in 0 .. Len(p) /\ m + 1 < Len(p)
            BY <1>1, <5>1 DEF L
          <6>. QED
            BY <1>1, <6>1, UpToFacts
        <5>7. c # 1
          BY <1>6, <3>1, <3>2, <5>6
        <5>8. c > 1
          BY <1>4, <5>4, <5>7 DEF Inodes
        <5>9. IsDirectory(fs, c) /\ fs.node[c].size > 0 /\ DirBlock(fs, c) # NoBlock
          BY <1>4, <5>4, DirShapeFacts, BlockKinds
        <5>. QED
          BY <3>2, <5>5, <5>8, <5>9 DEF Leads, Descends
      <4>. QED
        BY <4>1, <4>2
    <3>4. \E j \in Scanned(EntriesOf(fs, d)) : EntriesOf(fs, d)[j] = e
      BY <3>1, ListedIsScanned
    <3>5. Stops(fs, n, d, S[k], find_recursive(fs, n, d, S[k]))
      BY <1>5, <2>0, OneDirectory
    <3>6. find_recursive(fs, n, d, S[k]) # <<>>
      BY <3>3, <3>4, <3>5 DEF Stops
    <3>. QED
      BY <1>4, <2>0, <3>6
  <2>. QED
    BY <2>0, <2>1
<1>. HIDE DEF T
<1>9. FIND_DEPTH + 1 \in Nat
  OBVIOUS
<1>10. \A k \in 0 .. FIND_DEPTH + 1 : k \in T
  BY <1>7, <1>8, <1>9, InductionUpTo
<1>. QED
  BY <1>10 DEF T, S, L, p

\* The search looks at nothing but inodes and blocks.
LEMMA SameSearch ==
  ASSUME NEW fs, NEW h, SameContent(fs, h)
  PROVE  \A n : FromRoot(fs, n) = FromRoot(h, n)
<1>1. \A d : EntriesOf(fs, d) = EntriesOf(h, d)
  BY ContentFacts
<1>2. \A d, i : Descends(fs, d, i) <=> Descends(h, d, i)
  BY ContentFacts DEF Descends, SameContent
<1>3. \A n, d, f : find_recursive(fs, n, d, f) = find_recursive(h, n, d, f)
  <2>. SUFFICES ASSUME NEW n, NEW d, NEW f
                PROVE  find_recursive(fs, n, d, f) = find_recursive(h, n, d, f)
    OBVIOUS
  <2>. DEFINE es == EntriesOf(h, d)
              BehindOf(g, j) == IF Descends(g, d, es[j].inode) THEN f[es[j].inode] ELSE <<>>
              HitsOf(g) == {j \in Scanned(es) : es[j].name = n \/ BehindOf(g, j) # <<>>}
              PathOf(g) == IF HitsOf(g) = {} THEN <<>>
                           ELSE IF es[Min(HitsOf(g))].name = n THEN <<n>>
                           ELSE <<es[Min(HitsOf(g))].name>> \o BehindOf(g, Min(HitsOf(g)))
  <2>1. \A j : BehindOf(fs, j) = BehindOf(h, j)
    BY <1>2
  <2>2. find_recursive(h, n, d, f) = PathOf(h)
    BY Zenon DEF find_recursive
  <2>3. EntriesOf(fs, d) = es
    BY <1>1
  <2>4. find_recursive(fs, n, d, f) = PathOf(fs)
    BY <2>3, Zenon DEF find_recursive
  <2>. HIDE DEF es, BehindOf
  <2>5. HitsOf(fs) = HitsOf(h)
    BY <2>1
  <2>. HIDE DEF HitsOf
  <2>6. PathOf(fs) = PathOf(h)
    BY <2>1, <2>5
  <2>. QED
    BY <2>2, <2>4, <2>6
<1>. SUFFICES ASSUME NEW n
              PROVE  FromRoot(fs, n) = FromRoot(h, n)
  OBVIOUS
<1>4. \A S : IsSearch(fs, n, S) <=> IsSearch(h, n, S)
  BY <1>3 DEF IsSearch
<1>5. SearchOf(fs, n) = SearchOf(h, n)
  BY <1>4 DEF SearchOf
<1>. QED
  BY <1>5, FindIs

\* The heading leaves room for the hit.
LEMMA HeadingFits ==
  ASSUME NEW n \in UserNames, NEW row \in OutputRows, row < FIND_ROWS
  PROVE  RowBehindHeading(n, row) < HIT_ROWS
<1>. DEFINE d == (HeadingLen + NameLen[n]) \div COLUMNS
<1>1. /\ COLUMNS \in Nat \ {0} /\ FIND_ROWS \in Nat /\ HIT_ROWS \in Nat /\ row \in Nat
      /\ FIND_ROWS + d < HIT_ROWS
  BY FindAssumption DEF UserNames
<1>2. HeadingLen + NameLen[n] \in Nat
  BY DEF UserNames, HeadingLen
<1>3. d \in Int
  BY <1>1, <1>2
<1>4. RowBehindHeading(n, row) = row + d + 1
  BY DEF RowBehindHeading
<1>. HIDE DEF d
<1>. QED
  BY <1>1, <1>3, <1>4

\* In a row where it searches, find says what the search came to.
LEMMA FindSays ==
  ASSUME NEW fs, NEW n \in UserNames, NEW row \in OutputRows
  PROVE  /\ row >= FIND_ROWS => handle_find(fs, n, row) = Answer("no room", <<>>)
         /\ row < FIND_ROWS =>
              handle_find(fs, n, row) =
                IF FromRoot(fs, n) = <<>> THEN Answer("not found", <<>>)
                ELSE Answer("found", FromRoot(fs, n))
<1>1. ~ (row < FIND_ROWS) <=> row >= FIND_ROWS
  BY FindAssumption
<1>2. CASE row >= FIND_ROWS
  BY <1>1, <1>2 DEF handle_find
<1>3. CASE row < FIND_ROWS
  BY <1>1, <1>3, HeadingFits DEF handle_find
<1>. QED
  BY <1>1, <1>2, <1>3

LEMMA FindInSound ==
  ASSUME NEW h, DiskOK(h), SameContent(disk, h), NEW P, Named(h, P)
  PROVE  FindIsRight
<1>. DEFINE there(n) == {p \in {l.path : l \in Located} : p # <<>> /\ Last(p) = n}
            Reached(p) ==
              /\ Len(p) <= FIND_DEPTH + 1
              /\ \A l \in Located : l.inode = 1 => ~ IsStrictPrefix(l.path, p)
<1>0. \A n : FromRoot(disk, n) = FromRoot(h, n)
  BY SameSearch
<1>1. Located = {PlaceOf(P, i) : i \in h.imap}
  BY LocatedAll
<1>2. \A n : there(n) = {p \in {P[i] : i \in h.imap} : p # <<>> /\ Last(p) = n}
  <2>1. \A i : PlaceOf(P, i).path = P[i]
    BY DEF PlaceOf
  <2>2. {l.path : l \in Located} = {P[i] : i \in h.imap}
    BY <1>1, <2>1
  <2>. QED
    BY <2>2
<1>3. ASSUME NEW p
      PROVE  Reached(p) <=>
               /\ Len(p) <= FIND_DEPTH + 1
               /\ 1 \in h.imap => ~ IsStrictPrefix(P[1], p)
  <2>1. \A i : PlaceOf(P, i).path = P[i] /\ PlaceOf(P, i).inode = i
    BY DEF PlaceOf
  <2>2. (\A l \in Located : l.inode = 1 => ~ IsStrictPrefix(l.path, p))
          <=> (1 \in h.imap => ~ IsStrictPrefix(P[1], p))
    BY <1>1, <2>1
  <2>. QED
    BY <2>2
<1>4. /\ \A i \in h.imap : P[i] \in Seq(UserNames)
      /\ P[Root] = <<>> /\ Root \in h.imap /\ Root \in DirsOf(h)
      /\ 1 \in h.imap => P[1] # <<>>
  BY DEF Named, DiskOK, DirsOf, Root
<1>5. ASSUME NEW n \in UserNames, FromRoot(disk, n) # <<>>
      PROVE  FromRoot(disk, n) \in there(n) /\ Reached(FromRoot(disk, n))
  <2>. DEFINE r == FromRoot(disk, n)
  <2>1. r = SearchOf(h, n)[FIND_DEPTH + 1][Root]
    BY <1>0, FindIs
  <2>2. FIND_DEPTH + 1 \in 0 .. FIND_DEPTH + 1
    OBVIOUS
  <2>3. WayFrom(h, P, n, Root, FIND_DEPTH + 1, r)
    BY <1>4, <2>1, <2>2, SearchIsSound
  <2>. HIDE DEF r
  <2>4. PICK i \in h.imap :
          /\ P[i] = P[Root] \o r /\ Last(r) = n /\ Len(r) <= FIND_DEPTH + 1
          /\ 1 \in h.imap /\ ~ IsPrefix(P[1], P[Root]) => ~ IsStrictPrefix(P[1], P[i])
    BY <1>5, <2>3 DEF WayFrom, r
  <2>5. r \in Seq(UserNames)
    BY <2>3 DEF WayFrom
  <2>6. P[i] = r
    BY <1>4, <2>4, <2>5, ConcatEmptySeq
  <2>7. 1 \in h.imap => ~ IsPrefix(P[1], <<>>)
    <3>1. ASSUME 1 \in h.imap
          PROVE  ~ (Len(P[1]) <= Len(<<>>))
      BY <1>4, <3>1, EmptySeq
    <3>. QED
      BY <3>1 DEF IsPrefix
  <2>. HIDE DEF there, Reached
  <2>8. r \in there(n)
    BY <1>2, <1>5, <2>4, <2>6 DEF r
  <2>9. Reached(r)
    BY <1>3, <1>4, <2>4, <2>6, <2>7
  <2>. QED
    BY <2>8, <2>9 DEF r
<1>6. ASSUME NEW n \in UserNames, Regular(h), NEW p \in there(n), Reached(p)
      PROVE  FromRoot(disk, n) # <<>>
  <2>0. p \in {q \in {P[i] : i \in h.imap} : q # <<>> /\ Last(q) = n}
    <3>1. p \in there(n) /\ there(n) = {q \in {P[i] : i \in h.imap} : q # <<>> /\ Last(q) = n}
      <4>. HIDE DEF there, Reached
      <4>. QED
        BY <1>2, <1>6
    <3>. HIDE DEF there, Reached
    <3>. QED
      BY <3>1
  <2>. HIDE DEF there, Reached
  <2>1. PICK i \in h.imap : p = P[i] /\ P[i] # <<>> /\ Last(P[i]) = n
    <3>1. p \in {P[i] : i \in h.imap} /\ p # <<>> /\ Last(p) = n
      BY <2>0
    <3>. QED
      BY <3>1
  <2>2. Len(P[i]) <= FIND_DEPTH + 1 /\ (1 \in h.imap => ~ IsStrictPrefix(P[1], P[i]))
    BY <1>3, <1>6, <2>1
  <2>3. \A k \in 0 .. FIND_DEPTH + 1 : \A d \in DirsOf(h) : \A m \in 0 .. Len(P[i]) - 1 :
          P[d] = SubSeq(P[i], 1, m) /\ Len(P[i]) - m <= k => SearchOf(h, n)[k][d] # <<>>
    BY <1>6, <2>1, <2>2, SearchIsComplete
  <2>4. Len(P[i]) \in Nat \ {0}
    BY <1>4, <2>1, EmptySeq
  <2>5. /\ 0 \in 0 .. Len(P[i]) - 1 /\ Len(P[i]) - 0 <= FIND_DEPTH + 1
        /\ FIND_DEPTH + 1 \in 0 .. FIND_DEPTH + 1
    BY <2>2, <2>4
  <2>6. SubSeq(P[i], 1, 0) = <<>>
    BY SubSeqEmpty
  <2>7. SearchOf(h, n)[FIND_DEPTH + 1][Root] # <<>>
    BY <1>4, <2>3, <2>5, <2>6
  <2>. QED
    BY <1>0, <2>7, FindIs
<1>7. Regular(h) <=>
        \A l \in Located : IsDirectory(disk, l.inode) =>
          LET es == EntriesOf(disk, l.inode)
          IN  \A j \in DOMAIN es : es[j].name \notin {Dot, DotDot} =>
                \A k \in 1 .. j : RecLen(es, k) <= BLOCK_SIZE - 12
  <2>1. \A i : PlaceOf(P, i).inode = i
    BY DEF PlaceOf
  <2>2. \A i : (IsDirectory(disk, i) <=> IsDirectory(h, i)) /\ EntriesOf(disk, i) = EntriesOf(h, i)
    BY ContentFacts
  <2>. QED
    BY <1>1, <2>1, <2>2 DEF Regular, DirsOf
<1>8. \A n \in UserNames :
        /\ FromRoot(disk, n) # <<>> => FromRoot(disk, n) \in there(n)
        /\ Regular(h) => (FromRoot(disk, n) # <<>> <=> \E p \in there(n) : Reached(p))
  <2>. HIDE DEF there, Reached
  <2>. QED
    BY <1>5, <1>6
<1>9. ASSUME NEW n \in UserNames, NEW row \in OutputRows
      PROVE  LET answer == handle_find(disk, n, row)
             IN  /\ answer.says = "found" => answer.path \in there(n)
                 /\ row < FIND_ROWS =>
                      /\ answer.says \in {"found", "not found"}
                      /\ Regular(h) => (answer.says = "found" <=> \E p \in there(n) : Reached(p))
  <2>. DEFINE answer == handle_find(disk, n, row)
              path   == FromRoot(disk, n)
  <2>1. /\ path # <<>> => path \in there(n)
        /\ Regular(h) => (path # <<>> <=> \E p \in there(n) : Reached(p))
    BY <1>8
  <2>2. ~ (row < FIND_ROWS) <=> row >= FIND_ROWS
    BY FindAssumption
  <2>3. /\ row >= FIND_ROWS => answer = Answer("no room", <<>>)
        /\ row < FIND_ROWS =>
             answer = IF path = <<>> THEN Answer("not found", <<>>) ELSE Answer("found", path)
    BY FindSays
  <2>7. \A says, p : Answer(says, p).says = says /\ Answer(says, p).path = p
    BY DEF Answer
  <2>. HIDE DEF there, Reached, answer, path
  <2>4. CASE row >= FIND_ROWS
    <3>1. answer.says = "no room"
      BY <2>3, <2>4, <2>7
    <3>. QED
      BY <2>2, <2>4, <3>1 DEF answer
  <2>5. CASE row < FIND_ROWS /\ path = <<>>
    <3>1. answer.says = "not found"
      BY <2>3, <2>5, <2>2, <2>7
    <3>. QED
      BY <2>1, <2>5, <3>1 DEF answer
  <2>6. CASE row < FIND_ROWS /\ path # <<>>
    <3>1. answer.says = "found" /\ answer.path = path
      BY <2>3, <2>6, <2>2, <2>7
    <3>. QED
      BY <2>1, <2>6, <3>1 DEF answer
  <2>. QED
    BY <2>2, <2>4, <2>5, <2>6
<1>. QED
  BY <1>7, <1>9 DEF FindIsRight

-----------------------------------------------------------------------------
(* The theorems. *)

\* The path that the shell shows always leads to the directory it is in, and
\* every file and directory has one path (builtin_commands.c:281-373).
THEOREM ShownPathLeadsThere == Spec /\ []AllStored => []PathInv
<1>1. PathInv /\ AllStored' /\ [Next]_vars => PathInv'
  BY StepInTree
<1>. QED
  BY <1>1, InitInTree, PTL DEF Spec

\* The file commands implement the tree of names of FileTree: each of them
\* changes one name in the directory that the shell shows or nothing, a copy
\* holds what the file held in its direct blocks, only an empty folder goes, and
\* a read shows the whole file of that name (builtin_commands.c:281-423, 424-470,
\* 595-809, interrupt.c:127-887).
THEOREM CommandsImplementTree == Spec /\ []AllStored => ImplementsFileTree
<1>1. PathInv /\ AllStored' /\ [Next]_vars
        => PathInv' /\ [FT!Next]_<<Tree, current_working_directory, buf>>
  BY StepInTree
<1>. QED
  BY <1>1, InitInTree, PTL DEF Spec, ImplementsFileTree, FT!Spec, FT!vars

\* What find prints is there, under the name it looked for; in a row of the screen where
\* it does not refuse, it says whether it found something, and it finds whatever lies
\* within the depth it descends to, not below inode 1 and in front of any record that is
\* too long for it: for trees of every depth, every set of names and every row
\* (builtin_commands.c:844-1085).
THEOREM FindSafe == Spec /\ []AllStored => []FindIsRight
<1>1. PathInv => FindIsRight
  BY FindInSound DEF PathInv, FInv, SameContent
<1>. QED
  BY <1>1, ShownPathLeadsThere, PTL
=============================================================================
