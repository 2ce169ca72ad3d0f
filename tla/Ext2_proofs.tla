----------------------------- MODULE Ext2_proofs ----------------------------
(***************************************************************************)
(* The image stays sound under every command, for every size of the image,   *)
(* of its inodes and of its directory blocks and every set of names: no     *)
(* block has two owners, the names and the inodes agree, the directory      *)
(* blocks are chains of records, and ".." leads back.                        *)
(*                                                                         *)
(* The inode table of the code is longer than its blocks (StoredInodes), and *)
(* an inode beyond them is lost when it is written; what is proved here holds *)
(* as long as no live inode is one of those (AllStored).                     *)
(***************************************************************************)
EXTENDS Ext2, NatSets_proofs, SequenceTheorems

USE Ext2Assumption

AllStored == disk.imap \subseteq 1 .. StoredInodes

-----------------------------------------------------------------------------
\* The kinds of content a block can have.
EntryRec == [inode : Inodes, name : UserNames \cup {Dot, DotDot},
             type : {"dir", "reg"}, at : Nat]
Pointers == Blocks \cup {NoBlock}
PtrTable == [0 .. PTRS - 1 -> Pointers]
Data     == [file : UserNames, part : Nat]
Content  == Seq(EntryRec) \cup PtrTable \cup Seq(Data)

NodeType == [mode : {"none", "reg", "dir"}, size : Nat, blocks : Nat,
             ptr : [Direct -> Pointers], ind : Pointers]

Image == [imap : SUBSET Inodes, bmap : SUBSET Blocks,
          node : [Inodes -> NodeType], blk : [Blocks -> Content]]

DirsOf(fs) == {d \in fs.imap : IsDirectory(fs, d)}

\* A live inode is a directory of one block, or a file whose size is the number
\* of its blocks and whose table, if it has one, is a table.
DirShaped(fs, i) == fs.node[i].ptr[0] \in Blocks /\ fs.node[i] = DirNode(fs.node[i].ptr[0])

FileShaped(fs, i) ==
  LET nd == fs.node[i]
  IN  /\ nd.mode = "reg"
      /\ nd.blocks = nd.size
      /\ nd.size <= DIRECT + PTRS
      /\ nd.ind # NoBlock => fs.blk[nd.ind] \in PtrTable

Shapes(fs) == \A i \in fs.imap : DirShaped(fs, i) \/ FileShaped(fs, i)

OncePointed(nd) ==
  \A k, l \in Direct : k # l /\ nd.ptr[k] = nd.ptr[l] => nd.ptr[k] = NoBlock

Owning(fs) ==
  /\ \A i \in fs.imap : BlocksOf(fs, i) \subseteq fs.bmap
  /\ \A i, j \in fs.imap : i # j => BlocksOf(fs, i) \cap BlocksOf(fs, j) = {}
  /\ \A i \in fs.imap : OncePointed(fs.node[i])

\* The table of directory d: "." first, then ".." unless d is the root, records
\* that do not overlap, and every name once.
RecordsFit(es) == \A j \in DOMAIN es : RecLen(es, j) >= get_entry_record_len(es[j].name)
NamesOnce(es)  == \A j, k \in DOMAIN es : es[j].name = es[k].name => j = k

TableOK(fs, d) ==
  LET es == EntriesOf(fs, d)
  IN  /\ es \in Seq(EntryRec) /\ Len(es) >= 1
      /\ es[1].name = Dot /\ es[1].inode = d
      /\ d # Root => Len(es) >= 2 /\ es[2].name = DotDot
      /\ RecordsFit(es)
      /\ NamesOnce(es)

Tables(fs) == \A d \in DirsOf(fs) : TableOK(fs, d)

\* e is an entry of d that leads to i.
Listed(fs, d, e, i) == d \in DirsOf(fs) /\ e \in ChildrenOf(fs, d) /\ e.inode = i

Naming(fs) ==
  /\ \A d \in DirsOf(fs) : \A e \in ChildrenOf(fs, d) :
       /\ e.inode \in fs.imap \ {Root, d}
       /\ fs.node[e.inode].mode = e.type
  /\ \A i \in fs.imap \ {Root} : \E d, e : Listed(fs, d, e, i)
  /\ \A i, c, d, e, f : Listed(fs, c, e, i) /\ Listed(fs, d, f, i) => c = d /\ e = f

Parents(fs) ==
  \A d \in DirsOf(fs) : \A e \in ChildrenOf(fs, d) :
    e.type = "dir" => EntriesOf(fs, e.inode)[2].inode = d

\* The directories are one tree: a set with the root that has the children of its
\* directories is the set of all live inodes.
Closed(fs, S) ==
  /\ Root \in S
  /\ \A d \in S \cap DirsOf(fs) : \A e \in ChildrenOf(fs, d) : e.inode \in S

Rooted(fs) == \A S \in SUBSET fs.imap : Closed(fs, S) => S = fs.imap

DiskOK(fs) ==
  /\ fs \in Image
  /\ Root \in DirsOf(fs)
  /\ Shapes(fs)
  /\ Owning(fs)
  /\ Tables(fs)
  /\ Naming(fs)
  /\ Parents(fs)
  /\ Rooted(fs)

\* What a command that changes name n of directory d leaves alone.
Frame(fs, gs, d, n) ==
  /\ \A i \in fs.imap \cap gs.imap : gs.node[i] = fs.node[i]
  /\ \A b \in fs.bmap : b # DirBlock(fs, d) => gs.blk[b] = fs.blk[b]
  /\ {e \in ChildrenOf(gs, d) : e.name # n} = {e \in ChildrenOf(fs, d) : e.name # n}

\* gs has one inode more than fs, which got a name n that directory d did not have.
Grown(fs, gs, d, n, i) ==
  /\ i \in Inodes \ fs.imap
  /\ gs.imap = fs.imap \cup {i}
  /\ ~ Has(EntriesOf(fs, d), n)

\* Inode i of gs has the direct blocks of file src of fs, and nothing behind them.
CopyOf(fs, gs, src, i) ==
  /\ gs.node[i].mode = "reg" /\ gs.node[i].size = fs.node[src].size
  /\ gs.node[i].ind = NoBlock
  /\ \A k \in Direct :
       IF k \in CopiedBlocks(fs.node[src])
       THEN /\ gs.node[i].ptr[k] # NoBlock
            /\ gs.blk[gs.node[i].ptr[k]] = fs.blk[fs.node[src].ptr[k]]
       ELSE gs.node[i].ptr[k] = NoBlock

-----------------------------------------------------------------------------
(* Constants. *)

LEMMA NamesApart ==
  /\ \A n \in UserNames : n # Dot /\ n # DotDot /\ n # NoName
  /\ Dot # DotDot
BY DEF UserNames, Dot, DotDot, NoName

LEMMA RecordLengths ==
  /\ \A n \in UserNames : get_entry_record_len(n) \in Nat /\ get_entry_record_len(n) >= 10
  /\ get_entry_record_len(Dot) = 10
  /\ get_entry_record_len(DotDot) = 11
  /\ \A n \in UserNames \cup {Dot, DotDot} : get_entry_record_len(n) \in Nat
  /\ BLOCK_SIZE \in Nat /\ BLOCK_SIZE >= 32
  /\ BLOCK_SIZE - 12 >= get_entry_record_len(ShellName)
<1>1. \A n \in UserNames : NameLen[n] \in 1 .. 255
  BY DEF UserNames
<1>2. \A n \in UserNames : get_entry_record_len(n) = 9 + NameLen[n]
  BY NamesApart DEF get_entry_record_len, DirEntryHeader
<1>3. get_entry_record_len(Dot) = 10 /\ get_entry_record_len(DotDot) = 11
  BY NamesApart DEF get_entry_record_len, DirEntryHeader
<1>4. ShellName \in UserNames
  BY DEF UserNames
<1>. QED
  BY <1>1, <1>2, <1>3, <1>4

LEMMA BlockKinds ==
  /\ NoBlock \notin Blocks
  /\ 0 \in Direct
  /\ Root \in Inodes
  /\ Blocks \in SUBSET Nat /\ IsFiniteSet(Blocks)
  /\ Inodes \in SUBSET Nat /\ IsFiniteSet(Inodes)
<1>1. IsFiniteSet(Inodes)
  BY FS_Interval DEF Inodes
<1>. QED
  BY <1>1 DEF NoBlock, Direct, Root, Inodes

LEMMA ImageFields ==
  ASSUME NEW fs \in Image
  PROVE  /\ fs.imap \in SUBSET Inodes
         /\ fs.bmap \in SUBSET Blocks
         /\ fs.node \in [Inodes -> NodeType]
         /\ fs.blk \in [Blocks -> Content]
BY DEF Image

LEMMA NodeFields ==
  ASSUME NEW nd \in NodeType
  PROVE  /\ nd.mode \in {"none", "reg", "dir"}
         /\ nd.size \in Nat /\ nd.blocks \in Nat
         /\ nd.ptr \in [Direct -> Pointers]
         /\ nd.ind \in Pointers
BY DEF NodeType

LEMMA DirNodeFields ==
  ASSUME NEW b \in Blocks
  PROVE  /\ DirNode(b) \in NodeType
         /\ DirNode(b).mode = "dir" /\ DirNode(b).size = 1 /\ DirNode(b).blocks = 1
         /\ DirNode(b).ind = NoBlock
         /\ DirNode(b).ptr[0] = b
         /\ \A k \in Direct : k # 0 => DirNode(b).ptr[k] = NoBlock
<1>1. /\ ZeroNode \in NodeType /\ ZeroNode.ind = NoBlock
      /\ \A k \in Direct : ZeroNode.ptr[k] = NoBlock
  BY DEF ZeroNode, NodeType, Pointers
<1>. QED
  BY <1>1, BlockKinds DEF DirNode, NodeType, Pointers

-----------------------------------------------------------------------------
(* Sequences of entries. *)

LEMMA EntryFields ==
  ASSUME NEW e \in EntryRec
  PROVE  /\ e.inode \in Inodes /\ e.type \in {"dir", "reg"} /\ e.at \in Nat
         /\ e.name \in UserNames \cup {Dot, DotDot}
         /\ get_entry_record_len(e.name) \in Nat
BY RecordLengths DEF EntryRec

LEMMA AppendFacts ==
  ASSUME NEW S, NEW es \in Seq(S), NEW x \in S
  PROVE  /\ Append(es, x) \in Seq(S)
         /\ Len(Append(es, x)) = Len(es) + 1
         /\ Append(es, x)[Len(es) + 1] = x
         /\ \A k \in 1 .. Len(es) : Append(es, x)[k] = es[k]
OBVIOUS

LEMMA LastFacts ==
  ASSUME NEW S, NEW es \in Seq(S), Len(es) >= 1
  PROVE  Last(es) = es[Len(es)] /\ Last(es) \in S
BY ElementOfSeq DEF Last

LEMMA RemoveAtFacts ==
  ASSUME NEW S, NEW es \in Seq(S), NEW j \in 2 .. Len(es)
  PROVE  /\ RemoveAt(es, j) \in Seq(S)
         /\ Len(RemoveAt(es, j)) = Len(es) - 1
         /\ \A k \in 1 .. Len(es) - 1 : RemoveAt(es, j)[k] = IF k < j THEN es[k] ELSE es[k + 1]
BY DEF RemoveAt

\* The table ns is es without its entry j.
Without(ns, es, j) ==
  /\ ns \in Seq(EntryRec) /\ Len(ns) = Len(es) - 1
  /\ \A k \in 1 .. Len(es) - 1 : ns[k] = IF k < j THEN es[k] ELSE es[k + 1]

LEMMA EntryRemoved ==
  ASSUME NEW es \in Seq(EntryRec), NEW j \in 2 .. Len(es)
  PROVE  Without(RemoveAt(es, j), es, j)
BY RemoveAtFacts DEF Without

\* Where a name is, if it is there.
LEMMA IndexFacts ==
  ASSUME NEW S, NEW es \in Seq(S), NEW n, Has(es, n)
  PROVE  /\ IndexOf(es, n) \in 1 .. Len(es)
         /\ es[IndexOf(es, n)].name = n
<1>. DEFINE At == {j \in 1 .. Len(es) : es[j].name = n}
<1>1. DOMAIN es = 1 .. Len(es) /\ Len(es) \in Nat
  OBVIOUS
<1>2. At # {} /\ At \in SUBSET Nat
  BY <1>1 DEF Has
<1>3. PICK j \in At : \A k \in At : j <= k
  BY <1>2, LeastExists
<1>4. j \in DOMAIN es /\ es[j].name = n /\ \A k \in 1 .. j - 1 : es[k].name # n
  <2>1. \A k \in 1 .. j - 1 : k \in 1 .. Len(es) /\ ~ (j <= k)
    BY <1>1, <1>3
  <2>. QED
    BY <1>1, <1>3, <2>1
<1>5. /\ IndexOf(es, n) \in DOMAIN es
      /\ es[IndexOf(es, n)].name = n
  BY <1>4 DEF IndexOf
<1>. QED
  BY <1>1, <1>5

\* A new record at the end leaves a chain of records, and so does the removal of
\* any but the first.
LEMMA AppendFits ==
  ASSUME NEW es \in Seq(EntryRec), Len(es) >= 1, RecordsFit(es),
         NEW n \in UserNames, HasRoom(es, n), NEW i \in Inodes, NEW t \in {"dir", "reg"}
  PROVE  LET new == AddEntry(es, n, i, t)
         IN  /\ new \in Seq(EntryRec)
             /\ Len(new) = Len(es) + 1
             /\ \A k \in 1 .. Len(es) : new[k] = es[k]
             /\ new[Len(es) + 1].name = n
             /\ new[Len(es) + 1].inode = i
             /\ new[Len(es) + 1].type = t
             /\ RecordsFit(new)
<1>. DEFINE e == Entry(i, n, t, EndOfLast(es))
            new == AddEntry(es, n, i, t)
            L == Len(es)
<1>1. L \in Nat /\ L >= 1 /\ DOMAIN es = 1 .. L
  OBVIOUS
<1>2. \A k \in 1 .. L : es[k] \in EntryRec
  BY ElementOfSeq
<1>3. Last(es) = es[L] /\ Last(es) \in EntryRec
  BY LastFacts
<1>4. \A x \in EntryRec : x.at \in Nat /\ get_entry_record_len(x.name) \in Nat
  BY EntryFields
<1>5. EndOfLast(es) = es[L].at + get_entry_record_len(es[L].name) /\ EndOfLast(es) \in Nat
  BY <1>3, <1>4 DEF EndOfLast
<1>6. e \in EntryRec /\ e.inode = i /\ e.name = n /\ e.type = t /\ e.at = EndOfLast(es)
  BY <1>5 DEF Entry, EntryRec
<1>7. new = Append(es, e)
  BY DEF AddEntry
<1>. HIDE DEF e, new
<1>8. /\ new \in Seq(EntryRec) /\ Len(new) = L + 1
      /\ \A k \in 1 .. L : new[k] = es[k]
      /\ new[L + 1] = e /\ DOMAIN new = 1 .. L + 1
  BY <1>6, <1>7, AppendFacts
<1>. HIDE DEF L
<1>9. RecordsFit(new)
  <2>. SUFFICES ASSUME NEW j \in 1 .. L + 1
                PROVE  RecLen(new, j) >= get_entry_record_len(new[j].name)
    BY <1>8 DEF RecordsFit
  <2>1. CASE j < L
    <3>1. j \in 1 .. L /\ j + 1 \in 1 .. L /\ j # L + 1 /\ j # L
      BY <1>1, <2>1
    <3>2. RecLen(new, j) = RecLen(es, j) /\ new[j] = es[j]
      BY <1>8, <3>1 DEF RecLen, L
    <3>. QED
      BY <1>1, <3>1, <3>2 DEF RecordsFit
  <2>2. CASE j = L
    <3>1. new[j] = es[L] /\ new[j + 1] = e /\ j # L + 1
      BY <1>1, <1>8, <2>2
    <3>2. RecLen(new, j) = EndOfLast(es) - es[L].at
      BY <1>6, <1>8, <3>1 DEF RecLen
    <3>. QED
      BY <1>1, <1>2, <1>4, <1>5, <3>1, <3>2
  <2>3. CASE j = L + 1
    <3>1. RecLen(new, j) = BLOCK_SIZE - EndOfLast(es)
      BY <1>6, <1>8, <2>3 DEF RecLen
    <3>. QED
      BY <1>6, <1>8, <2>3, <3>1 DEF HasRoom
  <2>. QED
    BY <1>1, <2>1, <2>2, <2>3
<1>. QED
  BY <1>6, <1>8, <1>9 DEF new, L

LEMMA RemoveFits ==
  ASSUME NEW es \in Seq(EntryRec), RecordsFit(es), NEW j \in 2 .. Len(es)
  PROVE  RecordsFit(RemoveAt(es, j))
<1>. DEFINE new == RemoveAt(es, j)
            L == Len(es)
            End(k) == IF k = L THEN BLOCK_SIZE ELSE es[k + 1].at
<1>1. L \in Nat /\ DOMAIN es = 1 .. L /\ j \in 2 .. L
  OBVIOUS
<1>2. \A k \in 1 .. L : /\ es[k] \in EntryRec
                        /\ es[k].at \in Nat
                        /\ get_entry_record_len(es[k].name) \in Nat
  BY ElementOfSeq, EntryFields
<1>3. /\ new \in Seq(EntryRec) /\ Len(new) = L - 1 /\ DOMAIN new = 1 .. L - 1
      /\ \A k \in 1 .. L - 1 : new[k] = IF k < j THEN es[k] ELSE es[k + 1]
  BY RemoveAtFacts
<1>. HIDE DEF new
<1>4. \A k \in 1 .. L : End(k) - es[k].at >= get_entry_record_len(es[k].name)
  BY <1>1 DEF RecordsFit, RecLen
<1>5. \A k \in 1 .. L : End(k) \in Int
  <2>. SUFFICES ASSUME NEW k \in 1 .. L
                PROVE  End(k) \in Int
    OBVIOUS
  <2>1. CASE k = L
    BY <2>1, RecordLengths
  <2>2. CASE k # L
    <3>1. k + 1 \in 1 .. L
      <4>. HIDE DEF L, End
      <4>. QED
        BY <1>1, <2>2
    <3>. QED
      BY <1>2, <2>2, <3>1
  <2>. QED
    BY <2>1, <2>2
<1>6. End(j) >= es[j].at
  <2>. DEFINE e == End(j)
              a == es[j].at
              r == get_entry_record_len(es[j].name)
  <2>1. j \in 1 .. L
    BY <1>1
  <2>2. e \in Int /\ a \in Nat /\ r \in Nat /\ e - a >= r
    BY <1>2, <1>4, <1>5, <2>1
  <2>. HIDE DEF e, a, r
  <2>3. e >= a
    BY <2>2
  <2>. QED
    BY <2>3 DEF e, a
<1>. HIDE DEF L
<1>. SUFFICES ASSUME NEW k \in 1 .. L - 1
              PROVE  RecLen(new, k) >= get_entry_record_len(new[k].name)
  BY <1>3 DEF RecordsFit, new
<1>7. CASE k < j - 1
  <2>1. k + 1 \in 1 .. L - 1 /\ k + 1 < j /\ k < j /\ k # L - 1 /\ k # L /\ k \in 1 .. L
    BY <1>1, <1>7
  <2>2. new[k] = es[k] /\ new[k + 1] = es[k + 1]
    BY <1>3, <2>1
  <2>3. RecLen(new, k) = End(k) - es[k].at
    BY <1>3, <2>1, <2>2 DEF RecLen
  <2>. QED
    BY <1>4, <2>1, <2>2, <2>3
<1>8. CASE k = j - 1
  <2>1. k \in 1 .. L /\ k < j /\ k # L /\ k + 1 = j
    BY <1>1, <1>8
  <2>2. new[k] = es[k]
    BY <1>3, <2>1
  <2>3. RecLen(new, k) = End(j) - es[k].at
    <3>1. CASE k = L - 1
      BY <1>1, <1>3, <2>1, <2>2, <3>1 DEF RecLen
    <3>2. CASE k # L - 1
      <4>1. k + 1 \in 1 .. L - 1 /\ ~ (k + 1 < j) /\ j # L
        BY <1>1, <2>1, <3>2
      <4>2. new[k + 1] = es[j + 1]
        BY <1>3, <2>1, <4>1
      <4>. QED
        BY <1>3, <2>2, <3>2, <4>1, <4>2 DEF RecLen
    <3>. QED
      BY <3>1, <3>2
  <2>4. End(k) = es[j].at
    BY <2>1
  <2>. DEFINE e == End(j)
              a == es[j].at
              z == es[k].at
              r == get_entry_record_len(es[k].name)
  <2>5. e \in Int /\ a \in Nat /\ z \in Nat /\ r \in Nat /\ a - z >= r /\ e >= a
    BY <1>1, <1>2, <1>4, <1>5, <1>6, <2>1, <2>4
  <2>6. RecLen(new, k) = e - z /\ get_entry_record_len(new[k].name) = r
    BY <2>2, <2>3
  <2>. HIDE DEF e, a, z, r
  <2>. QED
    BY <2>5, <2>6
<1>9. CASE k >= j
  <2>1. k + 1 \in 1 .. L /\ ~ (k < j)
    BY <1>1, <1>9
  <2>2. new[k] = es[k + 1]
    BY <1>3, <2>1
  <2>3. RecLen(new, k) = End(k + 1) - es[k + 1].at
    <3>1. CASE k = L - 1
      BY <1>1, <1>3, <2>2, <3>1 DEF RecLen
    <3>2. CASE k # L - 1
      <4>1. k + 1 \in 1 .. L - 1 /\ ~ (k + 1 < j) /\ k + 1 # L
        BY <1>1, <1>9, <3>2
      <4>2. new[k + 1] = es[k + 2] /\ k + 1 + 1 = k + 2
        BY <1>3, <4>1
      <4>. QED
        BY <1>3, <2>2, <3>2, <4>1, <4>2 DEF RecLen
    <3>. QED
      BY <3>1, <3>2
  <2>. QED
    BY <1>4, <2>1, <2>2, <2>3
<1>. QED
  BY <1>1, <1>7, <1>8, <1>9

-----------------------------------------------------------------------------
(* Allocation. *)

LEMMA AllocateNode ==
  ASSUME NEW fs \in Image, FreeInodes(fs) # {}
  PROVE  allocate_node(fs) \in FreeInodes(fs) /\ allocate_node(fs) \in Inodes
<1>1. FreeInodes(fs) \in SUBSET Nat
  BY BlockKinds DEF FreeInodes
<1>2. \E i \in FreeInodes(fs) : \A j \in FreeInodes(fs) : i <= j
  BY <1>1, LeastExists
<1>3. allocate_node(fs) \in FreeInodes(fs)
  BY <1>2 DEF allocate_node
<1>. QED
  BY <1>3 DEF FreeInodes

LEMMA FreeBlocksFinite ==
  ASSUME NEW fs
  PROVE  /\ FreeBlocks(fs) \in SUBSET Nat /\ IsFiniteSet(FreeBlocks(fs))
         /\ Cardinality(FreeBlocks(fs)) \in Nat
BY BlockKinds, FS_Subset, FS_CardinalityType DEF FreeBlocks

LEMMA NthFreeFacts ==
  ASSUME NEW fs, NEW k \in Nat, k < Cardinality(FreeBlocks(fs))
  PROVE  NthFree(fs, k) \in FreeBlocks(fs) /\ Below(FreeBlocks(fs), NthFree(fs, k)) = k
<1>1. \E b \in FreeBlocks(fs) : Below(FreeBlocks(fs), b) = k
  BY FreeBlocksFinite, RankExists
<1>. QED
  BY <1>1 DEF NthFree, Below

LEMMA NthFreeOnce ==
  ASSUME NEW fs, NEW k \in Nat, k < Cardinality(FreeBlocks(fs)),
         NEW l \in Nat, l < Cardinality(FreeBlocks(fs)), NthFree(fs, k) = NthFree(fs, l)
  PROVE  k = l
BY NthFreeFacts

-----------------------------------------------------------------------------
(* What the parts of the invariant say of one inode. *)

LEMMA DirShapeFacts ==
  ASSUME NEW fs, NEW d, DirShaped(fs, d)
  PROVE  LET nd == fs.node[d]
         IN  /\ IsDirectory(fs, d) /\ nd.size = 1 /\ nd.blocks = 1 /\ nd.ind = NoBlock
             /\ DirBlock(fs, d) \in Blocks /\ nd.ptr[0] = DirBlock(fs, d)
<1>. DEFINE nd == fs.node[d]
            b  == DirBlock(fs, d)
<1>1. b \in Blocks /\ nd = DirNode(b)
  BY DEF DirShaped, DirBlock
<1>. HIDE DEF nd, b
<1>2. nd.mode = "dir" /\ nd.size = 1 /\ nd.blocks = 1 /\ nd.ind = NoBlock /\ nd.ptr[0] = b
  BY <1>1, DirNodeFields
<1>. QED
  BY <1>1, <1>2 DEF IsDirectory, nd, b

LEMMA OneBlockOfDir ==
  ASSUME NEW fs, NEW d, DirShaped(fs, d)
  PROVE  BlocksOf(fs, d) = {DirBlock(fs, d)} /\ DirBlock(fs, d) \in Blocks
<1>. DEFINE nd == fs.node[d]
            b  == DirBlock(fs, d)
<1>1. b \in Blocks /\ nd.size = 1 /\ nd.ind = NoBlock /\ nd.ptr[0] = b
  BY DirShapeFacts
<1>2. get_physical_block_from_logical(fs, nd, 0) = b
  BY <1>1 DEF get_physical_block_from_logical
<1>. HIDE DEF nd, b
<1>3. DataBlocks(fs, nd) = {b}
  <2>1. 0 .. nd.size - 1 = {0}
    BY <1>1
  <2>2. b # NoBlock
    BY <1>1, BlockKinds
  <2>. QED
    BY <1>2, <2>1, <2>2 DEF DataBlocks
<1>. QED
  BY <1>1, <1>3 DEF BlocksOf, nd, b

\* An inode refers to the same blocks as long as its record and its table stay.
LEMMA SameBlocks ==
  ASSUME NEW fs, NEW gs, NEW i, gs.node[i] = fs.node[i],
         fs.node[i].ind # NoBlock => gs.blk[fs.node[i].ind] = fs.blk[fs.node[i].ind]
  PROVE  BlocksOf(gs, i) = BlocksOf(fs, i)
<1>1. \A k : get_physical_block_from_logical(gs, fs.node[i], k)
               = get_physical_block_from_logical(fs, fs.node[i], k)
  BY DEF get_physical_block_from_logical
<1>2. DataBlocks(gs, fs.node[i]) = DataBlocks(fs, fs.node[i])
  BY <1>1 DEF DataBlocks
<1>. QED
  BY <1>2 DEF BlocksOf

LEMMA DirFacts ==
  ASSUME NEW fs, DiskOK(fs), NEW d \in DirsOf(fs)
  PROVE  /\ d \in fs.imap /\ d \in Inodes /\ fs.node[d].mode = "dir"
         /\ DirShaped(fs, d)
         /\ fs.node[d].ind = NoBlock
         /\ DirBlock(fs, d) \in fs.bmap /\ DirBlock(fs, d) \in Blocks
         /\ BlocksOf(fs, d) = {DirBlock(fs, d)}
         /\ TableOK(fs, d)
<1>1. d \in fs.imap /\ d \in Inodes /\ fs.node[d].mode = "dir" /\ TableOK(fs, d)
  BY ImageFields DEF DiskOK, DirsOf, IsDirectory, Tables
<1>2. DirShaped(fs, d)
  BY <1>1 DEF DiskOK, Shapes, FileShaped
<1>3. fs.node[d].ind = NoBlock
  BY <1>2, DirShapeFacts
<1>. QED
  BY <1>1, <1>2, <1>3, OneBlockOfDir DEF DiskOK, Owning

\* The table of a file is marked, and is no directory's block.
LEMMA IndirectFacts ==
  ASSUME NEW fs, DiskOK(fs), NEW i \in fs.imap, fs.node[i].ind # NoBlock
  PROVE  /\ fs.node[i].ind \in fs.bmap
         /\ \A d \in DirsOf(fs) : fs.node[i].ind # DirBlock(fs, d)
<1>1. fs.node[i].ind \in BlocksOf(fs, i)
  BY DEF BlocksOf
<1>2. \A d \in DirsOf(fs) : /\ d # i /\ d \in fs.imap
                            /\ BlocksOf(fs, d) = {DirBlock(fs, d)}
  BY DirFacts
<1>. QED
  BY <1>1, <1>2 DEF DiskOK, Owning

\* Two directories have two blocks.
LEMMA DirBlocksApart ==
  ASSUME NEW fs, DiskOK(fs), NEW c \in DirsOf(fs), NEW d \in DirsOf(fs), c # d
  PROVE  DirBlock(fs, c) # DirBlock(fs, d)
BY DirFacts DEF DiskOK, Owning

\* What stays when some live inodes keep their records and tables.
LEMMA ShapeKept ==
  ASSUME NEW fs, DiskOK(fs), NEW gs, NEW i \in fs.imap, gs.node[i] = fs.node[i],
         \A b \in fs.bmap : (\A d \in DirsOf(fs) : b # DirBlock(fs, d)) => gs.blk[b] = fs.blk[b]
  PROVE  /\ DirShaped(gs, i) \/ FileShaped(gs, i)
         /\ DirShaped(fs, i) => DirShaped(gs, i)
         /\ BlocksOf(gs, i) = BlocksOf(fs, i)
<1>1. fs.node[i].ind # NoBlock => gs.blk[fs.node[i].ind] = fs.blk[fs.node[i].ind]
  BY IndirectFacts
<1>2. BlocksOf(gs, i) = BlocksOf(fs, i)
  BY <1>1, SameBlocks
<1>3. DirShaped(fs, i) => DirShaped(gs, i)
  BY DEF DirShaped
<1>4. FileShaped(fs, i) => FileShaped(gs, i)
  BY <1>1 DEF FileShaped
<1>. QED
  BY <1>2, <1>3, <1>4 DEF DiskOK, Shapes

\* The entries of a table other than "." and "..".
KidsIn(es) == {es[j] : j \in {k \in DOMAIN es : es[k].name \notin {Dot, DotDot}}}

LEMMA ChildrenAreKids == \A fs, d : ChildrenOf(fs, d) = KidsIn(EntriesOf(fs, d))
BY DEF ChildrenOf, KidsIn

LEMMA TableFromEntries ==
  ASSUME NEW fs, NEW gs, NEW d, EntriesOf(gs, d) = EntriesOf(fs, d), TableOK(fs, d)
  PROVE  TableOK(gs, d)
BY DEF TableOK

\* A cleaned-up command: whatever it wrote to free inodes and free blocks, the
\* image is as sound as before once the bits are clear again.
LEMMA CleanedUpOK ==
  ASSUME NEW fs, DiskOK(fs), NEW gs \in Image, gs.imap = fs.imap, gs.bmap = fs.bmap,
         \A i \in fs.imap : gs.node[i] = fs.node[i],
         \A b \in fs.bmap : gs.blk[b] = fs.blk[b]
  PROVE  DiskOK(gs)
<1>1. \A i \in fs.imap : /\ DirShaped(gs, i) \/ FileShaped(gs, i)
                         /\ BlocksOf(gs, i) = BlocksOf(fs, i)
  BY ShapeKept
<1>2. DirsOf(gs) = DirsOf(fs)
  BY DEF DirsOf, IsDirectory
<1>3. Shapes(gs) /\ Owning(gs)
  BY <1>1 DEF Shapes, DiskOK, Owning
<1>4. \A d \in DirsOf(fs) : EntriesOf(gs, d) = EntriesOf(fs, d)
  BY DirFacts DEF EntriesOf, DirBlock
<1>5. \A d \in DirsOf(fs) : ChildrenOf(gs, d) = ChildrenOf(fs, d)
  BY <1>4, ChildrenAreKids
<1>6. Tables(gs)
  BY <1>2, <1>4, TableFromEntries DEF Tables, DiskOK
<1>7. \A i, d, e : Listed(gs, d, e, i) <=> Listed(fs, d, e, i)
  BY <1>2, <1>5 DEF Listed
<1>8. Naming(gs)
  <2>1. \A d \in DirsOf(gs) : \A e \in ChildrenOf(gs, d) :
          /\ e.inode \in gs.imap \ {Root, d}
          /\ gs.node[e.inode].mode = e.type
    BY <1>2, <1>5 DEF DiskOK, Naming
  <2>. QED
    BY <1>7, <2>1 DEF DiskOK, Naming
<1>9. Parents(gs)
  <2>. SUFFICES ASSUME NEW d \in DirsOf(fs), NEW e \in ChildrenOf(fs, d), e.type = "dir"
                PROVE  EntriesOf(gs, e.inode)[2].inode = d
    BY <1>2, <1>5 DEF Parents
  <2>1. e.inode \in DirsOf(fs)
    BY DEF DiskOK, Naming, DirsOf, IsDirectory
  <2>. QED
    BY <1>4, <2>1 DEF DiskOK, Parents
<1>10. Rooted(gs)
  BY <1>2, <1>5 DEF DiskOK, Rooted, Closed
<1>. QED
  BY <1>2, <1>3, <1>6, <1>8, <1>9, <1>10 DEF DiskOK

\* The table of a new directory is a sound table without children.
LEMMA NewTable ==
  ASSUME NEW i \in Inodes, NEW d \in Inodes
  PROVE  LET es == DirectoryTable(i, d)
         IN  /\ es \in Seq(EntryRec) /\ Len(es) = 2
             /\ es[1].name = Dot /\ es[1].inode = i
             /\ es[2].name = DotDot /\ es[2].inode = d
             /\ RecordsFit(es) /\ NamesOnce(es)
             /\ KidsIn(es) = {}
<1>. DEFINE e == Entry(i, Dot, "dir", 0)
            f == Entry(d, DotDot, "dir", get_entry_record_len(Dot))
            es == DirectoryTable(i, d)
<1>1. e \in EntryRec /\ e.name = Dot /\ e.inode = i /\ e.at = 0
  BY DEF Entry, EntryRec
<1>2. f \in EntryRec /\ f.name = DotDot /\ f.inode = d /\ f.at = 10
  BY RecordLengths DEF Entry, EntryRec
<1>3. es = <<e, f>>
  BY DEF DirectoryTable
<1>. HIDE DEF e, f, es
<1>4. es \in Seq(EntryRec) /\ Len(es) = 2 /\ es[1] = e /\ es[2] = f /\ DOMAIN es = {1, 2}
  BY <1>1, <1>2, <1>3
<1>5. RecLen(es, 1) = 10 /\ RecLen(es, 2) = BLOCK_SIZE - 10
  BY <1>1, <1>2, <1>4, RecordLengths DEF RecLen
<1>6. RecordsFit(es)
  BY <1>1, <1>2, <1>4, <1>5, RecordLengths DEF RecordsFit
<1>7. NamesOnce(es) /\ KidsIn(es) = {}
  BY <1>1, <1>2, <1>4, NamesApart DEF NamesOnce, KidsIn
<1>. QED
  BY <1>1, <1>2, <1>4, <1>6, <1>7 DEF es

\* What an added entry does to a table.
LEMMA AppendTable ==
  ASSUME NEW fs, NEW d, TableOK(fs, d), NEW es, es = EntriesOf(fs, d),
         NEW n \in UserNames, ~ Has(es, n), HasRoom(es, n),
         NEW i \in Inodes, NEW t \in {"dir", "reg"}, NEW gs,
         EntriesOf(gs, d) = AddEntry(es, n, i, t)
  PROVE  /\ TableOK(gs, d)
         /\ d # Root => EntriesOf(gs, d)[2] = es[2]
         /\ \E x : /\ x.name = n /\ x.inode = i /\ x.type = t
                   /\ KidsIn(EntriesOf(gs, d)) = KidsIn(es) \cup {x}
<1>. DEFINE ns == EntriesOf(gs, d)
            L == Len(es)
            x == ns[L + 1]
<1>1. es \in Seq(EntryRec) /\ L \in Nat /\ L >= 1 /\ RecordsFit(es) /\ DOMAIN es = 1 .. L
  BY DEF TableOK
<1>2. /\ ns \in Seq(EntryRec)
      /\ Len(ns) = L + 1
      /\ \A k \in 1 .. L : ns[k] = es[k]
      /\ x.name = n /\ x.inode = i /\ x.type = t
      /\ RecordsFit(ns)
  BY <1>1, AppendFits
<1>3. /\ es[1].name = Dot /\ es[1].inode = d
      /\ d # Root => L >= 2 /\ es[2].name = DotDot
      /\ NamesOnce(es)
  BY DEF TableOK
<1>4. \A k \in 1 .. L : es[k].name # n
  BY <1>1 DEF Has
<1>. HIDE DEF ns, L
<1>5. DOMAIN ns = 1 .. L + 1 /\ \A k \in 1 .. L + 1 : k \in 1 .. L \/ k = L + 1
  BY <1>1, <1>2
<1>6. NamesOnce(ns)
  <2>1. \A k \in 1 .. L : ns[k].name # x.name /\ k \in DOMAIN es
    BY <1>1, <1>2, <1>4
  <2>. SUFFICES ASSUME NEW k \in 1 .. L + 1, NEW l \in 1 .. L + 1, ns[k].name = ns[l].name
                PROVE  k = l
    BY <1>5 DEF NamesOnce
  <2>2. CASE k = L + 1 \/ l = L + 1
    BY <1>5, <2>1, <2>2
  <2>3. CASE k \in 1 .. L /\ l \in 1 .. L
    BY <1>2, <1>3, <2>1, <2>3 DEF NamesOnce
  <2>. QED
    BY <1>5, <2>2, <2>3
<1>7. KidsIn(ns) = KidsIn(es) \cup {x}
  <2>1. n \notin {Dot, DotDot}
    BY NamesApart
  <2>2. ASSUME NEW y \in KidsIn(es)
        PROVE  y \in KidsIn(ns)
    BY <1>1, <1>2, <1>5 DEF KidsIn
  <2>3. x \in KidsIn(ns)
    <3>1. L + 1 \in DOMAIN ns
      BY <1>1, <1>5
    <3>. QED
      BY <1>2, <2>1, <3>1 DEF KidsIn
  <2>4. ASSUME NEW y \in KidsIn(ns)
        PROVE  y \in KidsIn(es) \cup {x}
    BY <1>1, <1>2, <1>5 DEF KidsIn
  <2>. QED
    BY <2>2, <2>3, <2>4
<1>8. 1 \in 1 .. L /\ (d # Root => 2 \in 1 .. L)
  BY <1>1, <1>3
<1>9. TableOK(gs, d)
  BY <1>1, <1>2, <1>3, <1>6, <1>8 DEF TableOK, ns
<1>. QED
  BY <1>2, <1>7, <1>8, <1>9 DEF ns

\* A command that adds one entry to directory d, for an inode that was free and
\* that refers to blocks that were free.
LEMMA AddOK ==
  ASSUME NEW fs, DiskOK(fs), NEW gs \in Image,
         NEW d \in DirsOf(fs), NEW n \in UserNames, NEW t \in {"dir", "reg"},
         NEW i \in FreeInodes(fs), NEW new \in SUBSET FreeBlocks(fs),
         ~ Has(EntriesOf(fs, d), n), HasRoom(EntriesOf(fs, d), n),
         gs.imap = fs.imap \cup {i}, gs.bmap = fs.bmap \cup new,
         \A j \in fs.imap : gs.node[j] = fs.node[j],
         \A b \in fs.bmap : b # DirBlock(fs, d) => gs.blk[b] = fs.blk[b],
         gs.blk[DirBlock(fs, d)] = AddEntry(EntriesOf(fs, d), n, i, t),
         gs.node[i].mode = t,
         t = "dir" => DirShaped(gs, i) /\ EntriesOf(gs, i) = DirectoryTable(i, d),
         t = "reg" => FileShaped(gs, i),
         BlocksOf(gs, i) \subseteq new, OncePointed(gs.node[i])
  PROVE  DiskOK(gs)
<1>1. /\ i \in Inodes /\ i \notin fs.imap /\ i # Root /\ i # d
      /\ d \in fs.imap /\ d \in Inodes /\ Root \in fs.imap
      /\ new \cap fs.bmap = {}
  BY DirFacts DEF FreeInodes, FreeBlocks, DiskOK, DirsOf
<1>2. \A j \in fs.imap : /\ DirShaped(gs, j) \/ FileShaped(gs, j)
                         /\ BlocksOf(gs, j) = BlocksOf(fs, j)
  BY ShapeKept
<1>3. DirsOf(gs) = DirsOf(fs) \cup (IF t = "dir" THEN {i} ELSE {})
  BY <1>1 DEF DirsOf, IsDirectory
<1>4. Shapes(gs)
  BY <1>2 DEF Shapes
<1>5. Owning(gs)
  <2>1. \A j \in fs.imap : /\ BlocksOf(gs, j) \subseteq fs.bmap
                           /\ OncePointed(gs.node[j])
    BY <1>2 DEF DiskOK, Owning
  <2>2. \A j, k \in fs.imap : j # k => BlocksOf(gs, j) \cap BlocksOf(gs, k) = {}
    BY <1>2 DEF DiskOK, Owning
  <2>3. \A j \in fs.imap : BlocksOf(gs, j) \cap BlocksOf(gs, i) = {}
    BY <1>1, <2>1
  <2>. QED
    BY <2>1, <2>2, <2>3 DEF Owning
<1>6. \A c \in DirsOf(fs) : c # d => EntriesOf(gs, c) = EntriesOf(fs, c)
  <2>. SUFFICES ASSUME NEW c \in DirsOf(fs), c # d
                PROVE  EntriesOf(gs, c) = EntriesOf(fs, c)
    OBVIOUS
  <2>1. DirBlock(fs, c) # DirBlock(fs, d) /\ DirBlock(fs, c) \in fs.bmap /\ c \in fs.imap
    BY DirBlocksApart, DirFacts
  <2>. QED
    BY <2>1 DEF EntriesOf, DirBlock
<1>7. EntriesOf(gs, d) = AddEntry(EntriesOf(fs, d), n, i, t)
  BY <1>1 DEF EntriesOf, DirBlock
<1>8. TableOK(fs, d)
  BY DirFacts
<1>9. /\ TableOK(gs, d)
      /\ d # Root => EntriesOf(gs, d)[2] = EntriesOf(fs, d)[2]
  BY <1>1, <1>7, <1>8, AppendTable
<1>10. PICK x : /\ x.name = n /\ x.inode = i /\ x.type = t
                /\ ChildrenOf(gs, d) = ChildrenOf(fs, d) \cup {x}
  BY <1>1, <1>7, <1>8, AppendTable, ChildrenAreKids
<1>11. t = "dir" => TableOK(gs, i) /\ EntriesOf(gs, i)[2].inode = d /\ ChildrenOf(gs, i) = {}
  BY <1>1, NewTable, ChildrenAreKids DEF TableOK
<1>12. Tables(gs)
  <2>. SUFFICES ASSUME NEW c \in DirsOf(fs), c # d
                PROVE  TableOK(gs, c)
    BY <1>3, <1>9, <1>11 DEF Tables
  <2>. QED
    BY <1>6, DirFacts, TableFromEntries
<1>13. \A c \in DirsOf(fs) : c # d => ChildrenOf(gs, c) = ChildrenOf(fs, c)
  BY <1>6, ChildrenAreKids
<1>14. \A c, e, j : Listed(gs, c, e, j) <=> Listed(fs, c, e, j) \/ (c = d /\ e = x /\ j = i)
  BY <1>1, <1>3, <1>10, <1>11, <1>13 DEF Listed
<1>15. Naming(gs)
  <2>1. \A c, e, j : Listed(fs, c, e, j) => /\ j \in fs.imap \ {Root, c}
                                            /\ fs.node[j].mode = e.type
    BY DEF Listed, DiskOK, Naming
  <2>2. \A c, e, j : Listed(gs, c, e, j) => /\ j \in gs.imap \ {Root, c}
                                            /\ gs.node[j].mode = e.type
    BY <1>1, <1>10, <1>14, <2>1
  <2>3. \A j \in gs.imap \ {Root} : \E c, e : Listed(gs, c, e, j)
    BY <1>14 DEF DiskOK, Naming
  <2>4. \A j, b, c, e, f : Listed(gs, b, e, j) /\ Listed(gs, c, f, j) => b = c /\ e = f
    <3>. SUFFICES ASSUME NEW j, NEW b, NEW c, NEW e, NEW f,
                         Listed(gs, b, e, j), Listed(gs, c, f, j)
                  PROVE  b = c /\ e = f
      OBVIOUS
    <3>1. CASE j = i
      <4>1. ~ Listed(fs, b, e, j) /\ ~ Listed(fs, c, f, j)
        BY <1>1, <2>1, <3>1
      <4>. QED
        BY <1>14, <4>1
    <3>2. CASE j # i
      <4>1. Listed(fs, b, e, j) /\ Listed(fs, c, f, j)
        BY <1>14, <3>2
      <4>. QED
        BY <4>1 DEF DiskOK, Naming
    <3>. QED
      BY <3>1, <3>2
  <2>. QED
    BY <2>2, <2>3, <2>4 DEF Naming, Listed
<1>16. Parents(gs)
  <2>. SUFFICES ASSUME NEW c \in DirsOf(gs), NEW e \in ChildrenOf(gs, c), e.type = "dir"
                PROVE  EntriesOf(gs, e.inode)[2].inode = c
    BY DEF Parents
  <2>1. Listed(gs, c, e, e.inode)
    BY DEF Listed
  <2>2. CASE Listed(fs, c, e, e.inode)
    <3>1. e.inode \in DirsOf(fs) /\ e.inode # Root
      BY <2>2 DEF Listed, DiskOK, Naming, DirsOf, IsDirectory
    <3>2. EntriesOf(gs, e.inode)[2] = EntriesOf(fs, e.inode)[2]
      BY <1>6, <1>9, <3>1
    <3>. QED
      BY <2>2, <3>2 DEF Listed, DiskOK, Parents
  <2>3. CASE c = d /\ e = x /\ e.inode = i
    BY <1>10, <1>11, <2>3
  <2>. QED
    BY <1>14, <2>1, <2>2, <2>3
<1>17. Root \in DirsOf(gs)
  BY <1>3 DEF DiskOK
<1>18. Rooted(gs)
  <2>. SUFFICES ASSUME NEW S \in SUBSET gs.imap, Closed(gs, S)
                PROVE  S = gs.imap
    BY DEF Rooted
  <2>. DEFINE T == S \cap fs.imap
  <2>1. ASSUME NEW c \in T \cap DirsOf(fs), NEW e \in ChildrenOf(fs, c)
        PROVE  e.inode \in T
    <3>1. c \in S \cap DirsOf(gs) /\ e \in ChildrenOf(gs, c)
      BY <1>3, <1>10, <1>13
    <3>2. e.inode \in S
      BY <3>1 DEF Closed
    <3>3. e.inode \in fs.imap
      BY DEF DiskOK, Naming
    <3>. QED
      BY <3>2, <3>3
  <2>2. Root \in T
    BY <1>1 DEF Closed
  <2>3. T = fs.imap
    BY <2>1, <2>2 DEF DiskOK, Rooted, Closed
  <2>4. i \in S
    <3>1. d \in S \cap DirsOf(gs) /\ x \in ChildrenOf(gs, d)
      BY <1>1, <1>3, <1>10, <2>3
    <3>. QED
      BY <1>10, <3>1 DEF Closed
  <2>. QED
    BY <2>3, <2>4
<1>. QED
  BY <1>4, <1>5, <1>12, <1>15, <1>16, <1>17, <1>18 DEF DiskOK

\* Where the element k stood before the element j was taken out.
PlaceBefore(j, k) == IF k < j THEN k ELSE k + 1

LEMMA PlaceFacts ==
  ASSUME NEW L \in Nat, NEW j \in 2 .. L
  PROVE  /\ \A k \in 1 .. L - 1 : PlaceBefore(j, k) \in 1 .. L /\ PlaceBefore(j, k) # j
         /\ \A k, l \in 1 .. L - 1 : PlaceBefore(j, k) = PlaceBefore(j, l) => k = l
         /\ \A k \in 1 .. L : k # j => \E l \in 1 .. L - 1 : PlaceBefore(j, l) = k
<1>1. \A k \in 1 .. L - 1 : PlaceBefore(j, k) \in 1 .. L /\ PlaceBefore(j, k) # j
  BY DEF PlaceBefore
<1>2. \A k, l \in 1 .. L - 1 : PlaceBefore(j, k) = PlaceBefore(j, l) => k = l
  BY DEF PlaceBefore
<1>3. ASSUME NEW k \in 1 .. L, k # j
      PROVE  \E l \in 1 .. L - 1 : PlaceBefore(j, l) = k
  <2>1. CASE k < j
    <3>1. k \in 1 .. L - 1 /\ PlaceBefore(j, k) = k
      BY <2>1 DEF PlaceBefore
    <3>. QED
      BY <3>1
  <2>2. CASE k > j
    <3>1. k - 1 \in 1 .. L - 1 /\ PlaceBefore(j, k - 1) = k
      BY <2>2 DEF PlaceBefore
    <3>. QED
      BY <3>1
  <2>. QED
    BY <1>3, <2>1, <2>2
<1>. QED
  BY <1>1, <1>2, <1>3

\* What the removal of a user's entry does to a table.
LEMMA RemoveTable ==
  ASSUME NEW fs, NEW d, TableOK(fs, d), NEW es, es = EntriesOf(fs, d),
         NEW n \in UserNames, Has(es, n), NEW gs, EntriesOf(gs, d) = RemoveEntry(es, n)
  PROVE  /\ TableOK(gs, d)
         /\ d # Root => EntriesOf(gs, d)[2] = es[2]
         /\ es[IndexOf(es, n)] \in KidsIn(es)
         /\ KidsIn(EntriesOf(gs, d)) = KidsIn(es) \ {es[IndexOf(es, n)]}
<1>. DEFINE ns == EntriesOf(gs, d)
            L == Len(es)
            j == IndexOf(es, n)
<1>1. es \in Seq(EntryRec) /\ L \in Nat /\ L >= 1 /\ RecordsFit(es) /\ DOMAIN es = 1 .. L
  BY DEF TableOK
<1>2. /\ es[1].name = Dot /\ es[1].inode = d
      /\ d # Root => L >= 2 /\ es[2].name = DotDot
      /\ \A k, l \in 1 .. L : es[k].name = es[l].name => k = l
  BY <1>1 DEF TableOK, NamesOnce
<1>3. j \in 1 .. L /\ es[j].name = n
  BY <1>1, IndexFacts
<1>4. n \notin {Dot, DotDot}
  BY NamesApart
<1>5. j # 1 /\ (d # Root => j # 2)
  BY <1>2, <1>3, <1>4
<1>. HIDE DEF L, j
<1>6. j \in 2 .. L
  BY <1>1, <1>3, <1>5
<1>7. ns = RemoveAt(es, j)
  BY DEF RemoveEntry, j
<1>8. /\ ns \in Seq(EntryRec) /\ Len(ns) = L - 1 /\ DOMAIN ns = 1 .. L - 1
      /\ \A k \in 1 .. L - 1 : ns[k] = IF k < j THEN es[k] ELSE es[k + 1]
  <2>1. /\ ns \in Seq(EntryRec) /\ Len(ns) = Len(es) - 1
        /\ \A k \in 1 .. Len(es) - 1 : ns[k] = IF k < j THEN es[k] ELSE es[k + 1]
    <3>. HIDE DEF ns
    <3>1. j \in 2 .. Len(es)
      BY <1>6 DEF L
    <3>3. es \in Seq(EntryRec)
      BY <1>1
    <3>2. Without(RemoveAt(es, j), es, j)
      BY <3>1, <3>3, EntryRemoved
    <3>4. Without(ns, es, j)
      BY <1>7, <3>2, Zenon
    <3>. QED
      BY <3>4 DEF Without
  <2>. HIDE DEF ns
  <2>2. DOMAIN ns = 1 .. Len(ns)
    BY <2>1
  <2>. QED
    BY <2>1, <2>2 DEF L
<1>9. RecordsFit(ns)
  BY <1>1, <1>6, <1>7, RemoveFits DEF L
<1>. HIDE DEF ns
<1>. DEFINE Old(k) == PlaceBefore(j, k)
<1>10. \A k \in 1 .. L - 1 : /\ Old(k) \in 1 .. L /\ Old(k) # j /\ ns[k] = es[Old(k)]
  <2>1. \A k \in 1 .. L - 1 : Old(k) \in 1 .. L /\ Old(k) # j
    BY <1>1, <1>6, PlaceFacts
  <2>2. \A k \in 1 .. L - 1 : ns[k] = es[Old(k)]
    BY <1>8 DEF PlaceBefore
  <2>. QED
    BY <2>1, <2>2
<1>11. \A k, l \in 1 .. L - 1 : Old(k) = Old(l) => k = l
  BY <1>1, <1>6, PlaceFacts
<1>12. \A k \in 1 .. L : k # j => \E l \in 1 .. L - 1 : Old(l) = k
  BY <1>1, <1>6, PlaceFacts
<1>. HIDE DEF Old
<1>13. NamesOnce(ns)
  BY <1>2, <1>8, <1>10, <1>11 DEF NamesOnce
<1>14. KidsIn(ns) = KidsIn(es) \ {es[j]}
  <2>1. ASSUME NEW y \in KidsIn(ns)
        PROVE  y \in KidsIn(es) /\ y # es[j]
    <3>1. PICK k \in 1 .. L - 1 : ns[k].name \notin {Dot, DotDot} /\ y = ns[k]
      BY <1>8 DEF KidsIn
    <3>2. y = es[Old(k)] /\ Old(k) \in 1 .. L /\ Old(k) # j
      BY <1>10, <3>1
    <3>3. y \in KidsIn(es)
      BY <1>1, <3>1, <3>2 DEF KidsIn
    <3>. QED
      BY <1>2, <1>3, <3>2, <3>3
  <2>2. ASSUME NEW y \in KidsIn(es), y # es[j]
        PROVE  y \in KidsIn(ns)
    <3>1. PICK k \in 1 .. L : es[k].name \notin {Dot, DotDot} /\ y = es[k]
      BY <1>1 DEF KidsIn
    <3>2. PICK l \in 1 .. L - 1 : Old(l) = k
      BY <1>12, <2>2, <3>1
    <3>. QED
      BY <1>8, <1>10, <3>1, <3>2 DEF KidsIn
  <2>. QED
    BY <2>1, <2>2
<1>15. es[j] \in KidsIn(es)
  BY <1>1, <1>3, <1>4 DEF KidsIn
<1>16. Len(ns) >= 1 /\ ns[1] = es[1] /\ (d # Root => Len(ns) >= 2 /\ ns[2] = es[2])
  BY <1>1, <1>2, <1>5, <1>6, <1>8
<1>17. TableOK(gs, d)
  BY <1>2, <1>8, <1>9, <1>13, <1>16 DEF TableOK, ns
<1>. QED
  BY <1>14, <1>15, <1>16, <1>17 DEF ns, j

\* Deleting gives back only blocks of the deleted inode.
LEMMA ReleasedAreOwn ==
  ASSUME NEW fs, DiskOK(fs), NEW i \in fs.imap
  PROVE  Released(fs, i) \subseteq BlocksOf(fs, i)
<1>. DEFINE nd == fs.node[i]
<1>1. nd.blocks = nd.size /\ nd.size \in Nat
  <2>1. nd \in NodeType
    BY ImageFields DEF DiskOK
  <2>2. CASE FileShaped(fs, i)
    BY <2>1, <2>2, NodeFields DEF FileShaped
  <2>3. CASE DirShaped(fs, i)
    BY <2>3, DirShapeFacts
  <2>. QED
    BY <2>2, <2>3 DEF DiskOK, Shapes
<1>. HIDE DEF nd
<1>2. ASSUME NEW k \in Direct, k < nd.size, nd.ptr[k] # NoBlock
      PROVE  nd.ptr[k] \in DataBlocks(fs, nd)
  <2>1. k \in 0 .. nd.size - 1 /\ k < DIRECT
    BY <1>1, <1>2 DEF Direct
  <2>2. get_physical_block_from_logical(fs, nd, k) = nd.ptr[k]
    BY <2>1 DEF get_physical_block_from_logical
  <2>. QED
    BY <1>2, <2>1, <2>2 DEF DataBlocks
<1>. QED
  BY <1>1, <1>2 DEF Released, BlocksOf, nd

LEMMA FrameUnchanged ==
  ASSUME NEW fs, DiskOK(fs), NEW gs, NEW d \in DirsOf(fs), NEW n,
         \A i \in fs.imap : gs.node[i] = fs.node[i],
         \A b \in fs.bmap : gs.blk[b] = fs.blk[b]
  PROVE  Frame(fs, gs, d, n)
<1>1. EntriesOf(gs, d) = EntriesOf(fs, d)
  BY DirFacts DEF EntriesOf, DirBlock
<1>2. ChildrenOf(gs, d) = ChildrenOf(fs, d)
  BY <1>1, ChildrenAreKids
<1>. QED
  BY <1>2 DEF Frame

LEMMA FrameAdded ==
  ASSUME NEW fs, DiskOK(fs), NEW gs, NEW d \in DirsOf(fs), NEW n \in UserNames,
         NEW i \in Inodes, NEW t \in {"dir", "reg"},
         ~ Has(EntriesOf(fs, d), n), HasRoom(EntriesOf(fs, d), n),
         \A j \in fs.imap : gs.node[j] = fs.node[j],
         \A b \in fs.bmap : b # DirBlock(fs, d) => gs.blk[b] = fs.blk[b],
         gs.blk[DirBlock(fs, d)] = AddEntry(EntriesOf(fs, d), n, i, t)
  PROVE  Frame(fs, gs, d, n)
<1>1. EntriesOf(gs, d) = AddEntry(EntriesOf(fs, d), n, i, t)
  BY DirFacts DEF EntriesOf, DirBlock
<1>2. PICK x : x.name = n /\ ChildrenOf(gs, d) = ChildrenOf(fs, d) \cup {x}
  BY <1>1, DirFacts, AppendTable, ChildrenAreKids
<1>. QED
  BY <1>2 DEF Frame

\* A removal: of a file, or of a directory that lists nothing.
LEMMA RemoveOK ==
  ASSUME NEW fs, DiskOK(fs), NEW d \in DirsOf(fs), NEW n \in UserNames,
         Has(EntriesOf(fs, d), n),
         ShellTarget(fs, d, n) \in DirsOf(fs) => IsEmptyDirectory(fs, ShellTarget(fs, d, n))
  PROVE  /\ DiskOK(EntryDeleted(fs, d, n))
         /\ EntryDeleted(fs, d, n).imap = fs.imap \ {ShellTarget(fs, d, n)}
         /\ DirsOf(EntryDeleted(fs, d, n)) = DirsOf(fs) \ {ShellTarget(fs, d, n)}
         /\ ShellTarget(fs, d, n) # d
         /\ Frame(fs, EntryDeleted(fs, d, n), d, n)
         /\ \A c, x, m : Listed(EntryDeleted(fs, d, n), c, x, m)
                            <=> Listed(fs, c, x, m) /\ m # ShellTarget(fs, d, n)
<1>. DEFINE es == EntriesOf(fs, d)
            e  == es[IndexOf(es, n)]
            i  == ShellTarget(fs, d, n)
            gs == EntryDeleted(fs, d, n)
<1>0. e.inode = i
  BY DEF ShellTarget
<1>1. /\ fs \in Image /\ d \in fs.imap /\ DirBlock(fs, d) \in fs.bmap
      /\ DirBlock(fs, d) \in Blocks /\ TableOK(fs, d) /\ es \in Seq(EntryRec)
      /\ fs.imap \in SUBSET Inodes /\ fs.bmap \in SUBSET Blocks
      /\ fs.node \in [Inodes -> NodeType] /\ fs.blk \in [Blocks -> Content]
  BY DirFacts, ImageFields DEF DiskOK, TableOK
<1>2. IndexOf(es, n) \in 1 .. Len(es) /\ e.name = n
  BY <1>1, IndexFacts
<1>3. /\ gs.imap = fs.imap \ {i}
      /\ gs.bmap = fs.bmap \ Released(fs, i)
      /\ gs.node = fs.node
      /\ gs.blk = [fs.blk EXCEPT ![DirBlock(fs, d)] = RemoveEntry(es, n)]
      /\ gs = [imap |-> gs.imap, bmap |-> gs.bmap, node |-> gs.node, blk |-> gs.blk]
  <2>1. gs = [fs EXCEPT !.bmap = fs.bmap \ Released(fs, i),
                        !.imap = fs.imap \ {i},
                        !.blk = [fs.blk EXCEPT ![DirBlock(fs, d)] = RemoveEntry(es, n)]]
    BY <1>1 DEF EntryDeleted, ShellTarget, EntriesOf, Image
  <2>. HIDE DEF gs, i, es
  <2>. QED
    BY <1>1, <2>1 DEF Image
<1>. HIDE DEF gs, i, e
<1>4. \A b \in Blocks : gs.blk[b] = IF b = DirBlock(fs, d) THEN RemoveEntry(es, n) ELSE fs.blk[b]
  BY <1>1, <1>3
<1>5. EntriesOf(gs, d) = RemoveEntry(es, n)
  BY <1>1, <1>3, <1>4 DEF EntriesOf, DirBlock
<1>6. /\ TableOK(gs, d)
      /\ d # Root => EntriesOf(gs, d)[2] = es[2]
      /\ e \in ChildrenOf(fs, d)
      /\ ChildrenOf(gs, d) = ChildrenOf(fs, d) \ {e}
  BY <1>1, <1>5, RemoveTable, ChildrenAreKids DEF e
<1>7. i \in fs.imap /\ i # Root /\ i # d /\ Listed(fs, d, e, i)
  BY <1>0, <1>6 DEF DiskOK, Naming, Listed
<1>8. gs \in Image
  <2>1. EntriesOf(gs, d) \in Content
    BY <1>6 DEF TableOK, Content
  <2>2. gs.blk \in [Blocks -> Content]
    BY <1>1, <1>3, <1>4, <1>5, <2>1
  <2>. QED
    BY <1>1, <1>3, <2>2 DEF Image
<1>9. DirsOf(gs) = DirsOf(fs) \ {i}
  BY <1>3 DEF DirsOf, IsDirectory
<1>10. \A k \in fs.imap : /\ DirShaped(gs, k) \/ FileShaped(gs, k)
                          /\ BlocksOf(gs, k) = BlocksOf(fs, k)
  <2>1. \A b \in fs.bmap : b # DirBlock(fs, d) => gs.blk[b] = fs.blk[b]
    BY <1>1, <1>4
  <2>2. \A b \in fs.bmap :
          (\A c \in DirsOf(fs) : b # DirBlock(fs, c)) => gs.blk[b] = fs.blk[b]
    BY <2>1
  <2>3. \A k \in fs.imap : gs.node[k] = fs.node[k]
    BY <1>3
  <2>. HIDE DEF es
  <2>. QED
    BY <2>2, <2>3, ShapeKept
<1>11. Shapes(gs)
  BY <1>3, <1>10 DEF Shapes
<1>12. Owning(gs)
  <2>1. \A k \in gs.imap : BlocksOf(gs, k) \subseteq gs.bmap
    <3>. SUFFICES ASSUME NEW k \in gs.imap
                  PROVE  BlocksOf(gs, k) \subseteq gs.bmap
      OBVIOUS
    <3>1. k \in fs.imap /\ k # i
      BY <1>3
    <3>2. BlocksOf(fs, k) \subseteq fs.bmap /\ BlocksOf(fs, k) \cap BlocksOf(fs, i) = {}
      BY <1>7, <3>1 DEF DiskOK, Owning
    <3>3. Released(fs, i) \subseteq BlocksOf(fs, i)
      BY <1>7, ReleasedAreOwn
    <3>. QED
      BY <1>3, <1>10, <3>1, <3>2, <3>3
  <2>. QED
    BY <1>3, <1>10, <2>1 DEF DiskOK, Owning
<1>13. \A c \in DirsOf(fs) : c # d => EntriesOf(gs, c) = EntriesOf(fs, c)
  <2>. SUFFICES ASSUME NEW c \in DirsOf(fs), c # d
                PROVE  EntriesOf(gs, c) = EntriesOf(fs, c)
    OBVIOUS
  <2>1. DirBlock(fs, c) # DirBlock(fs, d) /\ DirBlock(fs, c) \in Blocks
    BY DirBlocksApart, DirFacts
  <2>. QED
    BY <1>3, <1>4, <2>1 DEF EntriesOf, DirBlock
<1>14. Tables(gs)
  BY <1>6, <1>9, <1>13, DirFacts, TableFromEntries DEF Tables
<1>15. \A c \in DirsOf(fs) : c # d => ChildrenOf(gs, c) = ChildrenOf(fs, c)
  BY <1>13, ChildrenAreKids
<1>16. i \in DirsOf(fs) => ChildrenOf(fs, i) = {}
  <2>. SUFFICES ASSUME i \in DirsOf(fs)
                PROVE  ChildrenOf(fs, i) = {}
    OBVIOUS
  <2>1. DirShaped(fs, i) /\ DirBlock(fs, i) \in Blocks
    BY DirFacts
  <2>2. fs.node[i].blocks = 1 /\ DirBlock(fs, i) # NoBlock
    BY <2>1, DirShapeFacts, BlockKinds
  <2>3. IsEmptyDirectory(fs, i)
    BY DEF i
  <2>. QED
    BY <2>2, <2>3 DEF IsEmptyDirectory, ChildrenOf
<1>17. \A c, x, m : Listed(gs, c, x, m) <=> Listed(fs, c, x, m) /\ m # i
  <2>1. ASSUME NEW c, NEW x, NEW m, Listed(gs, c, x, m)
        PROVE  Listed(fs, c, x, m) /\ m # i
    <3>1. Listed(fs, c, x, m) /\ (c = d => x # e)
      BY <1>6, <1>9, <1>15, <2>1 DEF Listed
    <3>. QED
      BY <1>7, <3>1 DEF DiskOK, Naming
  <2>2. ASSUME NEW c, NEW x, NEW m, Listed(fs, c, x, m), m # i
        PROVE  Listed(gs, c, x, m)
    <3>1. c # i /\ x # e
      BY <1>0, <1>16, <2>2 DEF Listed
    <3>. QED
      BY <1>6, <1>9, <1>15, <2>2, <3>1 DEF Listed
  <2>. QED
    BY <2>1, <2>2
<1>18. Naming(gs)
  <2>1. \A c, x, m : Listed(gs, c, x, m) => /\ m \in gs.imap \ {Root, c}
                                            /\ gs.node[m].mode = x.type
    <3>1. \A c, x, m : Listed(fs, c, x, m) => /\ m \in fs.imap \ {Root, c}
                                              /\ fs.node[m].mode = x.type
      BY DEF Listed, DiskOK, Naming
    <3>. QED
      BY <1>3, <1>17, <3>1
  <2>2. \A m \in gs.imap \ {Root} : \E c, x : Listed(gs, c, x, m)
    BY <1>3, <1>17 DEF DiskOK, Naming
  <2>3. \A m, b, c, x, y : Listed(gs, b, x, m) /\ Listed(gs, c, y, m) => b = c /\ x = y
    BY <1>17 DEF DiskOK, Naming
  <2>. QED
    BY <2>1, <2>2, <2>3 DEF Naming, Listed
<1>19. Parents(gs)
  <2>. SUFFICES ASSUME NEW c \in DirsOf(gs), NEW x \in ChildrenOf(gs, c), x.type = "dir"
                PROVE  EntriesOf(gs, x.inode)[2].inode = c
    BY DEF Parents
  <2>1. Listed(fs, c, x, x.inode)
    BY <1>17 DEF Listed
  <2>2. x.inode \in DirsOf(fs) /\ x.inode # Root
    BY <2>1 DEF Listed, DiskOK, Naming, DirsOf, IsDirectory
  <2>3. EntriesOf(gs, x.inode)[2] = EntriesOf(fs, x.inode)[2]
    BY <1>6, <1>13, <2>2
  <2>. QED
    BY <2>1, <2>3 DEF Listed, DiskOK, Parents
<1>20. Root \in DirsOf(gs)
  BY <1>7, <1>9 DEF DiskOK
<1>21. Rooted(gs)
  <2>. SUFFICES ASSUME NEW S \in SUBSET gs.imap, Closed(gs, S)
                PROVE  S = gs.imap
    BY DEF Rooted
  <2>. DEFINE T == S \cup {i}
  <2>1. ASSUME NEW c \in T \cap DirsOf(fs), NEW x \in ChildrenOf(fs, c)
        PROVE  x.inode \in T
    <3>1. Listed(fs, c, x, x.inode)
      BY DEF Listed
    <3>2. CASE x.inode # i
      <4>1. Listed(gs, c, x, x.inode)
        BY <1>17, <3>1, <3>2
      <4>2. c \in S
        BY <1>9, <2>1, <4>1 DEF Listed
      <4>. QED
        BY <4>1, <4>2 DEF Closed, Listed
    <3>. QED
      BY <3>2
  <2>2. Root \in T /\ T \in SUBSET fs.imap
    BY <1>3, <1>7 DEF Closed
  <2>3. T = fs.imap
    BY <2>1, <2>2 DEF DiskOK, Rooted, Closed
  <2>. QED
    BY <1>3, <2>3
<1>22. DiskOK(gs)
  BY <1>8, <1>11, <1>12, <1>14, <1>18, <1>19, <1>20, <1>21 DEF DiskOK
<1>23. Frame(fs, gs, d, n)
  <2>1. \A b \in fs.bmap : b # DirBlock(fs, d) => gs.blk[b] = fs.blk[b]
    BY <1>1, <1>4
  <2>2. {x \in ChildrenOf(gs, d) : x.name # n} = {x \in ChildrenOf(fs, d) : x.name # n}
    BY <1>2, <1>6
  <2>. QED
    BY <1>3, <2>1, <2>2 DEF Frame
<1>. QED
  BY <1>3, <1>7, <1>9, <1>17, <1>22, <1>23 DEF gs, i

-----------------------------------------------------------------------------
(* Writing inodes and blocks. *)

LEMMA StoredPartType ==
  ASSUME NEW i \in Inodes, NEW nd \in NodeType
  PROVE  /\ StoredPart(i, nd) \in NodeType
         /\ i \in 1 .. StoredInodes => StoredPart(i, nd) = nd
<1>1. ZeroNode \in NodeType
  BY DEF ZeroNode, NodeType, Pointers
<1>2. [k \in Direct |-> IF k < StoredPointers THEN nd.ptr[k] ELSE NoBlock]
        \in [Direct -> Pointers]
  BY NodeFields DEF Pointers
<1>. DEFINE p == [k \in Direct |-> IF k < StoredPointers THEN nd.ptr[k] ELSE NoBlock]
<1>3. StoredPart(i, nd) \in {nd, [nd EXCEPT !.ptr = p, !.ind = NoBlock], ZeroNode}
  BY DEF StoredPart
<1>. HIDE DEF p
<1>4. [nd EXCEPT !.ptr = p, !.ind = NoBlock] \in NodeType
  BY <1>2 DEF NodeType, Pointers, p
<1>5. i \in 1 .. StoredInodes => StoredPart(i, nd) = nd
  BY DEF StoredPart
<1>. QED
  BY <1>1, <1>3, <1>4, <1>5

LEMMA SyncFacts ==
  ASSUME NEW fs \in Image, NEW i \in Inodes, NEW nd \in NodeType
  PROVE  LET gs == sync_node(fs, i, nd)
         IN  /\ gs \in Image
             /\ gs.imap = fs.imap /\ gs.bmap = fs.bmap /\ gs.blk = fs.blk
             /\ \A j \in Inodes \ {i} : gs.node[j] = fs.node[j]
             /\ i \in 1 .. StoredInodes => gs.node[i] = nd
<1>. DEFINE st == StoredPart(i, nd)
<1>1. st \in NodeType /\ (i \in 1 .. StoredInodes => st = nd)
  BY StoredPartType
<1>2. sync_node(fs, i, nd) = [fs EXCEPT !.node = [fs.node EXCEPT ![i] = st]]
  BY DEF sync_node, Image
<1>. HIDE DEF st
<1>3. fs.node \in [Inodes -> NodeType]
  BY ImageFields
<1>4. [fs.node EXCEPT ![i] = st] \in [Inodes -> NodeType]
  BY <1>1, <1>3
<1>. QED
  BY <1>1, <1>2, <1>3, <1>4 DEF Image

\* One block rewritten.
LEMMA RewriteFacts ==
  ASSUME NEW fs \in Image, NEW b \in Blocks, NEW c \in Content
  PROVE  LET gs == [fs EXCEPT !.blk[b] = c]
         IN  /\ gs \in Image
             /\ gs.imap = fs.imap /\ gs.bmap = fs.bmap /\ gs.node = fs.node
             /\ gs.blk[b] = c
             /\ \A a \in Blocks \ {b} : gs.blk[a] = fs.blk[a]
<1>1. fs.blk \in [Blocks -> Content]
  BY ImageFields
<1>2. [fs.blk EXCEPT ![b] = c] \in [Blocks -> Content]
  BY <1>1
<1>3. [fs EXCEPT !.blk[b] = c] = [fs EXCEPT !.blk = [fs.blk EXCEPT ![b] = c]]
  BY DEF Image
<1>. QED
  BY <1>1, <1>2, <1>3 DEF Image

LEMMA BitsFacts ==
  ASSUME NEW fs \in Image, NEW new \in Image
  PROVE  LET gs == BitsAsIn(fs, new)
         IN  /\ gs \in Image
             /\ gs.imap = fs.imap /\ gs.bmap = fs.bmap
             /\ gs.node = new.node /\ gs.blk = new.blk
BY DEF BitsAsIn, Image

-----------------------------------------------------------------------------
(* Images with more marked as used than is. *)

\* fs is the sound image h with more bits set: for inodes that no name leads to
\* and for blocks that no inode refers to.
Holds(fs, h) ==
  /\ DiskOK(h) /\ fs \in Image
  /\ fs.node = h.node /\ fs.blk = h.blk
  /\ h.imap \subseteq fs.imap /\ h.bmap \subseteq fs.bmap

\* The sound image in gs, which a call made of fs: h and what the call took.
Sound(h, fs, gs) ==
  [imap |-> h.imap \cup (gs.imap \ fs.imap), bmap |-> h.bmap \cup (gs.bmap \ fs.bmap),
   node |-> gs.node, blk |-> gs.blk]

LEMMA HeldFacts ==
  ASSUME NEW fs, NEW h, Holds(fs, h)
  PROVE  /\ h \in Image /\ fs \in Image
         /\ \A i : /\ IsDirectory(fs, i) <=> IsDirectory(h, i)
                   /\ DirBlock(fs, i) = DirBlock(h, i)
                   /\ EntriesOf(fs, i) = EntriesOf(h, i)
                   /\ BlocksOf(fs, i) = BlocksOf(h, i)
                   /\ Released(fs, i) = Released(h, i)
         /\ \A d, n : ShellTarget(fs, d, n) = ShellTarget(h, d, n)
         /\ FreeInodes(fs) \subseteq FreeInodes(h) /\ FreeBlocks(fs) \subseteq FreeBlocks(h)
<1>1. \A i : /\ IsDirectory(fs, i) <=> IsDirectory(h, i)
             /\ DirBlock(fs, i) = DirBlock(h, i)
             /\ EntriesOf(fs, i) = EntriesOf(h, i)
             /\ Released(fs, i) = Released(h, i)
  BY DEF Holds, IsDirectory, DirBlock, EntriesOf, Released
<1>2. \A i : BlocksOf(fs, i) = BlocksOf(h, i)
  BY SameBlocks DEF Holds
<1>3. \A d, n : ShellTarget(fs, d, n) = ShellTarget(h, d, n)
  BY <1>1 DEF ShellTarget
<1>. QED
  BY <1>1, <1>2, <1>3 DEF Holds, DiskOK, FreeInodes, FreeBlocks

LEMMA SoundFacts ==
  ASSUME NEW fs, NEW h, Holds(fs, h), NEW gs \in Image,
         fs.imap \subseteq gs.imap, fs.bmap \subseteq gs.bmap
  PROVE  LET g == Sound(h, fs, gs)
         IN  /\ g \in Image /\ g.node = gs.node /\ g.blk = gs.blk
             /\ g.imap = h.imap \cup (gs.imap \ fs.imap)
             /\ g.bmap = h.bmap \cup (gs.bmap \ fs.bmap)
             /\ h.imap \subseteq g.imap
             /\ DiskOK(g) => Holds(gs, g)
             /\ gs.imap \ g.imap = fs.imap \ h.imap
             /\ gs.bmap \ g.bmap = fs.bmap \ h.bmap
<1>1. /\ h.imap \in SUBSET Inodes /\ h.bmap \in SUBSET Blocks
      /\ gs.imap \in SUBSET Inodes /\ gs.bmap \in SUBSET Blocks
      /\ gs.node \in [Inodes -> NodeType] /\ gs.blk \in [Blocks -> Content]
  BY HeldFacts, ImageFields
<1>. DEFINE g == Sound(h, fs, gs)
<1>2. /\ g \in Image /\ g.node = gs.node /\ g.blk = gs.blk
      /\ g.imap = h.imap \cup (gs.imap \ fs.imap)
      /\ g.bmap = h.bmap \cup (gs.bmap \ fs.bmap)
  BY <1>1 DEF Sound, Image
<1>. HIDE DEF g
<1>3. h.imap \subseteq fs.imap /\ h.bmap \subseteq fs.bmap
  BY DEF Holds
<1>. QED
  BY <1>2, <1>3 DEF Holds, g

\* A sound image holds itself.
LEMMA SoundInItself ==
  ASSUME NEW fs, DiskOK(fs)
  PROVE  /\ Holds(fs, fs)
         /\ \A gs \in Image : fs.imap \subseteq gs.imap /\ fs.bmap \subseteq gs.bmap
              => Sound(fs, fs, gs) = gs
<1>1. Holds(fs, fs)
  BY DEF Holds, DiskOK
<1>2. ASSUME NEW gs \in Image, fs.imap \subseteq gs.imap, fs.bmap \subseteq gs.bmap
      PROVE  Sound(fs, fs, gs) = gs
  <2>1. fs.imap \cup (gs.imap \ fs.imap) = gs.imap /\ fs.bmap \cup (gs.bmap \ fs.bmap) = gs.bmap
    BY <1>2
  <2>. QED
    BY <2>1 DEF Sound, Image
<1>. QED
  BY <1>1, <1>2

-----------------------------------------------------------------------------
(* create_directory. *)

LEMMA WrittenFacts ==
  ASSUME NEW fs \in Image, NEW d \in Inodes, FreeInodes(fs) # {}, FreeBlocks(fs) # {}
  PROVE  LET i  == allocate_node(fs)
             b  == NthFree(fs, 0)
             gs == DirectoryWritten(fs, d)
         IN  /\ i \in FreeInodes(fs) /\ i \in Inodes
             /\ b \in FreeBlocks(fs) /\ b \in Blocks
             /\ gs \in Image
             /\ gs.imap = fs.imap \cup {i}
             /\ gs.bmap = fs.bmap \cup {b}
             /\ \A j \in Inodes \ {i} : gs.node[j] = fs.node[j]
             /\ i \in 1 .. StoredInodes => gs.node[i] = DirNode(b)
             /\ gs.blk[b] = DirectoryTable(i, d)
             /\ \A a \in Blocks \ {b} : gs.blk[a] = fs.blk[a]
<1>. DEFINE i == allocate_node(fs)
            b == NthFree(fs, 0)
            es == DirectoryTable(i, d)
            mid == [fs EXCEPT !.imap = fs.imap \cup {i},
                              !.bmap = fs.bmap \cup {b},
                              !.blk = [fs.blk EXCEPT ![b] = es]]
<1>1. i \in FreeInodes(fs) /\ i \in Inodes
  BY AllocateNode
<1>2. b \in FreeBlocks(fs) /\ b \in Blocks
  <2>1. 0 < Cardinality(FreeBlocks(fs))
    BY FreeBlocksFinite, FS_EmptySet
  <2>. QED
    BY <2>1, NthFreeFacts DEF FreeBlocks
<1>3. es \in Content
  BY <1>1, NewTable DEF Content
<1>4. DirectoryWritten(fs, d) = sync_node(mid, i, DirNode(b))
  BY DEF DirectoryWritten, Image
<1>. HIDE DEF i, b, es
<1>5. /\ fs.imap \in SUBSET Inodes /\ fs.bmap \in SUBSET Blocks
      /\ fs.blk \in [Blocks -> Content]
  BY ImageFields
<1>6. [fs.blk EXCEPT ![b] = es] \in [Blocks -> Content]
  BY <1>3, <1>5
<1>7. /\ mid \in Image
      /\ mid.imap = fs.imap \cup {i}
      /\ mid.bmap = fs.bmap \cup {b}
      /\ mid.node = fs.node
      /\ mid.blk = [fs.blk EXCEPT ![b] = es]
  BY <1>1, <1>2, <1>5, <1>6 DEF Image
<1>8. mid.blk[b] = es /\ \A a \in Blocks \ {b} : mid.blk[a] = fs.blk[a]
  BY <1>2, <1>5, <1>7
<1>. HIDE DEF mid
<1>9. DirNode(b) \in NodeType
  BY <1>2, DirNodeFields
<1>. DEFINE gs == DirectoryWritten(fs, d)
<1>. HIDE DEF gs
<1>10. /\ gs \in Image
       /\ gs.imap = mid.imap /\ gs.bmap = mid.bmap /\ gs.blk = mid.blk
       /\ \A j \in Inodes \ {i} : gs.node[j] = mid.node[j]
       /\ i \in 1 .. StoredInodes => gs.node[i] = DirNode(b)
  BY <1>1, <1>4, <1>7, <1>9, SyncFacts DEF gs
<1>11. /\ gs.imap = fs.imap \cup {i} /\ gs.bmap = fs.bmap \cup {b}
       /\ \A j \in Inodes \ {i} : gs.node[j] = fs.node[j]
       /\ gs.blk[b] = es /\ \A a \in Blocks \ {b} : gs.blk[a] = fs.blk[a]
  BY <1>7, <1>8, <1>10
<1>. QED
  BY <1>1, <1>2, <1>10, <1>11 DEF gs, i, b, es

\* create_directory on an image that holds h: it makes one that holds h, or h and
\* the new directory.
LEMMA MkdirOn ==
  ASSUME NEW fs, NEW h, Holds(fs, h), NEW d \in DirsOf(h), NEW n \in UserNames,
         \/ create_directory(fs, d, n).imap \subseteq 1 .. StoredInodes
         \/ StoredInodes = INODES_PER_GROUP
  PROVE  LET gs == create_directory(fs, d, n)
             g  == Sound(h, fs, gs)
         IN  /\ gs \in Image /\ fs.imap \subseteq gs.imap /\ fs.bmap \subseteq gs.bmap
             /\ DiskOK(g) /\ DirsOf(h) \subseteq DirsOf(g)
             /\ Frame(h, g, d, n)
             /\ IF create_directory_code(fs, d, n) = 0
                THEN \E i : Grown(h, g, d, n, i) /\ IsDirectory(g, i)
                ELSE g.imap = h.imap
<1>. DEFINE gs   == create_directory(fs, d, n)
            g    == Sound(h, fs, gs)
            new  == DirectoryWritten(fs, d)
            code == create_directory_code(fs, d, n)
            i    == allocate_node(fs)
            b    == NthFree(fs, 0)
            es   == EntriesOf(h, d)
            p    == DirBlock(h, d)
<1>0. /\ DiskOK(h) /\ fs \in Image /\ fs.node = h.node /\ fs.blk = h.blk
      /\ h.imap \subseteq fs.imap /\ h.bmap \subseteq fs.bmap
      /\ EntriesOf(fs, d) = es /\ DirBlock(fs, d) = p
      /\ FreeInodes(fs) \subseteq FreeInodes(h) /\ FreeBlocks(fs) \subseteq FreeBlocks(h)
  BY HeldFacts DEF Holds
<1>1. /\ d \in h.imap /\ d \in Inodes /\ p \in h.bmap /\ p \in Blocks
      /\ TableOK(h, d) /\ es = fs.blk[p]
      /\ h \in Image /\ h.imap \in SUBSET Inodes /\ h.bmap \in SUBSET Blocks
  BY <1>0, DirFacts, ImageFields DEF DiskOK, EntriesOf
<1>2. CASE code # 0 /\ code # -6
  <2>1. gs = fs
    BY <1>2 DEF create_directory
  <2>. HIDE DEF gs, code
  <2>2. g = h
    <3>1. g = [imap |-> h.imap, bmap |-> h.bmap, node |-> h.node, blk |-> h.blk]
      BY <1>0, <2>1 DEF Sound
    <3>. HIDE DEF g
    <3>. QED
      BY <1>1, <3>1 DEF Image
  <2>. HIDE DEF g
  <2>3. DiskOK(g) /\ DirsOf(h) \subseteq DirsOf(g) /\ Frame(h, g, d, n) /\ g.imap = h.imap
    BY <1>0, <2>2 DEF Frame
  <2>. QED
    BY <1>0, <1>2, <2>1, <2>3 DEF gs, code, g
<1>3. CASE code = 0 \/ code = -6
  <2>1. /\ ~ Has(es, n) /\ FreeInodes(fs) # {} /\ FreeBlocks(fs) # {}
        /\ code = 0 => HasRoom(es, n)
    BY <1>0, <1>3 DEF create_directory_code
  <2>2. /\ i \in FreeInodes(fs) /\ i \in Inodes
        /\ b \in FreeBlocks(fs) /\ b \in Blocks
        /\ new \in Image
        /\ new.imap = fs.imap \cup {i}
        /\ new.bmap = fs.bmap \cup {b}
        /\ \A j \in Inodes \ {i} : new.node[j] = fs.node[j]
        /\ i \in 1 .. StoredInodes => new.node[i] = DirNode(b)
        /\ new.blk[b] = DirectoryTable(i, d)
        /\ \A a \in Blocks \ {b} : new.blk[a] = fs.blk[a]
    BY <1>0, <1>1, <2>1, WrittenFacts
  <2>3. i \notin fs.imap /\ b \notin fs.bmap /\ i \in FreeInodes(h) /\ b \in FreeBlocks(h)
    BY <1>0, <2>2 DEF FreeInodes, FreeBlocks
  <2>4. CASE code = -6
    <3>1. gs = BitsAsIn(fs, new)
      BY <2>4 DEF create_directory
    <3>. HIDE DEF gs, new, g
    <3>2. /\ gs \in Image /\ gs.imap = fs.imap /\ gs.bmap = fs.bmap
          /\ gs.node = new.node /\ gs.blk = new.blk
      BY <1>0, <2>2, <3>1, BitsFacts
    <3>3. /\ g \in Image /\ g.imap = h.imap /\ g.bmap = h.bmap
          /\ g.node = new.node /\ g.blk = new.blk
      <4>1. /\ g \in Image /\ g.node = gs.node /\ g.blk = gs.blk
            /\ g.imap = h.imap \cup (gs.imap \ fs.imap)
            /\ g.bmap = h.bmap \cup (gs.bmap \ fs.bmap)
        BY <3>2, SoundFacts DEF g
      <4>. QED
        BY <3>2, <4>1
    <3>4. \A j \in h.imap : g.node[j] = h.node[j]
      BY <1>0, <1>1, <2>2, <2>3, <3>3
    <3>5. \A a \in h.bmap : g.blk[a] = h.blk[a]
      BY <1>0, <1>1, <2>2, <2>3, <3>3
    <3>6. DiskOK(g)
      BY <1>0, <3>3, <3>4, <3>5, CleanedUpOK
    <3>7. DirsOf(g) = DirsOf(h)
      BY <3>3, <3>4 DEF DirsOf, IsDirectory
    <3>8. Frame(h, g, d, n)
      BY <1>0, <3>4, <3>5, FrameUnchanged
    <3>. HIDE DEF code
    <3>. QED
      BY <2>4, <3>2, <3>3, <3>6, <3>7, <3>8 DEF gs, code, g
  <2>5. CASE code = 0
    <3>. DEFINE ns == AddEntry(es, n, i, "dir")
    <3>1. new.blk[p] = es
      BY <1>0, <1>1, <2>2, <2>3
    <3>2. gs = [new EXCEPT !.blk[p] = ns]
      BY <1>0, <2>2, <2>5, <3>1 DEF create_directory, Image
    <3>3. ns \in Content
      <4>1. es \in Seq(EntryRec) /\ Len(es) >= 1 /\ RecordsFit(es)
        BY <1>1 DEF TableOK
      <4>. QED
        BY <2>1, <2>2, <2>5, <4>1, AppendFits DEF Content
    <3>. HIDE DEF gs, new, ns, p, g
    <3>4. /\ gs \in Image
          /\ gs.imap = new.imap /\ gs.bmap = new.bmap /\ gs.node = new.node
          /\ gs.blk[p] = ns
          /\ \A a \in Blocks \ {p} : gs.blk[a] = new.blk[a]
      BY <1>1, <2>2, <3>2, <3>3, RewriteFacts
    <3>5. gs.imap = fs.imap \cup {i} /\ gs.bmap = fs.bmap \cup {b}
      BY <2>2, <3>4
    <3>6. /\ g \in Image /\ g.node = gs.node /\ g.blk = gs.blk
          /\ g.imap = h.imap \cup {i} /\ g.bmap = h.bmap \cup {b}
      BY <2>3, <3>4, <3>5, SoundFacts DEF g
    <3>7. g.node[i] = DirNode(b)
      BY <2>2, <3>4, <3>6 DEF gs, Inodes
    <3>. HIDE DEF i, b
    <3>8. /\ g.node[i].ptr[0] = b /\ g.node[i].mode = "dir"
          /\ \A k \in Direct : k # 0 => g.node[i].ptr[k] = NoBlock
      BY <2>2, <3>7, DirNodeFields
    <3>9. DirShaped(g, i) /\ DirBlock(g, i) = b
      BY <2>2, <3>7, <3>8 DEF DirShaped, DirBlock
    <3>10. BlocksOf(g, i) = {b}
      BY <3>9, OneBlockOfDir
    <3>11. EntriesOf(g, i) = DirectoryTable(i, d)
      BY <1>0, <1>1, <2>2, <2>3, <3>4, <3>6, <3>9 DEF EntriesOf
    <3>12. OncePointed(g.node[i])
      BY <3>8 DEF OncePointed
    <3>13. /\ \A j \in h.imap : g.node[j] = h.node[j]
           /\ \A a \in h.bmap : a # p => g.blk[a] = h.blk[a]
      <4>1. \A j \in h.imap : j \in Inodes \ {i}
        BY <1>0, <1>1, <2>3
      <4>2. \A a \in h.bmap : a \in Blocks \ {b}
        BY <1>0, <1>1, <2>3
      <4>3. \A j \in h.imap : g.node[j] = h.node[j]
        <5>1. g.node = new.node /\ fs.node = h.node
          BY <1>0, <3>4, <3>6
        <5>. QED
          BY <2>2, <4>1, <5>1
      <4>4. ASSUME NEW a \in h.bmap, a # p
            PROVE  g.blk[a] = h.blk[a]
        <5>1. g.blk[a] = gs.blk[a] /\ gs.blk[a] = new.blk[a]
          BY <3>4, <3>6, <4>2, <4>4
        <5>2. new.blk[a] = fs.blk[a] /\ fs.blk[a] = h.blk[a]
          BY <1>0, <2>2, <4>2
        <5>. QED
          BY <5>1, <5>2
      <4>. QED
        BY <4>3, <4>4
    <3>14. {b} \in SUBSET FreeBlocks(h)
      BY <2>3
    <3>15. DiskOK(g)
      BY <1>0, <2>1, <2>3, <2>5, <3>4, <3>6, <3>8, <3>9, <3>10, <3>11, <3>12, <3>13, <3>14,
         AddOK DEF ns, p
    <3>16. DirsOf(h) \subseteq DirsOf(g)
      BY <3>6, <3>13 DEF DirsOf, IsDirectory
    <3>17. Frame(h, g, d, n)
      BY <1>0, <2>1, <2>2, <2>5, <3>4, <3>6, <3>13, FrameAdded DEF ns, p
    <3>18. Grown(h, g, d, n, i) /\ IsDirectory(g, i)
      BY <2>1, <2>2, <2>3, <3>6, <3>8 DEF Grown, IsDirectory, FreeInodes
    <3>. HIDE DEF code
    <3>. QED
      BY <2>5, <3>4, <3>5, <3>15, <3>16, <3>17, <3>18 DEF gs, code, g
  <2>. QED
    BY <1>3, <2>4, <2>5
<1>. QED
  BY <1>2, <1>3

LEMMA MkdirOK ==
  ASSUME NEW fs, DiskOK(fs), NEW d \in DirsOf(fs), NEW n \in UserNames,
         \/ create_directory(fs, d, n).imap \subseteq 1 .. StoredInodes
         \/ StoredInodes = INODES_PER_GROUP
  PROVE  /\ DiskOK(create_directory(fs, d, n))
         /\ fs.imap \subseteq create_directory(fs, d, n).imap
         /\ DirsOf(fs) \subseteq DirsOf(create_directory(fs, d, n))
         /\ Frame(fs, create_directory(fs, d, n), d, n)
         /\ IF create_directory_code(fs, d, n) = 0
            THEN \E i : /\ Grown(fs, create_directory(fs, d, n), d, n, i)
                        /\ IsDirectory(create_directory(fs, d, n), i)
            ELSE create_directory(fs, d, n).imap = fs.imap
<1>. DEFINE gs == create_directory(fs, d, n)
<1>1. Holds(fs, fs)
  BY SoundInItself
<1>2. /\ gs \in Image /\ fs.imap \subseteq gs.imap /\ fs.bmap \subseteq gs.bmap
  BY <1>1, MkdirOn
<1>3. Sound(fs, fs, gs) = gs
  BY <1>2, SoundInItself
<1>. QED
  BY <1>1, <1>2, <1>3, MkdirOn

-----------------------------------------------------------------------------
(* copy_file. *)

LEMMA CopiedFacts ==
  ASSUME NEW nd \in NodeType
  PROVE  /\ CopiedBlocks(nd) \in SUBSET Nat /\ IsFiniteSet(CopiedBlocks(nd))
         /\ CopiedBlocks(nd) \subseteq Direct
         /\ \A k \in CopiedBlocks(nd) : /\ nd.ptr[k] \in Blocks
                                        /\ CopyRank(nd, k) = Below(CopiedBlocks(nd), k)
                                        /\ CopyRank(nd, k) \in Nat
<1>1. CopiedBlocks(nd) \subseteq Direct
  BY DEF CopiedBlocks
<1>2. Direct \in SUBSET Nat /\ IsFiniteSet(Direct)
  <2>1. 0 \in Int /\ DIRECT - 1 \in Int
    OBVIOUS
  <2>2. IsFiniteSet(0 .. DIRECT - 1)
    BY <2>1, FS_Interval
  <2>3. Direct \in SUBSET Nat
    BY DEF Direct
  <2>. QED
    BY <2>2, <2>3 DEF Direct
<1>3. CopiedBlocks(nd) \in SUBSET Nat /\ IsFiniteSet(CopiedBlocks(nd))
  BY <1>1, <1>2, FS_Subset
<1>4. \A k \in CopiedBlocks(nd) : nd.ptr[k] \in Blocks
  BY NodeFields DEF CopiedBlocks, Pointers
<1>5. \A k \in CopiedBlocks(nd) : CopyRank(nd, k) = Below(CopiedBlocks(nd), k)
  BY DEF CopyRank, Below
<1>. QED
  BY <1>1, <1>3, <1>4, <1>5, BelowType

\* The blocks a copy is put into are free, and there is one for each.
LEMMA TargetFacts ==
  ASSUME NEW fs, NEW nd \in NodeType
  PROVE  /\ \A k \in PlacedBlocks(fs, nd) : CopyTarget(fs, nd, k) \in FreeBlocks(fs)
         /\ \A k, l \in PlacedBlocks(fs, nd) :
              CopyTarget(fs, nd, k) = CopyTarget(fs, nd, l) => k = l
<1>1. \A k \in PlacedBlocks(fs, nd) :
        /\ k \in CopiedBlocks(nd) /\ CopyRank(nd, k) \in Nat
        /\ CopyRank(nd, k) < Cardinality(FreeBlocks(fs))
  BY CopiedFacts DEF PlacedBlocks
<1>2. ASSUME NEW k \in PlacedBlocks(fs, nd), NEW l \in PlacedBlocks(fs, nd),
             CopyTarget(fs, nd, k) = CopyTarget(fs, nd, l)
      PROVE  k = l
  <2>1. CopyRank(nd, k) = CopyRank(nd, l)
    BY <1>1, <1>2, NthFreeOnce DEF CopyTarget
  <2>. QED
    BY <1>1, <2>1, CopiedFacts, BelowInjective
<1>. QED
  BY <1>1, <1>2, NthFreeFacts DEF CopyTarget

LEMMA DataCopiedFacts ==
  ASSUME NEW fs \in Image, NEW nd \in NodeType, FreeInodes(fs) # {}
  PROVE  LET i   == allocate_node(fs)
             new == {CopyTarget(fs, nd, k) : k \in PlacedBlocks(fs, nd)}
             gs  == DataCopied(fs, nd)
         IN  /\ i \in FreeInodes(fs) /\ i \in Inodes
             /\ new \in SUBSET FreeBlocks(fs)
             /\ gs \in Image
             /\ gs.imap = fs.imap \cup {i}
             /\ gs.bmap = fs.bmap \cup new
             /\ gs.node = fs.node
             /\ \A b \in Blocks \ new : gs.blk[b] = fs.blk[b]
             /\ \A k \in PlacedBlocks(fs, nd) : gs.blk[CopyTarget(fs, nd, k)] = fs.blk[nd.ptr[k]]
<1>. DEFINE i == allocate_node(fs)
            placed == PlacedBlocks(fs, nd)
            new == {CopyTarget(fs, nd, k) : k \in placed}
            from(b) == CHOOSE k \in placed : CopyTarget(fs, nd, k) = b
            bs == [b \in Blocks |-> IF \E k \in placed : CopyTarget(fs, nd, k) = b
                                    THEN fs.blk[nd.ptr[from(b)]] ELSE fs.blk[b]]
<1>1. i \in FreeInodes(fs) /\ i \in Inodes
  BY AllocateNode
<1>2. new \in SUBSET FreeBlocks(fs)
  BY TargetFacts
<1>3. /\ fs.imap \in SUBSET Inodes /\ fs.bmap \in SUBSET Blocks
      /\ fs.node \in [Inodes -> NodeType] /\ fs.blk \in [Blocks -> Content]
  BY ImageFields
<1>4. bs \in [Blocks -> Content]
  <2>. SUFFICES ASSUME NEW b \in Blocks
                PROVE  bs[b] \in Content
    OBVIOUS
  <2>1. CASE \E k \in placed : CopyTarget(fs, nd, k) = b
    <3>1. from(b) \in placed
      BY <2>1
    <3>2. from(b) \in CopiedBlocks(nd)
      BY <3>1 DEF PlacedBlocks
    <3>3. nd.ptr[from(b)] \in Blocks
      BY <3>2, CopiedFacts
    <3>. QED
      BY <1>3, <2>1, <3>3
  <2>2. CASE ~ \E k \in placed : CopyTarget(fs, nd, k) = b
    BY <1>3, <2>2
  <2>. QED
    BY <2>1, <2>2
<1>5. \A b \in Blocks \ new : bs[b] = fs.blk[b]
  OBVIOUS
<1>6. ASSUME NEW k \in placed
       PROVE  bs[CopyTarget(fs, nd, k)] = fs.blk[nd.ptr[k]]
  <2>. DEFINE b == CopyTarget(fs, nd, k)
  <2>1. b \in Blocks /\ \A l \in placed : CopyTarget(fs, nd, l) = b => l = k
    BY TargetFacts DEF FreeBlocks
  <2>2. from(b) = k
    BY <2>1
  <2>. QED
    BY <2>1, <2>2
<1>7. DataCopied(fs, nd) = [fs EXCEPT !.imap = fs.imap \cup {i}, !.bmap = fs.bmap \cup new,
                                      !.blk = bs]
  BY DEF DataCopied, Image
<1>. HIDE DEF i, new, bs
<1>8. new \in SUBSET Blocks
  BY <1>2 DEF FreeBlocks
<1>. DEFINE gs == DataCopied(fs, nd)
<1>. HIDE DEF gs
<1>9. /\ gs.imap = fs.imap \cup {i} /\ gs.bmap = fs.bmap \cup new
      /\ gs.node = fs.node /\ gs.blk = bs
      /\ gs = [imap |-> gs.imap, bmap |-> gs.bmap, node |-> gs.node, blk |-> gs.blk]
  BY <1>7 DEF gs, Image
<1>10. gs.imap \in SUBSET Inodes /\ gs.bmap \in SUBSET Blocks
  BY <1>1, <1>3, <1>8, <1>9
<1>11. gs \in Image
  BY <1>3, <1>4, <1>9, <1>10 DEF Image
<1>. QED
  BY <1>1, <1>2, <1>5, <1>9, <1>11, <1>6 DEF gs, i, new

LEMMA CopyNodeFacts ==
  ASSUME NEW fs, NEW nd \in NodeType, PlacedBlocks(fs, nd) = CopiedBlocks(nd)
  PROVE  /\ CopyNode(fs, nd) \in NodeType
         /\ CopyNode(fs, nd).mode = nd.mode
         /\ CopyNode(fs, nd).size = nd.size /\ CopyNode(fs, nd).blocks = nd.blocks
         /\ CopyNode(fs, nd).ind = NoBlock
         /\ \A k \in Direct : CopyNode(fs, nd).ptr[k]
                                = IF k \in CopiedBlocks(nd) THEN CopyTarget(fs, nd, k)
                                  ELSE NoBlock
<1>. DEFINE q == [k \in Direct |->
                   IF k \in CopiedBlocks(nd) THEN CopyTarget(fs, nd, k) ELSE NoBlock]
<1>1. CopyNode(fs, nd) = [nd EXCEPT !.ptr = q, !.ind = NoBlock]
  BY DEF CopyNode
<1>2. q \in [Direct -> Pointers]
  BY TargetFacts DEF FreeBlocks, Pointers
<1>3. \A k \in Direct : q[k] = IF k \in CopiedBlocks(nd) THEN CopyTarget(fs, nd, k) ELSE NoBlock
  OBVIOUS
<1>. HIDE DEF q
<1>. QED
  BY <1>1, <1>2, <1>3 DEF NodeType, Pointers

\* copy_file on an image that holds h: it makes one that holds h, or h and the copy.
LEMMA CopyOn ==
  ASSUME NEW fs, NEW h, Holds(fs, h), NEW d \in DirsOf(h),
         NEW s \in UserNames, NEW t \in UserNames,
         \/ copy_file(fs, d, s, t).imap \subseteq 1 .. StoredInodes
         \/ StoredInodes = INODES_PER_GROUP
  PROVE  LET gs == copy_file(fs, d, s, t)
             g  == Sound(h, fs, gs)
         IN  /\ gs \in Image /\ fs.imap \subseteq gs.imap /\ fs.bmap \subseteq gs.bmap
             /\ DiskOK(g) /\ DirsOf(h) \subseteq DirsOf(g)
             /\ Frame(h, g, d, t)
             /\ IF copy_file_code(fs, d, s, t) = 0
                THEN \E i : Grown(h, g, d, t, i) /\ CopyOf(h, g, ShellTarget(h, d, s), i)
                ELSE g.imap = h.imap
<1>. DEFINE gs   == copy_file(fs, d, s, t)
            g    == Sound(h, fs, gs)
            code == copy_file_code(fs, d, s, t)
            es   == EntriesOf(h, d)
            src  == es[IndexOf(es, s)].inode
            nd   == fs.node[src]
            i    == allocate_node(fs)
            new  == {CopyTarget(fs, nd, k) : k \in PlacedBlocks(fs, nd)}
            copied == DataCopied(fs, nd)
            synced == sync_node(copied, i, CopyNode(fs, nd))
            p    == DirBlock(h, d)
            done == [synced EXCEPT !.blk[p] = AddEntry(@, t, i, "reg")]
<1>0. /\ DiskOK(h) /\ fs \in Image /\ fs.node = h.node /\ fs.blk = h.blk
      /\ h.imap \subseteq fs.imap /\ h.bmap \subseteq fs.bmap
      /\ EntriesOf(fs, d) = es /\ DirBlock(fs, d) = p
      /\ IsDirectory(fs, src) <=> IsDirectory(h, src)
      /\ FreeInodes(fs) \subseteq FreeInodes(h) /\ FreeBlocks(fs) \subseteq FreeBlocks(h)
  BY HeldFacts DEF Holds
<1>1. /\ d \in h.imap /\ d \in Inodes /\ p \in h.bmap /\ p \in Blocks
      /\ TableOK(h, d) /\ es = fs.blk[p]
      /\ es \in Seq(EntryRec) /\ Len(es) >= 1 /\ RecordsFit(es)
      /\ h \in Image /\ h.imap \in SUBSET Inodes /\ h.bmap \in SUBSET Blocks
      /\ h.node \in [Inodes -> NodeType]
  BY <1>0, DirFacts, ImageFields DEF DiskOK, EntriesOf, TableOK
<1>2. gs = CASE code = 0 -> done
             [] code = -5 -> BitsAsIn(fs, copied)
             [] code = -8 -> BitsAsIn(fs, synced)
             [] OTHER -> fs
  <2>1. gs = CASE code = 0 -> [synced EXCEPT !.blk[DirBlock(fs, d)] = AddEntry(@, t, i, "reg")]
               [] code = -5 -> BitsAsIn(fs, copied)
               [] code = -8 -> BitsAsIn(fs, synced)
               [] OTHER -> fs
    BY <1>0, Zenon DEF copy_file
  <2>. HIDE DEF gs, code, copied, synced, i
  <2>. QED
    BY <1>0, <2>1, Zenon
<1>3. CASE code \notin {0, -5, -8}
  <2>1. gs = fs
    <3>. HIDE DEF gs, code, done
    <3>. QED
      BY <1>2, <1>3
  <2>. HIDE DEF gs, code
  <2>2. g = h
    <3>1. g = [imap |-> h.imap, bmap |-> h.bmap, node |-> h.node, blk |-> h.blk]
      BY <1>0, <2>1 DEF Sound
    <3>. HIDE DEF g
    <3>. QED
      BY <1>1, <3>1 DEF Image
  <2>. HIDE DEF g
  <2>3. DiskOK(g) /\ DirsOf(h) \subseteq DirsOf(g) /\ Frame(h, g, d, t) /\ g.imap = h.imap
    BY <1>0, <2>2 DEF Frame
  <2>. QED
    BY <1>0, <1>3, <2>1, <2>3 DEF gs, code, g
<1>4. CASE code \in {0, -5, -8}
  <2>1. /\ Has(es, s) /\ ~ Has(es, t) /\ FreeInodes(fs) # {} /\ ~ IsDirectory(h, src)
        /\ code # -5 => PlacedBlocks(fs, nd) = CopiedBlocks(nd)
        /\ code = 0 => HasRoom(es, t)
    BY <1>0, <1>4 DEF copy_file_code
  <2>2. src \in h.imap
    <3>1. es[IndexOf(es, s)] \in ChildrenOf(h, d)
      <4>1. IndexOf(es, s) \in DOMAIN es /\ es[IndexOf(es, s)].name = s
        BY <1>1, <2>1, IndexFacts
      <4>. QED
        BY <4>1, NamesApart DEF ChildrenOf
    <3>. QED
      BY <1>0, <3>1 DEF DiskOK, Naming
  <2>3. nd \in NodeType /\ nd = h.node[src] /\ FileShaped(h, src)
    <3>1. nd \in NodeType /\ nd = h.node[src]
      BY <1>0, <1>1, <2>2
    <3>2. DirShaped(h, src) => IsDirectory(h, src)
      BY DirShapeFacts
    <3>. QED
      BY <1>0, <2>1, <2>2, <3>1, <3>2 DEF DiskOK, Shapes
  <2>4. nd.mode = "reg" /\ nd.blocks = nd.size /\ nd.size \in Nat /\ nd.size <= DIRECT + PTRS
    BY <2>3, NodeFields DEF FileShaped
  <2>. HIDE DEF nd
  <2>5. /\ i \in FreeInodes(fs) /\ i \in Inodes
        /\ new \in SUBSET FreeBlocks(fs)
        /\ copied \in Image
        /\ copied.imap = fs.imap \cup {i}
        /\ copied.bmap = fs.bmap \cup new
        /\ copied.node = fs.node
        /\ \A b \in Blocks \ new : copied.blk[b] = fs.blk[b]
        /\ \A k \in PlacedBlocks(fs, nd) : copied.blk[CopyTarget(fs, nd, k)] = fs.blk[nd.ptr[k]]
    BY <1>0, <2>1, <2>3, DataCopiedFacts
  <2>6. /\ i \notin fs.imap /\ new \cap fs.bmap = {}
        /\ i \in FreeInodes(h) /\ new \in SUBSET FreeBlocks(h)
    BY <1>0, <2>5 DEF FreeInodes, FreeBlocks
  <2>. HIDE DEF new, copied, i, synced
  <2>7. /\ \A a \in h.bmap : a \in Blocks \ new
        /\ \A j \in h.imap : j \in Inodes \ {i}
    BY <1>0, <1>1, <2>6
  <2>8. CASE code = -5
    <3>1. gs = BitsAsIn(fs, copied)
      <4>. HIDE DEF gs, code, done
      <4>. QED
        BY <1>2, <2>8
    <3>. HIDE DEF gs, g
    <3>2. /\ gs \in Image /\ gs.imap = fs.imap /\ gs.bmap = fs.bmap
          /\ gs.node = fs.node /\ gs.blk = copied.blk
      BY <1>0, <2>5, <3>1, BitsFacts
    <3>3. /\ g \in Image /\ g.imap = h.imap /\ g.bmap = h.bmap
          /\ g.node = h.node /\ g.blk = copied.blk
      <4>1. /\ g \in Image /\ g.node = gs.node /\ g.blk = gs.blk
            /\ g.imap = h.imap \cup (gs.imap \ fs.imap)
            /\ g.bmap = h.bmap \cup (gs.bmap \ fs.bmap)
        BY <3>2, SoundFacts DEF g
      <4>. QED
        BY <1>0, <3>2, <4>1
    <3>4. \A a \in h.bmap : g.blk[a] = h.blk[a]
      BY <1>0, <2>5, <2>7, <3>3
    <3>5. DiskOK(g)
      BY <1>0, <3>3, <3>4, CleanedUpOK
    <3>6. DirsOf(g) = DirsOf(h)
      BY <3>3 DEF DirsOf, IsDirectory
    <3>7. Frame(h, g, d, t)
      BY <1>0, <3>3, <3>4, FrameUnchanged
    <3>. HIDE DEF code
    <3>. QED
      BY <2>8, <3>2, <3>3, <3>5, <3>6, <3>7 DEF gs, code, g
  <2>9. CASE code # -5
    <3>1. /\ CopyNode(fs, nd) \in NodeType
          /\ CopyNode(fs, nd).mode = nd.mode
          /\ CopyNode(fs, nd).size = nd.size /\ CopyNode(fs, nd).blocks = nd.blocks
          /\ CopyNode(fs, nd).ind = NoBlock
          /\ \A k \in Direct : CopyNode(fs, nd).ptr[k]
                                 = IF k \in CopiedBlocks(nd) THEN CopyTarget(fs, nd, k)
                                   ELSE NoBlock
      <4>1. nd \in NodeType /\ PlacedBlocks(fs, nd) = CopiedBlocks(nd)
        BY <2>1, <2>3, <2>9
      <4>. HIDE DEF code, gs, g, done
      <4>. QED
        BY <4>1, CopyNodeFacts
    <3>2. /\ synced \in Image
          /\ synced.imap = copied.imap /\ synced.bmap = copied.bmap
          /\ synced.blk = copied.blk
          /\ \A j \in Inodes \ {i} : synced.node[j] = copied.node[j]
          /\ i \in 1 .. StoredInodes => synced.node[i] = CopyNode(fs, nd)
      BY <2>5, <3>1, SyncFacts DEF synced
    <3>3. \A j \in h.imap : synced.node[j] = h.node[j]
      BY <1>0, <2>5, <2>7, <3>2
    <3>4. \A a \in h.bmap : synced.blk[a] = h.blk[a]
      BY <1>0, <2>5, <2>7, <3>2
    <3>5. CASE code = -8
      <4>1. gs = BitsAsIn(fs, synced)
        <5>. HIDE DEF gs, code, done
        <5>. QED
          BY <1>2, <3>5
      <4>. HIDE DEF gs, g
      <4>2. /\ gs \in Image /\ gs.imap = fs.imap /\ gs.bmap = fs.bmap
            /\ gs.node = synced.node /\ gs.blk = synced.blk
        BY <1>0, <3>2, <4>1, BitsFacts
      <4>3. /\ g \in Image /\ g.imap = h.imap /\ g.bmap = h.bmap
            /\ g.node = synced.node /\ g.blk = synced.blk
        <5>1. /\ g \in Image /\ g.node = gs.node /\ g.blk = gs.blk
              /\ g.imap = h.imap \cup (gs.imap \ fs.imap)
              /\ g.bmap = h.bmap \cup (gs.bmap \ fs.bmap)
          BY <4>2, SoundFacts DEF g
        <5>. QED
          BY <4>2, <5>1
      <4>4. DiskOK(g)
        BY <1>0, <3>3, <3>4, <4>3, CleanedUpOK
      <4>5. DirsOf(g) = DirsOf(h)
        BY <3>3, <4>3 DEF DirsOf, IsDirectory
      <4>6. Frame(h, g, d, t)
        BY <1>0, <3>3, <3>4, <4>3, FrameUnchanged
      <4>. HIDE DEF code
      <4>. QED
        BY <3>5, <4>2, <4>3, <4>4, <4>5, <4>6 DEF gs, code, g
    <3>6. CASE code = 0
      <4>. DEFINE ns == AddEntry(es, t, i, "reg")
      <4>1. synced.blk[p] = es
        BY <1>0, <1>1, <3>4
      <4>2. gs = [synced EXCEPT !.blk[p] = ns]
        <5>1. gs = [synced EXCEPT !.blk[p] = AddEntry(@, t, i, "reg")]
          <6>1. gs = done
            <7>. HIDE DEF done, code, gs
            <7>. QED
              BY <1>2, <3>6
          <6>. QED
            BY <6>1, Zenon
        <5>. QED
          BY <3>2, <4>1, <5>1 DEF Image
      <4>3. ns \in Content
        BY <1>1, <2>1, <2>5, <3>6, AppendFits DEF Content
      <4>. HIDE DEF gs, g, ns, p, es, code, src, done
      <4>4. /\ gs \in Image
            /\ gs.imap = synced.imap /\ gs.bmap = synced.bmap /\ gs.node = synced.node
            /\ gs.blk[p] = ns
            /\ \A a \in Blocks \ {p} : gs.blk[a] = synced.blk[a]
        <5>1. synced \in Image /\ p \in Blocks
          BY <1>1, <3>2
        <5>. QED
          BY <4>2, <4>3, <5>1, RewriteFacts
      <4>5. gs.imap = fs.imap \cup {i} /\ gs.bmap = fs.bmap \cup new
        BY <2>5, <3>2, <4>4
      <4>6. /\ g \in Image /\ g.node = gs.node /\ g.blk = gs.blk
            /\ g.imap = h.imap \cup {i} /\ g.bmap = h.bmap \cup new
        <5>1. /\ g \in Image /\ g.node = gs.node /\ g.blk = gs.blk
              /\ g.imap = h.imap \cup (gs.imap \ fs.imap)
              /\ g.bmap = h.bmap \cup (gs.bmap \ fs.bmap)
          BY <4>4, <4>5, SoundFacts DEF g
        <5>. QED
          BY <2>6, <4>5, <5>1
      <4>7. g.node[i] = CopyNode(fs, nd)
        BY <2>5, <3>2, <4>4, <4>6 DEF gs, Inodes
      <4>8. /\ g.node[i].mode = "reg" /\ g.node[i].ind = NoBlock
            /\ g.node[i].blocks = g.node[i].size /\ g.node[i].size <= DIRECT + PTRS
            /\ \A k \in Direct : g.node[i].ptr[k]
                                   = IF k \in CopiedBlocks(nd) THEN CopyTarget(fs, nd, k)
                                     ELSE NoBlock
        BY <2>4, <3>1, <4>7
      <4>9. FileShaped(g, i)
        BY <4>8 DEF FileShaped
      <4>10. PlacedBlocks(fs, nd) = CopiedBlocks(nd)
        BY <2>1, <2>9 DEF nd, src, es
      <4>11. \A k \in Direct : g.node[i].ptr[k] \in new \cup {NoBlock}
        BY <4>8, <4>10 DEF new
      <4>12. BlocksOf(g, i) \subseteq new
        <5>. DEFINE cn == g.node[i]
        <5>1. \A k \in 0 .. cn.size - 1 :
                get_physical_block_from_logical(g, cn, k) \in new \cup {NoBlock}
          BY <4>8, <4>11 DEF get_physical_block_from_logical, Direct
        <5>2. DataBlocks(g, cn) \subseteq new
          BY <5>1 DEF DataBlocks
        <5>. QED
          BY <4>8, <5>2 DEF BlocksOf
      <4>13. OncePointed(g.node[i])
        BY <2>3, <4>8, <4>10, TargetFacts DEF OncePointed
      <4>14. /\ \A j \in h.imap : g.node[j] = h.node[j]
             /\ \A a \in h.bmap : a # p => g.blk[a] = h.blk[a]
        BY <1>1, <3>3, <3>4, <4>4, <4>6
      <4>15. ~ Has(EntriesOf(h, d), t) /\ HasRoom(EntriesOf(h, d), t)
        BY <2>1, <3>6 DEF es
      <4>16. g.blk[DirBlock(h, d)] = AddEntry(EntriesOf(h, d), t, i, "reg")
        BY <4>4, <4>6 DEF ns, es, p
      <4>17. \A a \in h.bmap : a # DirBlock(h, d) => g.blk[a] = h.blk[a]
        BY <4>14 DEF p
      <4>18. DiskOK(g)
        BY <1>0, <2>6, <4>6, <4>8, <4>9, <4>12, <4>13, <4>14, <4>15, <4>16, <4>17, AddOK
      <4>19. DirsOf(h) \subseteq DirsOf(g)
        BY <4>6, <4>14 DEF DirsOf, IsDirectory
      <4>20. Frame(h, g, d, t)
        BY <1>0, <2>5, <4>14, <4>15, <4>16, <4>17, FrameAdded
      <4>21. ASSUME NEW k \in CopiedBlocks(nd)
             PROVE  /\ CopyTarget(fs, nd, k) \in Blocks /\ CopyTarget(fs, nd, k) # p
                    /\ g.blk[CopyTarget(fs, nd, k)] = h.blk[nd.ptr[k]]
        <5>1. k \in PlacedBlocks(fs, nd)
          BY <4>10
        <5>2. CopyTarget(fs, nd, k) \in FreeBlocks(fs)
          BY <2>3, <5>1, TargetFacts
        <5>3. CopyTarget(fs, nd, k) \in Blocks \ {p}
          BY <1>0, <1>1, <5>2 DEF FreeBlocks
        <5>. DEFINE a == CopyTarget(fs, nd, k)
        <5>4. copied.blk[a] = h.blk[nd.ptr[k]]
          BY <1>0, <2>5, <5>1
        <5>5. a \in Blocks \ {p}
          BY <5>3
        <5>. HIDE DEF a
        <5>6. g.blk[a] = copied.blk[a]
          BY <3>2, <4>4, <4>6, <5>5
        <5>. QED
          BY <5>4, <5>5, <5>6 DEF a
      <4>22. \A k \in Direct :
               IF k \in CopiedBlocks(nd)
               THEN /\ g.node[i].ptr[k] # NoBlock
                    /\ g.blk[g.node[i].ptr[k]] = h.blk[nd.ptr[k]]
               ELSE g.node[i].ptr[k] = NoBlock
        BY <4>8, <4>21, BlockKinds
      <4>23. nd = h.node[ShellTarget(h, d, s)]
        BY <2>3 DEF src, es, ShellTarget
      <4>24. g.node[i].size = nd.size
        BY <3>1, <4>7
      <4>25. CopyOf(h, g, ShellTarget(h, d, s), i)
        BY <4>8, <4>22, <4>23, <4>24 DEF CopyOf
      <4>26. Grown(h, g, d, t, i)
        BY <2>5, <2>6, <4>6, <4>15 DEF Grown, FreeInodes
      <4>. QED
        BY <3>6, <4>4, <4>5, <4>18, <4>19, <4>20, <4>25, <4>26 DEF gs, code, g
    <3>. QED
      BY <1>4, <2>9, <3>5, <3>6
  <2>. QED
    BY <2>8, <2>9
<1>. QED
  BY <1>3, <1>4

LEMMA CopyOK ==
  ASSUME NEW fs, DiskOK(fs), NEW d \in DirsOf(fs), NEW s \in UserNames, NEW t \in UserNames,
         \/ copy_file(fs, d, s, t).imap \subseteq 1 .. StoredInodes
         \/ StoredInodes = INODES_PER_GROUP
  PROVE  /\ DiskOK(copy_file(fs, d, s, t))
         /\ fs.imap \subseteq copy_file(fs, d, s, t).imap
         /\ DirsOf(fs) \subseteq DirsOf(copy_file(fs, d, s, t))
         /\ Frame(fs, copy_file(fs, d, s, t), d, t)
         /\ IF copy_file_code(fs, d, s, t) = 0
            THEN \E i : /\ Grown(fs, copy_file(fs, d, s, t), d, t, i)
                        /\ CopyOf(fs, copy_file(fs, d, s, t), ShellTarget(fs, d, s), i)
            ELSE copy_file(fs, d, s, t).imap = fs.imap
<1>. DEFINE gs == copy_file(fs, d, s, t)
<1>1. Holds(fs, fs)
  BY SoundInItself
<1>2. /\ gs \in Image /\ fs.imap \subseteq gs.imap /\ fs.bmap \subseteq gs.bmap
  BY <1>1, CopyOn
<1>3. Sound(fs, fs, gs) = gs
  BY <1>2, SoundInItself
<1>. QED
  BY <1>1, <1>2, <1>3, CopyOn

-----------------------------------------------------------------------------
(* The image of the inserter. *)

LEMMA FirstBlockFacts ==
  /\ FirstBlock \in Blocks
  /\ FreeBlocks(create_ext2) = Blocks \ {FirstBlock}
  /\ ShellSize + 1 <= Cardinality(FreeBlocks(create_ext2))
<1>1. Cardinality(Blocks) \in Nat /\ Cardinality(Blocks) > ShellSize + 1 /\ ShellSize \in Nat
  BY FS_CardinalityType
<1>2. Blocks # {}
  BY <1>1, FS_EmptySet
<1>3. FirstBlock \in Blocks
  BY <1>2, BlockKinds, LeastExists DEF FirstBlock
<1>4. FreeBlocks(create_ext2) = Blocks \ {FirstBlock}
  BY DEF FreeBlocks, create_ext2
<1>5. Cardinality(Blocks \ {FirstBlock}) = Cardinality(Blocks) - 1
  BY <1>3, BlockKinds, FS_RemoveElement
<1>. QED
  BY <1>1, <1>3, <1>4, <1>5

\* The blocks of the inserted file are free ones, a block of its own for each
\* piece and for the table.
LEMMA ShellBlocks ==
  LET fs  == create_ext2
      tab == TableBlock(fs, ShellSize)
  IN  /\ \A k \in 0 .. ShellSize - 1 : DataBlock(fs, k) \in FreeBlocks(fs)
      /\ \A k, l \in 0 .. ShellSize - 1 : DataBlock(fs, k) = DataBlock(fs, l) => k = l
      /\ ShellSize > DIRECT => /\ tab \in FreeBlocks(fs)
                               /\ \A k \in 0 .. ShellSize - 1 : DataBlock(fs, k) # tab
      /\ ~ (ShellSize > DIRECT) => tab = NoBlock
<1>. DEFINE fs == create_ext2
            free == Cardinality(FreeBlocks(fs))
            At(k) == IF k < DIRECT THEN k ELSE k + 1
<1>1. free \in Nat /\ ShellSize + 1 <= free /\ ShellSize \in Nat /\ DIRECT \in Nat
  BY FirstBlockFacts, FreeBlocksFinite
<1>. HIDE DEF fs, free
<1>2. \A k \in 0 .. ShellSize - 1 : /\ At(k) \in Nat /\ At(k) < free /\ At(k) # DIRECT
                                    /\ DataBlock(fs, k) = NthFree(fs, At(k))
  BY <1>1 DEF DataBlock
<1>3. \A k, l \in 0 .. ShellSize - 1 : At(k) = At(l) => k = l
  BY <1>1
<1>4. ShellSize > DIRECT => DIRECT < free /\ TableBlock(fs, ShellSize) = NthFree(fs, DIRECT)
  BY <1>1 DEF TableBlock
<1>5. ~ (ShellSize > DIRECT) => TableBlock(fs, ShellSize) = NoBlock
  BY DEF TableBlock
<1>. HIDE DEF At
<1>6. \A k \in 0 .. ShellSize - 1 : DataBlock(fs, k) \in FreeBlocks(fs)
  BY <1>2, NthFreeFacts DEF free
<1>7. \A k, l \in 0 .. ShellSize - 1 : DataBlock(fs, k) = DataBlock(fs, l) => k = l
  BY <1>2, <1>3, NthFreeOnce DEF free
<1>8. ShellSize > DIRECT => TableBlock(fs, ShellSize) \in FreeBlocks(fs)
  BY <1>1, <1>4, NthFreeFacts DEF free
<1>9. ShellSize > DIRECT =>
        \A k \in 0 .. ShellSize - 1 : DataBlock(fs, k) # TableBlock(fs, ShellSize)
  BY <1>1, <1>2, <1>4, NthFreeOnce DEF free
<1>. QED
  BY <1>5, <1>6, <1>7, <1>8, <1>9 DEF fs

LEMMA CreatedFacts ==
  /\ create_ext2 \in Image
  /\ create_ext2.imap = {Root} /\ create_ext2.bmap = {FirstBlock}
  /\ create_ext2.node[Root] = DirNode(FirstBlock)
  /\ create_ext2.blk[FirstBlock] = <<Entry(Root, Dot, "dir", 0), Entry(Root, DotDot, "dir", 12)>>
  /\ DirBlock(create_ext2, Root) = FirstBlock
<1>. DEFINE es == <<Entry(Root, Dot, "dir", 0), Entry(Root, DotDot, "dir", 12)>>
            node == [i \in Inodes |-> IF i = Root THEN DirNode(FirstBlock) ELSE ZeroNode]
            blk  == [b \in Blocks |-> IF b = FirstBlock THEN es ELSE Zero]
<1>1. es \in Content
  <2>1. Entry(Root, Dot, "dir", 0) \in EntryRec /\ Entry(Root, DotDot, "dir", 12) \in EntryRec
    BY BlockKinds DEF Entry, EntryRec
  <2>. QED
    BY <2>1 DEF Content
<1>2. DirNode(FirstBlock) \in NodeType /\ DirNode(FirstBlock).ptr[0] = FirstBlock
  BY FirstBlockFacts, DirNodeFields
<1>3. ZeroNode \in NodeType
  BY DEF ZeroNode, NodeType, Pointers
<1>4. node \in [Inodes -> NodeType] /\ node[Root] = DirNode(FirstBlock)
  BY <1>2, <1>3, BlockKinds
<1>5. Zero \in Content
  BY DEF Zero, Content
<1>. HIDE DEF es
<1>6. blk \in [Blocks -> Content] /\ blk[FirstBlock] = es
  BY <1>1, <1>5, FirstBlockFacts
<1>7. create_ext2 = [imap |-> {Root}, bmap |-> {FirstBlock}, node |-> node, blk |-> blk]
  BY DEF create_ext2, es
<1>. HIDE DEF node, blk
<1>. QED
  BY <1>2, <1>4, <1>6, <1>7, FirstBlockFacts, BlockKinds DEF Image, DirBlock, es

\* The file's data and table in their blocks.
LEMMA FilledFacts ==
  LET fs   == create_ext2
      tab  == TableBlock(fs, ShellSize)
      data == {DataBlock(fs, k) : k \in 0 .. ShellSize - 1}
      gs   == BlocksWritten(fs, ShellName, ShellSize)
  IN  /\ gs \in Image
      /\ gs.imap = fs.imap /\ gs.node = fs.node
      /\ gs.bmap = fs.bmap \cup data \cup ({tab} \ {NoBlock})
      /\ tab # NoBlock => gs.blk[tab] = IndirectTable(fs, ShellSize)
      /\ gs.blk[FirstBlock] = fs.blk[FirstBlock]
      /\ IndirectTable(fs, ShellSize) \in PtrTable
<1>. DEFINE fs   == create_ext2
            tab  == TableBlock(fs, ShellSize)
            data == {DataBlock(fs, k) : k \in 0 .. ShellSize - 1}
            piece(b) == CHOOSE k \in 0 .. ShellSize - 1 : DataBlock(fs, k) = b
            rec(b) == [file |-> ShellName, part |-> piece(b)]
            blk == [b \in Blocks |-> IF b = tab THEN IndirectTable(fs, ShellSize)
                                     ELSE IF b \in data THEN <<rec(b)>> ELSE fs.blk[b]]
            gs == BlocksWritten(fs, ShellName, ShellSize)
<1>1. /\ fs \in Image /\ fs.imap \in SUBSET Inodes /\ fs.bmap \in SUBSET Blocks
      /\ fs.node \in [Inodes -> NodeType] /\ fs.blk \in [Blocks -> Content]
  BY CreatedFacts, ImageFields
<1>2. /\ \A k \in 0 .. ShellSize - 1 : DataBlock(fs, k) \in Blocks \ {FirstBlock}
      /\ tab # NoBlock => tab \in Blocks \ {FirstBlock}
  BY ShellBlocks, FirstBlockFacts
<1>3. data \in SUBSET Blocks /\ FirstBlock \notin data /\ FirstBlock # tab
  BY <1>2, FirstBlockFacts, BlockKinds
<1>4. gs = [fs EXCEPT !.bmap = fs.bmap \cup data \cup ({tab} \ {NoBlock}), !.blk = blk]
  BY <1>1 DEF BlocksWritten, Image
<1>5. IndirectTable(fs, ShellSize) \in PtrTable
  <2>. SUFFICES ASSUME NEW k \in 0 .. PTRS - 1, k + DIRECT < ShellSize
                PROVE  DataBlock(fs, k + DIRECT) \in Pointers
    BY DEF IndirectTable, PtrTable, Pointers
  <2>1. k + DIRECT \in 0 .. ShellSize - 1
    OBVIOUS
  <2>. QED
    BY <1>2, <2>1 DEF Pointers
<1>6. blk \in [Blocks -> Content]
  <2>. SUFFICES ASSUME NEW b \in Blocks
                PROVE  blk[b] \in Content
    OBVIOUS
  <2>1. CASE b = tab
    BY <1>5, <2>1 DEF Content
  <2>2. CASE b # tab /\ b \in data
    <3>1. piece(b) \in 0 .. ShellSize - 1
      BY <2>2
    <3>. HIDE DEF piece
    <3>2. piece(b) \in Nat /\ ShellName \in UserNames
      BY <3>1 DEF UserNames
    <3>3. rec(b) \in Data
      BY <3>2 DEF Data
    <3>. HIDE DEF rec, data, tab
    <3>4. blk[b] = <<rec(b)>>
      BY <2>2
    <3>. DEFINE r == rec(b)
    <3>. HIDE DEF r
    <3>5. <<r>> \in Seq(Data)
      BY <3>3 DEF r
    <3>. QED
      BY <3>4, <3>5 DEF Content, r
  <2>3. CASE b # tab /\ b \notin data
    BY <1>1, <2>3
  <2>. QED
    BY <2>1, <2>2, <2>3
<1>7. blk[FirstBlock] = fs.blk[FirstBlock]
  BY <1>3, FirstBlockFacts
<1>8. tab # NoBlock => blk[tab] = IndirectTable(fs, ShellSize)
  BY <1>2
<1>. HIDE DEF blk, data, tab, fs, gs
<1>9. /\ gs.imap = fs.imap /\ gs.node = fs.node /\ gs.blk = blk
      /\ gs.bmap = fs.bmap \cup data \cup ({tab} \ {NoBlock})
      /\ gs = [imap |-> gs.imap, bmap |-> gs.bmap, node |-> gs.node, blk |-> gs.blk]
  BY <1>1, <1>4 DEF Image
<1>10. gs.bmap \in SUBSET Blocks
  BY <1>1, <1>2, <1>3, <1>9
<1>11. gs \in Image
  BY <1>1, <1>6, <1>9, <1>10 DEF Image
<1>. QED
  BY <1>5, <1>7, <1>8, <1>9, <1>11 DEF data, tab, fs, gs

\* What the inserter leaves: the root and the shell's file.
LEMMA ImageWritten ==
  LET fs   == create_ext2
      i    == allocate_node(fs)
      tab  == TableBlock(fs, ShellSize)
      data == {DataBlock(fs, k) : k \in 0 .. ShellSize - 1}
      gs   == write(fs, ShellName, ShellSize)
  IN  /\ gs \in Image
      /\ i \in Inodes /\ i # Root
      /\ gs.imap = {Root, i}
      /\ gs.bmap = {FirstBlock} \cup data \cup ({tab} \ {NoBlock})
      /\ gs.node[Root] = DirNode(FirstBlock)
      /\ gs.node[i] = [mode |-> "reg", size |-> ShellSize, blocks |-> ShellSize, ind |-> tab,
                       ptr |-> [k \in Direct |-> IF k < ShellSize THEN DataBlock(fs, k)
                                                 ELSE NoBlock]]
      /\ gs.blk[FirstBlock]
           = <<Entry(Root, Dot, "dir", 0), Entry(i, ShellName, "reg", 12)>>
      /\ tab # NoBlock => gs.blk[tab] = IndirectTable(fs, ShellSize)
<1>. DEFINE fs   == create_ext2
            i    == allocate_node(fs)
            tab  == TableBlock(fs, ShellSize)
            data == {DataBlock(fs, k) : k \in 0 .. ShellSize - 1}
            ptr  == [k \in Direct |-> IF k < ShellSize THEN DataBlock(fs, k) ELSE NoBlock]
            nd   == [mode |-> "reg", size |-> ShellSize, blocks |-> ShellSize, ind |-> tab,
                     ptr |-> ptr]
            written == BlocksWritten(fs, ShellName, ShellSize)
            filled  == [written EXCEPT !.imap = {Root, i}]
            synced  == sync_node(filled, i, nd)
            e0   == Entry(Root, Dot, "dir", 0)
            e1   == Entry(Root, DotDot, "dir", 12)
            e2   == Entry(i, ShellName, "reg", 12)
            gs   == write(fs, ShellName, ShellSize)
<1>1. /\ fs \in Image /\ fs.imap = {Root} /\ fs.bmap = {FirstBlock}
      /\ fs.node[Root] = DirNode(FirstBlock) /\ fs.blk[FirstBlock] = <<e0, e1>>
      /\ DirBlock(fs, Root) = FirstBlock /\ FirstBlock \in Blocks
  BY CreatedFacts, FirstBlockFacts
<1>2. /\ \A k \in 0 .. ShellSize - 1 : DataBlock(fs, k) \in Blocks
      /\ tab \in Pointers /\ tab # FirstBlock
  BY ShellBlocks, FirstBlockFacts, BlockKinds DEF Pointers
<1>3. /\ written \in Image /\ written.imap = {Root} /\ written.node = fs.node
      /\ written.bmap = {FirstBlock} \cup data \cup ({tab} \ {NoBlock})
      /\ tab # NoBlock => written.blk[tab] = IndirectTable(fs, ShellSize)
      /\ written.blk[FirstBlock] = <<e0, e1>>
  BY <1>1, FilledFacts
<1>4. i \in Inodes /\ i # Root /\ i \in 1 .. StoredInodes
  <2>. HIDE DEF fs
  <2>1. 1 \in FreeInodes(fs)
    BY <1>1, BlockKinds DEF FreeInodes, Inodes, Root
  <2>2. FreeInodes(fs) \in SUBSET Nat
    BY BlockKinds DEF FreeInodes
  <2>3. \E j \in FreeInodes(fs) : \A k \in FreeInodes(fs) : j <= k
    BY <2>1, <2>2, LeastExists
  <2>4. i \in FreeInodes(fs) /\ i <= 1
    BY <2>1, <2>3 DEF allocate_node
  <2>5. i = 1
    BY <2>2, <2>4 DEF FreeInodes, Inodes
  <2>. QED
    BY <2>5 DEF Inodes, Root
<1>5. nd \in NodeType
  <2>1. ptr \in [Direct -> Pointers]
    <3>. SUFFICES ASSUME NEW k \in Direct, k < ShellSize
                  PROVE  DataBlock(fs, k) \in Pointers
      BY DEF Pointers
    <3>1. k \in 0 .. ShellSize - 1
      BY DEF Direct
    <3>. QED
      BY <1>2, <3>1 DEF Pointers
  <2>. HIDE DEF ptr, tab
  <2>2. ShellSize \in Nat
    OBVIOUS
  <2>. QED
    BY <1>2, <2>1, <2>2 DEF NodeType
<1>6. gs = [synced EXCEPT !.blk[DirBlock(fs, Root)] = add_inode_to_dir(@, ShellName, i)]
  <2>1. [written EXCEPT !.imap = @ \cup {i}] = filled
    <3>. HIDE DEF written, i
    <3>1. written.imap \cup {i} = {Root, i}
      BY <1>3
    <3>. QED
      BY <1>3, <3>1 DEF Image
  <2>. QED
    BY <2>1, Zenon DEF write
<1>. HIDE DEF nd, written, fs, i, tab, data, gs
<1>7. /\ filled \in Image /\ filled.imap = {Root, i} /\ filled.bmap = written.bmap
      /\ filled.node = written.node /\ filled.blk = written.blk
  BY <1>3, <1>4, BlockKinds DEF Image
<1>. HIDE DEF filled
<1>8. /\ synced \in Image
      /\ synced.imap = {Root, i} /\ synced.bmap = written.bmap /\ synced.blk = written.blk
      /\ synced.node[Root] = DirNode(FirstBlock)
      /\ synced.node[i] = nd
  BY <1>1, <1>3, <1>4, <1>5, <1>7, SyncFacts, BlockKinds
<1>. HIDE DEF synced
<1>9. add_inode_to_dir(<<e0, e1>>, ShellName, i) = <<e0, e2>>
  <2>1. e1.at = 12
    BY DEF Entry
  <2>. HIDE DEF e0, e1
  <2>. DEFINE es == <<e0, e1>>
  <2>2. Len(es) = 2 /\ es[2] = e1
    OBVIOUS
  <2>3. SubSeq(es, 1, 1) = <<e0>>
    <3>. DEFINE f == SubSeq(es, 1, 1)
                g == <<e0>>
    <3>1. es \in Seq({e0, e1}) /\ es[1] = e0
      OBVIOUS
    <3>. HIDE DEF es
    <3>2. f \in Seq({e0, e1}) /\ Len(f) = 1 /\ f[1] = e0
      BY <2>2, <3>1
    <3>3. g \in Seq({e0, e1}) /\ Len(g) = 1 /\ g[1] = e0
      OBVIOUS
    <3>. HIDE DEF f, g
    <3>4. f = g
      BY <3>2, <3>3, SeqEqual
    <3>. QED
      BY <3>4 DEF f, g
  <2>. HIDE DEF es
  <2>4. Front(es) = <<e0>> /\ Last(es) = e1
    BY <2>2, <2>3 DEF Front, Last
  <2>5. add_inode_to_dir(es, ShellName, i) = Append(<<e0>>, e2)
    BY <2>1, <2>4 DEF add_inode_to_dir
  <2>. QED
    BY <2>5 DEF es
<1>10. gs = [synced EXCEPT !.blk[FirstBlock] = <<e0, e2>>]
  <2>. HIDE DEF e0, e1, e2
  <2>1. synced.blk[FirstBlock] = <<e0, e1>>
    BY <1>3, <1>8
  <2>. QED
    BY <1>1, <1>6, <1>8, <1>9, <2>1 DEF Image
<1>11. <<e0, e2>> \in Content
  <2>1. e0 \in EntryRec /\ e2 \in EntryRec
    BY <1>4, BlockKinds DEF Entry, EntryRec, UserNames
  <2>. QED
    BY <2>1 DEF Content
<1>. HIDE DEF e0, e1, e2
<1>12. /\ gs \in Image
       /\ gs.imap = synced.imap /\ gs.bmap = synced.bmap /\ gs.node = synced.node
       /\ gs.blk[FirstBlock] = <<e0, e2>>
       /\ \A a \in Blocks \ {FirstBlock} : gs.blk[a] = synced.blk[a]
  BY <1>1, <1>8, <1>10, <1>11, RewriteFacts
<1>13. tab # NoBlock => gs.blk[tab] = IndirectTable(fs, ShellSize)
  BY <1>2, <1>3, <1>8, <1>12 DEF Pointers
<1>. QED
  BY <1>3, <1>4, <1>8, <1>12, <1>13 DEF nd, fs, i, tab, data, gs, e0, e2

LEMMA InitOK ==
  LET gs == write(create_ext2, ShellName, ShellSize)
  IN  DiskOK(gs) /\ DirsOf(gs) = {Root}
<1>. DEFINE fs   == create_ext2
            i    == allocate_node(fs)
            tab  == TableBlock(fs, ShellSize)
            data == {DataBlock(fs, k) : k \in 0 .. ShellSize - 1}
            ptr  == [k \in Direct |-> IF k < ShellSize THEN DataBlock(fs, k) ELSE NoBlock]
            gs   == write(fs, ShellName, ShellSize)
            e0   == Entry(Root, Dot, "dir", 0)
            e2   == Entry(i, ShellName, "reg", 12)
            nd   == gs.node[i]
<1>1. /\ gs \in Image /\ i \in Inodes /\ i # Root
      /\ gs.imap = {Root, i}
      /\ gs.bmap = {FirstBlock} \cup data \cup ({tab} \ {NoBlock})
      /\ gs.node[Root] = DirNode(FirstBlock)
      /\ gs.blk[FirstBlock] = <<e0, e2>>
      /\ tab # NoBlock => gs.blk[tab] = IndirectTable(fs, ShellSize)
      /\ gs.node[i].mode = "reg" /\ nd.size = ShellSize /\ nd.blocks = ShellSize
      /\ nd.ind = tab /\ nd.ptr = ptr
  BY ImageWritten
<1>2. /\ \A k \in 0 .. ShellSize - 1 : DataBlock(fs, k) \in Blocks \ {FirstBlock}
      /\ \A k, l \in 0 .. ShellSize - 1 : DataBlock(fs, k) = DataBlock(fs, l) => k = l
      /\ ShellSize > DIRECT => tab \in Blocks \ {FirstBlock}
      /\ ~ (ShellSize > DIRECT) => tab = NoBlock
      /\ FirstBlock \in Blocks
  BY ShellBlocks, FirstBlockFacts
<1>3. IndirectTable(fs, ShellSize) \in PtrTable
  BY FilledFacts
<1>4. /\ e0.name = Dot /\ e0.inode = Root /\ e0.at = 0
      /\ e2.name = ShellName /\ e2.inode = i /\ e2.at = 12 /\ e2.type = "reg"
  BY DEF Entry
<1>5. e0 \in EntryRec /\ e2 \in EntryRec /\ ShellName \in UserNames
  BY <1>1, BlockKinds DEF Entry, EntryRec, UserNames
<1>. HIDE DEF gs, fs, i, tab, e0, e2
<1>6. DirsOf(gs) = {Root} /\ Root \in DirsOf(gs)
  BY <1>1, DirNodeFields, <1>2 DEF DirsOf, IsDirectory
<1>7. DirShaped(gs, Root) /\ DirBlock(gs, Root) = FirstBlock
  BY <1>1, <1>2, DirNodeFields DEF DirShaped, DirBlock
<1>8. FileShaped(gs, i)
  BY <1>1, <1>3 DEF FileShaped
<1>9. Shapes(gs)
  BY <1>1, <1>7, <1>8 DEF Shapes
<1>10. BlocksOf(gs, Root) = {FirstBlock}
  BY <1>7, OneBlockOfDir
<1>11. BlocksOf(gs, i) \subseteq data \cup ({tab} \ {NoBlock})
  <2>. HIDE DEF nd
  <2>1. \A k \in 0 .. ShellSize - 1 : get_physical_block_from_logical(gs, nd, k) = DataBlock(fs, k)
    <3>. SUFFICES ASSUME NEW k \in 0 .. ShellSize - 1
                  PROVE  get_physical_block_from_logical(gs, nd, k) = DataBlock(fs, k)
      OBVIOUS
    <3>1. CASE k < DIRECT
      <4>1. k \in Direct /\ k < ShellSize
        BY <3>1 DEF Direct
      <4>. QED
        BY <1>1, <3>1, <4>1 DEF get_physical_block_from_logical
    <3>2. CASE ~ (k < DIRECT)
      <4>1. /\ ShellSize > DIRECT /\ k - DIRECT \in 0 .. PTRS - 1
            /\ (k - DIRECT) + DIRECT = k /\ k < ShellSize
        BY <3>2
      <4>2. tab # NoBlock
        BY <1>2, <4>1, BlockKinds
      <4>3. IndirectTable(fs, ShellSize)[k - DIRECT] = DataBlock(fs, k)
        BY <4>1 DEF IndirectTable
      <4>. QED
        BY <1>1, <3>2, <4>2, <4>3 DEF get_physical_block_from_logical
    <3>. QED
      BY <3>1, <3>2
  <2>2. DataBlocks(gs, nd) \subseteq data
    BY <1>1, <2>1 DEF DataBlocks
  <2>. QED
    BY <1>1, <2>2 DEF BlocksOf, nd
<1>12. OncePointed(gs.node[Root])
  <2>1. \A k \in Direct : k # 0 => gs.node[Root].ptr[k] = NoBlock
    BY <1>1, <1>2, DirNodeFields
  <2>. QED
    BY <2>1 DEF OncePointed
<1>13. OncePointed(gs.node[i])
  <2>1. \A k \in Direct : /\ k \in Nat
                          /\ ptr[k] = IF k < ShellSize THEN DataBlock(fs, k) ELSE NoBlock
    BY DEF Direct
  <2>. HIDE DEF ptr
  <2>. SUFFICES ASSUME NEW k \in Direct, NEW l \in Direct, k # l, ptr[k] = ptr[l],
                       ptr[k] # NoBlock
                PROVE  FALSE
    BY <1>1 DEF OncePointed
  <2>2. k \in 0 .. ShellSize - 1 /\ l \in 0 .. ShellSize - 1
    BY <2>1
  <2>. QED
    BY <1>2, <2>1, <2>2
<1>14. Owning(gs)
  <2>1. FirstBlock \notin data \cup ({tab} \ {NoBlock})
    BY <1>2, BlockKinds
  <2>. QED
    BY <1>1, <1>10, <1>11, <1>12, <1>13, <2>1 DEF Owning
<1>. DEFINE es == <<e0, e2>>
<1>15. EntriesOf(gs, Root) = es
  BY <1>1, <1>7 DEF EntriesOf
<1>16. es \in Seq(EntryRec) /\ Len(es) = 2 /\ es[1] = e0 /\ es[2] = e2 /\ DOMAIN es = {1, 2}
  BY <1>5
<1>. HIDE DEF es
<1>17. RecordsFit(es)
  <2>1. RecLen(es, 1) = 12 /\ RecLen(es, 2) = BLOCK_SIZE - 12
    BY <1>4, <1>16, RecordLengths DEF RecLen
  <2>. QED
    BY <1>4, <1>16, <2>1, RecordLengths DEF RecordsFit
<1>18. NamesOnce(es) /\ KidsIn(es) = {e2}
  BY <1>4, <1>5, <1>16, NamesApart DEF NamesOnce, KidsIn
<1>19. Tables(gs)
  <2>1. Len(es) >= 1 /\ es[1].name = Dot /\ es[1].inode = Root
    BY <1>4, <1>16
  <2>2. TableOK(gs, Root)
    BY <1>15, <1>16, <1>17, <1>18, <2>1 DEF TableOK
  <2>. QED
    BY <1>6, <2>2 DEF Tables
<1>20. ChildrenOf(gs, Root) = {e2}
  BY <1>15, <1>18, ChildrenAreKids
<1>21. \A j, c, e : Listed(gs, c, e, j) <=> c = Root /\ e = e2 /\ j = i
  BY <1>4, <1>6, <1>20 DEF Listed
<1>22. Naming(gs)
  <2>1. \A c \in DirsOf(gs) : \A e \in ChildrenOf(gs, c) : /\ e.inode \in gs.imap \ {Root, c}
                                                          /\ gs.node[e.inode].mode = e.type
    BY <1>1, <1>4, <1>6, <1>20
  <2>2. \A j \in gs.imap \ {Root} : \E c, e : Listed(gs, c, e, j)
    BY <1>1, <1>21
  <2>. QED
    BY <1>21, <2>1, <2>2 DEF Naming
<1>23. Parents(gs)
  BY <1>4, <1>6, <1>20 DEF Parents
<1>24. Rooted(gs)
  BY <1>1, <1>4, <1>6, <1>20 DEF Rooted, Closed
<1>25. DiskOK(gs)
  BY <1>1, <1>6, <1>9, <1>14, <1>19, <1>22, <1>23, <1>24 DEF DiskOK
<1>. QED
  BY <1>6, <1>25 DEF gs, fs

-----------------------------------------------------------------------------
(* The commands. *)

\* The inductive invariant: the image is sound, the shell is in a directory that
\* is still there, and the shell's variables have their types.
FInv ==
  /\ DiskOK(disk)
  /\ current_inode \in DirsOf(disk)
  /\ current_working_directory \in Seq(Names)
  /\ pending \in UserNames \cup {NoName}
  /\ result \in -8 .. 3
  /\ buf = NotRead \/ DOMAIN buf \subseteq 0 .. DIRECT + PTRS

\* What a name of a directory leads to.
LEMMA TargetIsLive ==
  ASSUME NEW fs, DiskOK(fs), NEW d \in DirsOf(fs), NEW n \in UserNames,
         Has(EntriesOf(fs, d), n)
  PROVE  /\ ShellTarget(fs, d, n) \in fs.imap
         /\ IsDirectory(fs, ShellTarget(fs, d, n)) \/ FileShaped(fs, ShellTarget(fs, d, n))
         /\ \E e : e.name = n /\ Listed(fs, d, e, ShellTarget(fs, d, n))
<1>. DEFINE es == EntriesOf(fs, d)
            e  == es[IndexOf(es, n)]
            i  == ShellTarget(fs, d, n)
<1>1. es \in Seq(EntryRec)
  BY DirFacts DEF TableOK
<1>2. IndexOf(es, n) \in DOMAIN es /\ e.name = n
  BY <1>1, IndexFacts
<1>3. e \in ChildrenOf(fs, d)
  BY <1>2, NamesApart DEF ChildrenOf
<1>4. i \in fs.imap
  BY <1>3 DEF DiskOK, Naming, ShellTarget
<1>5. DirShaped(fs, i) => IsDirectory(fs, i)
  BY DirShapeFacts
<1>6. e.inode = i
  BY DEF ShellTarget
<1>7. Listed(fs, d, e, i)
  BY <1>3, <1>6 DEF Listed
<1>. QED
  BY <1>2, <1>4, <1>5, <1>7 DEF DiskOK, Shapes

LEMMA InitFInv == Init => FInv
<1>. SUFFICES ASSUME Init
              PROVE  FInv
  OBVIOUS
<1>1. /\ disk = write(create_ext2, ShellName, ShellSize)
      /\ current_inode = Root
      /\ current_working_directory = <<>> /\ pending = NoName /\ result = 0
      /\ buf = NotRead
  BY DEF Init
<1>2. DiskOK(disk) /\ current_inode \in DirsOf(disk)
  BY <1>1, InitOK
<1>. QED
  BY <1>1, <1>2 DEF FInv

LEMMA CdKeeps ==
  ASSUME FInv, NEW n \in Names, Cd(n)
  PROVE  FInv'
<1>1. n \in UserNames /\ DiskOK(disk) /\ current_inode \in DirsOf(disk)
  BY DEF UserNames, FInv
<1>2. Has(EntriesOf(disk, current_inode), n)
  BY DEF Cd, ShellSees
<1>3. current_inode' \in DirsOf(disk)
  BY <1>1, <1>2, TargetIsLive DEF Cd, DirsOf
<1>4. current_working_directory' \in Seq(Names)
  BY DEF FInv, Cd
<1>. QED
  BY <1>1, <1>3, <1>4 DEF FInv, Cd

LEMMA CdUpKeeps == FInv /\ CdUp => FInv'
<1>. SUFFICES ASSUME FInv, CdUp
              PROVE  FInv'
  OBVIOUS
<1>1. /\ disk' = disk /\ current_inode' = Root /\ current_working_directory' = <<>>
      /\ pending' = pending /\ result' = result /\ buf' = NotRead
  BY DEF CdUp, ShowRoot
<1>2. current_inode' \in DirsOf(disk)
  BY <1>1 DEF FInv, DiskOK
<1>3. current_working_directory' \in Seq(Names)
  BY <1>1
<1>. QED
  BY <1>1, <1>2, <1>3 DEF FInv

LEMMA MkdirKeeps ==
  ASSUME FInv, AllStored' \/ StoredInodes = INODES_PER_GROUP, NEW n \in Names, Mkdir(n)
  PROVE  FInv'
<1>1. n \in UserNames /\ DiskOK(disk) /\ current_inode \in DirsOf(disk)
  BY DEF UserNames, FInv
<1>2. /\ disk' = create_directory(disk, current_inode, n)
      /\ result' = create_directory_code(disk, current_inode, n)
      /\ current_inode' = current_inode /\ pending' = pending /\ buf' = NotRead
      /\ current_working_directory' = current_working_directory
  BY DEF Mkdir, place
<1>3. DiskOK(disk') /\ current_inode' \in DirsOf(disk')
  BY <1>1, <1>2, MkdirOK DEF AllStored
<1>4. result' \in -8 .. 3
  BY <1>2 DEF create_directory_code
<1>. QED
  BY <1>2, <1>3, <1>4 DEF FInv

LEMMA CopyCode == \A fs, d, s, t : copy_file_code(fs, d, s, t) \in -8 .. 0
BY DEF copy_file_code

LEMMA CopyKeeps ==
  ASSUME FInv, AllStored' \/ StoredInodes = INODES_PER_GROUP, NEW s \in UserNames, NEW t \in Names, Cp(s, t) \/ MvCopy(s, t)
  PROVE  FInv'
<1>1. t \in UserNames /\ DiskOK(disk) /\ current_inode \in DirsOf(disk)
  BY DEF UserNames, FInv
<1>2. /\ disk' = copy_file(disk, current_inode, s, t)
      /\ result' = copy_file_code(disk, current_inode, s, t)
      /\ current_inode' = current_inode /\ pending' \in {pending, s, NoName} /\ buf' = NotRead
      /\ current_working_directory' = current_working_directory
  BY DEF Cp, MvCopy, place
<1>3. DiskOK(disk') /\ current_inode' \in DirsOf(disk')
  BY <1>1, <1>2, CopyOK DEF AllStored
<1>4. result' \in -8 .. 3
  BY <1>2, CopyCode
<1>5. pending' \in UserNames \cup {NoName}
  BY <1>2 DEF FInv
<1>. QED
  BY <1>2, <1>3, <1>4, <1>5 DEF FInv

LEMMA RmKeeps ==
  ASSUME FInv, NEW n \in UserNames, RmCommand(n)
  PROVE  FInv'
<1>1. DiskOK(disk) /\ current_inode \in DirsOf(disk)
  BY DEF FInv
<1>2. CASE RmNotFound(n)
  BY <1>2 DEF FInv, RmNotFound, place
<1>3. CASE Rm(n)
  <2>. DEFINE t == ShellTarget(disk, current_inode, n)
              code == IF IsDirectory(disk, t)
                      THEN delete_directory_code(disk, current_inode, n)
                      ELSE delete_file_code(disk, current_inode, n)
  <2>1. /\ Has(EntriesOf(disk, current_inode), n)
        /\ disk' = IF code = 0 THEN EntryDeleted(disk, current_inode, n) ELSE disk
        /\ result' = code /\ pending' = NoName /\ buf' = NotRead
        /\ current_inode' = current_inode
        /\ current_working_directory' = current_working_directory
    BY <1>3 DEF Rm, ShellSees, place
  <2>2. code \in -8 .. 3
    BY DEF delete_directory_code, delete_file_code
  <2>3. code = 0 /\ IsDirectory(disk, t) => IsEmptyDirectory(disk, t)
    BY DEF delete_directory_code, ShellTarget
  <2>. HIDE DEF code
  <2>4. DiskOK(disk') /\ current_inode' \in DirsOf(disk')
    <3>1. CASE code = 0
      BY <1>1, <2>1, <2>3, <3>1, RemoveOK DEF DirsOf
    <3>2. CASE code # 0
      BY <1>1, <2>1, <3>2
    <3>. QED
      BY <3>1, <3>2
  <2>. QED
    BY <2>1, <2>2, <2>4 DEF FInv
<1>. QED
  BY <1>2, <1>3 DEF RmCommand

LEMMA ReadKeeps ==
  ASSUME FInv, NEW n \in UserNames, NEW size \in BufferSizes, Read(n, size)
  PROVE  FInv'
<1>. DEFINE t == ShellTarget(disk, current_inode, n)
            code == read_code(disk, current_inode, n, size)
<1>1. DiskOK(disk) /\ current_inode \in DirsOf(disk)
  BY DEF FInv
<1>2. /\ disk' = disk /\ current_inode' = current_inode /\ pending' = pending
      /\ current_working_directory' = current_working_directory
      /\ result' = code
      /\ buf' = IF code = 0 THEN ContentOf(disk, t) ELSE NotRead
  BY DEF Read, place
<1>3. code \in -8 .. 3
  BY DEF read_code
<1>4. buf' = NotRead \/ DOMAIN buf' \subseteq 0 .. DIRECT + PTRS
  <2>. SUFFICES ASSUME code = 0
                PROVE  DOMAIN ContentOf(disk, t) \subseteq 0 .. DIRECT + PTRS
    BY <1>2
  <2>1. Has(EntriesOf(disk, current_inode), n) /\ ~ IsDirectory(disk, t)
    BY DEF read_code, ShellTarget
  <2>2. t \in disk.imap /\ FileShaped(disk, t)
    BY <1>1, <2>1, TargetIsLive
  <2>3. disk.node[t].size \in Nat
    BY <1>1, <2>2, ImageFields, NodeFields DEF DiskOK
  <2>4. disk.node[t].size <= DIRECT + PTRS
    BY <2>2 DEF FileShaped
  <2>5. DOMAIN ContentOf(disk, t) = 0 .. disk.node[t].size - 1
    BY DEF ContentOf
  <2>. QED
    BY <2>3, <2>4, <2>5
<1>. QED
  BY <1>1, <1>2, <1>3, <1>4 DEF FInv

LEMMA StepFInv ==
  FInv /\ (AllStored' \/ StoredInodes = INODES_PER_GROUP) /\ [Next]_vars => FInv'
<1>. SUFFICES ASSUME FInv, AllStored' \/ StoredInodes = INODES_PER_GROUP, [Next]_vars
              PROVE  FInv'
  OBVIOUS
<1>1. CASE UNCHANGED vars
  BY <1>1 DEF FInv, vars, place
<1>2. CASE Next
  BY <1>2, CdUpKeeps, CdKeeps, MkdirKeeps, CopyKeeps, RmKeeps, ReadKeeps DEF Next
<1>. QED
  BY <1>1, <1>2

-----------------------------------------------------------------------------
(* What a command leaves alone. *)

LEMMA FrameKeepsOthers ==
  ASSUME NEW fs, DiskOK(fs), NEW gs, NEW d \in DirsOf(fs), NEW n, Frame(fs, gs, d, n)
  PROVE  /\ \A i \in fs.imap \cap gs.imap :
              fs.node[i].mode = "reg" => ContentOf(gs, i) = ContentOf(fs, i)
         /\ \A c \in (DirsOf(fs) \ {d}) \cap gs.imap : EntriesOf(gs, c) = EntriesOf(fs, c)
<1>1. ASSUME NEW i \in fs.imap, i \in gs.imap, fs.node[i].mode = "reg"
      PROVE  ContentOf(gs, i) = ContentOf(fs, i)
  <2>. DEFINE nd == fs.node[i]
              at(k) == get_physical_block_from_logical(fs, nd, k)
  <2>1. gs.node[i] = nd
    BY <1>1 DEF Frame
  <2>2. nd.ind # NoBlock => gs.blk[nd.ind] = fs.blk[nd.ind]
    BY IndirectFacts DEF Frame
  <2>3. \A k : get_physical_block_from_logical(gs, nd, k) = at(k)
    BY <2>2 DEF get_physical_block_from_logical
  <2>4. BlocksOf(fs, i) \subseteq fs.bmap /\ DirBlock(fs, d) \notin BlocksOf(fs, i)
    <3>1. d # i /\ d \in fs.imap /\ BlocksOf(fs, d) = {DirBlock(fs, d)}
      BY <1>1, DirFacts
    <3>. QED
      BY <3>1 DEF DiskOK, Owning
  <2>5. \A k \in 0 .. nd.size - 1 : at(k) # NoBlock => at(k) \in BlocksOf(fs, i)
    BY DEF DataBlocks, BlocksOf
  <2>. HIDE DEF at, nd
  <2>6. \A k \in 0 .. nd.size - 1 : at(k) # NoBlock => gs.blk[at(k)] = fs.blk[at(k)]
    BY <2>4, <2>5 DEF Frame
  <2>7. ContentOf(fs, i) = [k \in 0 .. nd.size - 1 |-> IF at(k) = NoBlock THEN Zero ELSE fs.blk[at(k)]]
    BY DEF ContentOf, at, nd
  <2>8. ContentOf(gs, i) = [k \in 0 .. nd.size - 1 |-> IF at(k) = NoBlock THEN Zero ELSE gs.blk[at(k)]]
    BY <2>1, <2>3 DEF ContentOf
  <2>. QED
    BY <2>6, <2>7, <2>8
<1>2. ASSUME NEW c \in DirsOf(fs), c # d, c \in gs.imap
      PROVE  EntriesOf(gs, c) = EntriesOf(fs, c)
  <2>1. DirBlock(fs, c) # DirBlock(fs, d) /\ DirBlock(fs, c) \in fs.bmap /\ c \in fs.imap
    BY <1>2, DirBlocksApart, DirFacts
  <2>2. gs.node[c] = fs.node[c] /\ gs.blk[DirBlock(fs, c)] = fs.blk[DirBlock(fs, c)]
    BY <1>2, <2>1 DEF Frame
  <2>. QED
    BY <2>2 DEF EntriesOf, DirBlock
<1>. QED
  BY <1>1, <1>2

LEMMA NextFrames ==
  ASSUME FInv, AllStored' \/ StoredInodes = INODES_PER_GROUP, Next
  PROVE  disk' = disk \/ \E n \in UserNames : Frame(disk, disk', current_inode, n)
<1>1. DiskOK(disk) /\ current_inode \in DirsOf(disk) /\ Names \subseteq UserNames
  BY DEF FInv, UserNames
<1>2. ASSUME NEW n \in Names, Mkdir(n)
      PROVE  Frame(disk, disk', current_inode, n)
  BY <1>1, <1>2, MkdirOK DEF Mkdir, AllStored
<1>3. ASSUME NEW s \in UserNames, NEW t \in Names, Cp(s, t) \/ MvCopy(s, t)
      PROVE  Frame(disk, disk', current_inode, t)
  <2>1. disk' = copy_file(disk, current_inode, s, t)
    BY <1>3 DEF Cp, MvCopy
  <2>. QED
    BY <1>1, <2>1, CopyOK DEF AllStored
<1>4. ASSUME NEW n \in UserNames, RmCommand(n), disk' # disk
      PROVE  Frame(disk, disk', current_inode, n)
  <2>. DEFINE t == ShellTarget(disk, current_inode, n)
  <2>1. Rm(n)
    BY <1>4 DEF RmCommand, RmNotFound
  <2>2. /\ Has(EntriesOf(disk, current_inode), n)
        /\ disk' = EntryDeleted(disk, current_inode, n)
        /\ IsDirectory(disk, t) => delete_directory_code(disk, current_inode, n) = 0
    BY <1>4, <2>1 DEF Rm, ShellSees
  <2>3. t \in DirsOf(disk) => IsEmptyDirectory(disk, t)
    BY <2>2 DEF delete_directory_code, ShellTarget, DirsOf
  <2>. QED
    BY <1>1, <2>2, <2>3, RemoveOK
<1>5. (CdUp \/ \E n \in Names : Cd(n)) => disk' = disk
  BY DEF CdUp, Cd
<1>6. (\E n \in UserNames, size \in BufferSizes : Read(n, size)) => disk' = disk
  BY DEF Read
<1>. QED
  BY <1>1, <1>2, <1>3, <1>4, <1>5, <1>6 DEF Next

\* The action that OthersUntouched asks of every step.
OthersKept ==
  /\ \A i \in LiveFiles \cap disk'.imap : ContentOf(disk', i) = ContentOf(disk, i)
  /\ \A d \in (LiveDirs \ {current_inode}) \cap disk'.imap :
        EntriesOf(disk', d) = EntriesOf(disk, d)
  /\ disk' # disk =>
       \E n \in Names \cup {ShellName} :
         {e \in ChildrenOf(disk', current_inode) : e.name # n}
           = {e \in ChildrenOf(disk, current_inode) : e.name # n}

LEMMA StepOthers ==
  FInv /\ (AllStored' \/ StoredInodes = INODES_PER_GROUP) /\ [Next]_vars => [OthersKept]_vars
<1>. SUFFICES ASSUME FInv, AllStored' \/ StoredInodes = INODES_PER_GROUP, Next
              PROVE  OthersKept
  OBVIOUS
<1>1. CASE disk' = disk
  BY <1>1 DEF OthersKept
<1>2. CASE \E n \in UserNames : Frame(disk, disk', current_inode, n)
  <2>1. PICK n \in UserNames : Frame(disk, disk', current_inode, n)
    BY <1>2
  <2>2. DiskOK(disk) /\ current_inode \in DirsOf(disk) /\ LiveDirs = DirsOf(disk)
    BY DEF FInv, LiveDirs, DirsOf
  <2>3. \A i \in LiveFiles \cap disk'.imap : ContentOf(disk', i) = ContentOf(disk, i)
    BY <2>1, <2>2, FrameKeepsOthers DEF LiveFiles
  <2>4. \A d \in (LiveDirs \ {current_inode}) \cap disk'.imap :
          EntriesOf(disk', d) = EntriesOf(disk, d)
    BY <2>1, <2>2, FrameKeepsOthers
  <2>. QED
    BY <2>1, <2>3, <2>4 DEF OthersKept, Frame, UserNames
<1>. QED
  BY <1>1, <1>2, NextFrames

-----------------------------------------------------------------------------
(* From the closed sets to the levels of the tree. *)

LEMMA DeeperIs ==
  ASSUME NEW fs, NEW S
  PROVE  Deeper(fs, S)
           = S \cup UNION {{e.inode : e \in ChildrenOf(fs, d)} : d \in S \cap DirsOf(fs)}
<1>1. {i \in S \cap fs.imap : IsDirectory(fs, i)} = S \cap DirsOf(fs)
  BY DEF DirsOf
<1>. QED
  BY <1>1 DEF Deeper

\* W lists the levels from the root.
IsLevels(fs, W) ==
  W = [k \in 0 .. INODES_PER_GROUP |-> IF k = 0 THEN {Root} ELSE Deeper(fs, W[k - 1])]

Levels(fs) == CHOOSE W : IsLevels(fs, W)

LEMMA NoOrphansByLevels ==
  NoOrphans <=> disk.imap = Levels(disk)[INODES_PER_GROUP] /\ current_inode \in LiveDirs
BY Zenon DEF NoOrphans, Levels, IsLevels

LEMMA LevelsExist == \A fs : IsLevels(fs, Levels(fs))
<1>. SUFFICES ASSUME NEW fs
              PROVE  \E W : IsLevels(fs, W)
  BY DEF Levels
<1>. DEFINE UpTo(m, f) == f = [k \in 0 .. m |-> IF k = 0 THEN {Root} ELSE Deeper(fs, f[k - 1])]
            S == {m \in Nat : \E f : UpTo(m, f)}
<1>1. 0 \in S
  <2>. DEFINE f == [k \in 0 .. 0 |-> {Root}]
  <2>1. UpTo(0, f)
    OBVIOUS
  <2>. QED
    BY <2>1
<1>2. ASSUME NEW m \in Nat, m \in S
      PROVE  m + 1 \in S
  <2>1. PICK g : UpTo(m, g)
    BY <1>2
  <2>. DEFINE f == [k \in 0 .. m + 1 |-> IF k = m + 1 THEN Deeper(fs, g[m]) ELSE g[k]]
  <2>2. \A k \in 0 .. m : g[k] = IF k = 0 THEN {Root} ELSE Deeper(fs, g[k - 1])
    BY <2>1
  <2>. HIDE DEF UpTo
  <2>3. ASSUME NEW k \in 0 .. m + 1
        PROVE  f[k] = IF k = 0 THEN {Root} ELSE Deeper(fs, f[k - 1])
    <3>1. CASE k = 0
      BY <2>2, <3>1
    <3>2. CASE k \in 1 .. m
      <4>1. k \in 0 .. m /\ k - 1 \in 0 .. m + 1 /\ k # m + 1 /\ k - 1 # m + 1 /\ k # 0
        BY <3>2
      <4>. QED
        BY <2>2, <4>1
    <3>3. CASE k = m + 1
      <4>1. k - 1 = m /\ m \in 0 .. m + 1 /\ m # m + 1 /\ k # 0
        BY <3>3
      <4>. QED
        BY <3>3, <4>1
    <3>. QED
      BY <3>1, <3>2, <3>3
  <2>4. f = [k \in 0 .. m + 1 |-> IF k = 0 THEN {Root} ELSE Deeper(fs, f[k - 1])]
    BY <2>3
  <2>5. UpTo(m + 1, f)
    BY <2>4 DEF UpTo
  <2>. QED
    BY <2>5
<1>. HIDE DEF S
<1>3. INODES_PER_GROUP \in S
  <2>1. \A k \in 0 .. INODES_PER_GROUP - 1 : k \in S => k + 1 \in S
    BY <1>2
  <2>2. \A k \in 0 .. INODES_PER_GROUP : k \in S
    BY <1>1, <2>1, InductionUpTo
  <2>. QED
    BY <2>2
<1>. QED
  BY <1>3 DEF S, IsLevels

LEMMA LevelSteps ==
  ASSUME NEW fs, NEW W, IsLevels(fs, W)
  PROVE  /\ W[0] = {Root}
         /\ \A k \in 0 .. INODES_PER_GROUP - 1 : W[k + 1] = Deeper(fs, W[k])
<1>1. \A k \in 0 .. INODES_PER_GROUP :
        W[k] = IF k = 0 THEN {Root} ELSE Deeper(fs, W[k - 1])
  BY DEF IsLevels
<1>2. ASSUME NEW k \in 0 .. INODES_PER_GROUP - 1
      PROVE  W[k + 1] = Deeper(fs, W[k])
  <2>1. k + 1 \in 0 .. INODES_PER_GROUP /\ k + 1 # 0 /\ (k + 1) - 1 = k
    OBVIOUS
  <2>. QED
    BY <1>1, <2>1
<1>. QED
  BY <1>1, <1>2

\* A level holds the root and only live inodes.
LEMMA LevelsAreLive ==
  ASSUME NEW fs, DiskOK(fs), NEW W, IsLevels(fs, W)
  PROVE  \A k \in 0 .. INODES_PER_GROUP : Root \in W[k] /\ W[k] \subseteq fs.imap
<1>. DEFINE S == {k \in 0 .. INODES_PER_GROUP : Root \in W[k] /\ W[k] \subseteq fs.imap}
<1>1. 0 \in S
  BY LevelSteps DEF DiskOK, DirsOf
<1>2. ASSUME NEW k \in 0 .. INODES_PER_GROUP - 1, k \in S
      PROVE  k + 1 \in S
  <2>1. W[k + 1] = Deeper(fs, W[k])
    BY LevelSteps
  <2>2. Deeper(fs, W[k]) \subseteq fs.imap /\ Root \in Deeper(fs, W[k])
    BY <1>2, DeeperIs DEF DiskOK, Naming
  <2>. QED
    BY <2>1, <2>2
<1>. HIDE DEF S
<1>3. \A k \in 0 .. INODES_PER_GROUP : k \in S
  BY <1>1, <1>2, InductionUpTo
<1>. QED
  BY <1>3 DEF S

\* A level is closed, or has more members than the level before it.
LEMMA LevelsGrow ==
  ASSUME NEW fs, DiskOK(fs), NEW W, IsLevels(fs, W)
  PROVE  \A k \in 0 .. INODES_PER_GROUP : Closed(fs, W[k]) \/ Cardinality(W[k]) >= k + 1
<1>. DEFINE S == {k \in 0 .. INODES_PER_GROUP : Closed(fs, W[k]) \/ Cardinality(W[k]) >= k + 1}
<1>0. \A k \in 0 .. INODES_PER_GROUP : /\ Root \in W[k]
                                       /\ IsFiniteSet(W[k]) /\ Cardinality(W[k]) \in Nat
  <2>1. fs.imap \in SUBSET Inodes
    BY ImageFields DEF DiskOK
  <2>2. \A k \in 0 .. INODES_PER_GROUP : Root \in W[k] /\ W[k] \subseteq Inodes
    BY <2>1, LevelsAreLive
  <2>. QED
    BY <2>2, BlockKinds, FS_Subset, FS_CardinalityType
<1>1. 0 \in S
  <2>1. Cardinality(W[0]) = 1
    BY LevelSteps, FS_Singleton
  <2>. QED
    BY <2>1
<1>2. ASSUME NEW k \in 0 .. INODES_PER_GROUP - 1, k \in S
      PROVE  k + 1 \in S
  <2>0. W[k + 1] = Deeper(fs, W[k]) /\ k \in 0 .. INODES_PER_GROUP
        /\ k + 1 \in 0 .. INODES_PER_GROUP
    BY LevelSteps
  <2>1. CASE Closed(fs, W[k])
    <3>1. Deeper(fs, W[k]) = W[k]
      <4>1. \A d \in W[k] \cap DirsOf(fs) : \A e \in ChildrenOf(fs, d) : e.inode \in W[k]
        BY <2>1 DEF Closed
      <4>2. UNION {{e.inode : e \in ChildrenOf(fs, d)} : d \in W[k] \cap DirsOf(fs)} \subseteq W[k]
        BY <4>1
      <4>. QED
        BY <4>2, DeeperIs
    <3>. QED
      BY <2>0, <2>1, <3>1
  <2>2. CASE ~ Closed(fs, W[k])
    <3>1. PICK d \in W[k] \cap DirsOf(fs) : \E e \in ChildrenOf(fs, d) : e.inode \notin W[k]
      BY <1>0, <2>0, <2>2 DEF Closed
    <3>2. W[k] \subseteq W[k + 1] /\ W[k + 1] # W[k]
      BY <2>0, <3>1, DeeperIs
    <3>3. Cardinality(W[k]) <= Cardinality(W[k + 1]) /\ Cardinality(W[k]) # Cardinality(W[k + 1])
      BY <1>0, <2>0, <3>2, FS_Subset
    <3>4. Cardinality(W[k]) >= k + 1
      BY <1>2, <2>2
    <3>. DEFINE a == Cardinality(W[k])
                b == Cardinality(W[k + 1])
    <3>5. a \in Nat /\ b \in Nat /\ a <= b /\ a # b /\ a >= k + 1
      BY <1>0, <2>0, <3>3, <3>4
    <3>. HIDE DEF a, b
    <3>6. b >= k + 2
      BY <3>5
    <3>. QED
      BY <2>0, <3>6 DEF b
  <2>. QED
    BY <2>1, <2>2
<1>. HIDE DEF S
<1>3. \A k \in 0 .. INODES_PER_GROUP : k \in S
  BY <1>1, <1>2, InductionUpTo
<1>. QED
  BY <1>3 DEF S

\* The last level is everything that is live.
LEMMA LevelsReachAll ==
  ASSUME NEW fs, DiskOK(fs)
  PROVE  fs.imap = Levels(fs)[INODES_PER_GROUP]
<1>. DEFINE N == INODES_PER_GROUP
            L == Levels(fs)[N]
<1>1. IsLevels(fs, Levels(fs)) /\ N \in 0 .. N
  BY LevelsExist
<1>2. L \subseteq fs.imap /\ L \subseteq Inodes
  BY <1>1, LevelsAreLive, ImageFields DEF DiskOK
<1>3. Closed(fs, L) \/ Cardinality(L) >= N + 1
  BY <1>1, LevelsGrow
<1>4. Cardinality(Inodes) = N
  BY FS_Interval DEF Inodes
<1>5. Cardinality(L) <= N /\ Cardinality(L) \in Nat
  BY <1>2, <1>4, BlockKinds, FS_Subset, FS_CardinalityType
<1>6. Closed(fs, L)
  <2>. HIDE DEF L
  <2>. QED
    BY <1>3, <1>5
<1>. HIDE DEF L
<1>. QED
  BY <1>2, <1>6 DEF DiskOK, Rooted, L

-----------------------------------------------------------------------------
(* The theorems. *)

\* The image stays sound as long as every live inode has its record in the
\* blocks of the inode table (write of ext2.c:423-565, interrupt.c:127-887).
THEOREM ImageStaysSound == Spec /\ []AllStored => []FInv
<1>1. FInv /\ AllStored' /\ [Next]_vars => FInv'
  BY StepFInv
<1>. QED
  BY <1>1, InitFInv, PTL DEF Spec

\* The condition is about the inode table alone: with a table whose blocks hold
\* every record, no run breaks it (ext2.c:862-975, where they do not).
THEOREM WholeTableStores ==
  ASSUME StoredInodes = INODES_PER_GROUP
  PROVE  Spec => []AllStored
<1>1. FInv /\ [Next]_vars => FInv'
  BY StepFInv
<1>2. FInv => AllStored
  BY ImageFields DEF FInv, DiskOK, AllStored, Inodes
<1>. QED
  BY <1>1, <1>2, InitFInv, PTL DEF Spec

\* The metadata of the image keeps its types, and a live inode its kind
\* (ext2.h:156-213).
THEOREM MetadataTyped == Spec /\ []AllStored => []TypeOK
<1>1. FInv => TypeOK
  <2>. SUFFICES ASSUME FInv
                PROVE  TypeOK
    OBVIOUS
  <2>1. /\ disk.imap \subseteq Inodes /\ disk.bmap \subseteq Blocks
        /\ disk.node \in [Inodes -> NodeType] /\ DOMAIN disk.blk = Blocks
        /\ disk.imap \in SUBSET Inodes
    BY ImageFields DEF FInv, DiskOK
  <2>2. \A i \in disk.imap : disk.node[i].mode # "none"
    <3>. SUFFICES ASSUME NEW i \in disk.imap
                  PROVE  disk.node[i].mode # "none"
      OBVIOUS
    <3>1. CASE DirShaped(disk, i)
      BY <3>1, DirShapeFacts DEF IsDirectory
    <3>2. CASE FileShaped(disk, i)
      BY <3>2 DEF FileShaped
    <3>. QED
      BY <3>1, <3>2 DEF FInv, DiskOK, Shapes
  <2>3. current_inode \in Inodes
    BY <2>1 DEF FInv, DirsOf
  <2>. QED
    BY <2>1, <2>2, <2>3 DEF FInv, TypeOK, NodeType, Pointers
<1>. QED
  BY <1>1, ImageStaysSound, PTL

\* No block has two owners, and every owned block is marked: what allocate_block
\* hands out is nobody's (ext2.c:567-589 against interrupt.c:248-277 and 649-659).
THEOREM BlocksHaveOneOwner == Spec /\ []AllStored => []BlocksOwnedOnce
<1>1. FInv => BlocksOwnedOnce
  BY DEF FInv, DiskOK, Owning, OncePointed, BlocksOwnedOnce
<1>. QED
  BY <1>1, ImageStaysSound, PTL

\* Every name leads to a live inode of its kind, and every live inode but the root
\* has one name (interrupt.c:303-360 and 511-566 against 649-714).
THEOREM NamesAgree == Spec /\ []AllStored => []NamesResolve
<1>1. FInv => NamesResolve
  <2>. SUFFICES ASSUME FInv
                PROVE  NamesResolve
    OBVIOUS
  <2>1. LiveDirs = DirsOf(disk) /\ Naming(disk)
    BY DEF LiveDirs, DirsOf, FInv, DiskOK
  <2>2. \A d \in LiveDirs : \A e \in ChildrenOf(disk, d) :
          e.inode \in disk.imap /\ disk.node[e.inode].mode = e.type
    BY <2>1 DEF Naming
  <2>3. ASSUME NEW i \in disk.imap \ {Root}
        PROVE  Cardinality({l \in LiveDirs \X UNION {ChildrenOf(disk, d) : d \in LiveDirs} :
                              l[2] \in ChildrenOf(disk, l[1]) /\ l[2].inode = i}) = 1
    <3>. DEFINE All == LiveDirs \X UNION {ChildrenOf(disk, d) : d \in LiveDirs}
                Links == {l \in All : l[2] \in ChildrenOf(disk, l[1]) /\ l[2].inode = i}
    <3>1. PICK d, e : Listed(disk, d, e, i)
      BY <2>1 DEF Naming
    <3>2. d \in LiveDirs /\ e \in ChildrenOf(disk, d) /\ e.inode = i
      BY <2>1, <3>1 DEF Listed
    <3>3. <<d, e>> \in Links
      BY <3>2
    <3>4. ASSUME NEW l \in Links
          PROVE  l = <<d, e>>
      <4>1. l = <<l[1], l[2]>> /\ l[1] \in LiveDirs /\ l[2] \in ChildrenOf(disk, l[1])
            /\ l[2].inode = i
        OBVIOUS
      <4>2. Listed(disk, l[1], l[2], i)
        BY <2>1, <4>1 DEF Listed
      <4>3. l[1] = d /\ l[2] = e
        BY <2>1, <3>1, <4>2 DEF Naming
      <4>. QED
        BY <4>1, <4>3
    <3>5. Links = {<<d, e>>}
      BY <3>3, <3>4
    <3>. QED
      BY <3>5, FS_Singleton
  <2>. QED
    BY <2>2, <2>3 DEF NamesResolve
<1>. QED
  BY <1>1, ImageStaysSound, PTL

\* The block of a directory stays a chain of records that end inside it, with
\* every name once (interrupt.c:511-556, 664-691).
THEOREM TablesStayChains == Spec /\ []AllStored => []EntriesWellFormed
<1>1. FInv => EntriesWellFormed
  <2>. SUFFICES ASSUME FInv, NEW d \in LiveDirs
                PROVE  TableOK(disk, d)
    BY DEF EntriesWellFormed, TableOK, RecordsFit, NamesOnce
  <2>. QED
    BY DEF FInv, DiskOK, Tables, LiveDirs, DirsOf
<1>. QED
  BY <1>1, ImageStaysSound, PTL

\* ".." of a directory is the directory that lists it, whatever was removed and
\* made again before (interrupt.c:470-499 against 804-886).
THEOREM ParentsLeadBack == Spec /\ []AllStored => []ParentsRight
<1>1. FInv => ParentsRight
  <2>. SUFFICES ASSUME FInv, NEW d \in LiveDirs, NEW e \in ChildrenOf(disk, d), e.type = "dir"
                PROVE  /\ EntriesOf(disk, e.inode)[2].name = DotDot
                       /\ EntriesOf(disk, e.inode)[2].inode = d
    BY DEF ParentsRight
  <2>1. d \in DirsOf(disk)
    BY DEF LiveDirs, DirsOf
  <2>2. e.inode \in DirsOf(disk) /\ e.inode # Root
    BY <2>1 DEF FInv, DiskOK, Naming, DirsOf, IsDirectory
  <2>. QED
    BY <2>1, <2>2 DEF FInv, DiskOK, Parents, Tables, TableOK
<1>. QED
  BY <1>1, ImageStaysSound, PTL

\* The directories are one tree with every live inode in it, the shell's
\* directory included: rmdir cuts nothing off, and no command makes a loop
\* (interrupt.c:784-815, builtin_commands.c:281-373 and 704-809).
THEOREM NothingIsCutOff == Spec /\ []AllStored => []NoOrphans
<1>1. FInv => NoOrphans
  BY LevelsReachAll, NoOrphansByLevels DEF FInv, LiveDirs, DirsOf
<1>. QED
  BY <1>1, ImageStaysSound, PTL

\* A command leaves every other file's content, every other directory's entries
\* and the other names of the current directory as they were
\* (interrupt.c:127-887).
THEOREM CommandsLeaveOthers == Spec /\ []AllStored => OthersUntouched
<1>1. FInv /\ AllStored' /\ [Next]_vars => [OthersKept]_vars
  BY StepOthers
<1>2. Spec /\ []AllStored => [][OthersKept]_vars
  BY <1>1, ImageStaysSound, PTL DEF Spec
<1>. QED
  BY <1>2, PTL DEF OthersUntouched, OthersKept
=============================================================================
