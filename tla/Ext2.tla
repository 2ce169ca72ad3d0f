-------------------------------- MODULE Ext2 --------------------------------
(***************************************************************************)
(* The file system as the shell drives it: the on-disk structures of ext2.c  *)
(* and the directory and file system calls of interrupt.c (create_directory, *)
(* copy_file, delete_file, delete_directory, read), called by the shell's    *)
(* cd, mkdir, cp, mv, rm, cat and exec, and the search of its find.           *)
(*                                                                         *)
(* System calls run with interrupts off, one at a time.  A directory entry  *)
(* is kept with its offset: rec_len is the distance to the next entry.       *)
(***************************************************************************)
EXTENDS Integers, FiniteSets, SequencesExt

CONSTANTS
  INODES_PER_GROUP,  \* inodes of the only block group
  StoredInodes,      \* inode records that fit whole into the inode table's blocks
  StoredPointers,    \* block pointers of the next record that still fit
  Blocks,            \* the blocks behind the reserved ones
  DIRECT,            \* direct pointers of an inode
  PTRS,              \* pointers in an indirect block
  BLOCK_SIZE,        \* bytes of a directory block
  Names,             \* the names a user types
  NameLen,           \* their lengths
  ShellName,         \* the file the inserter puts into the image
  ShellSize,         \* its size in blocks
  BufferSizes,       \* sizes in blocks of the buffers of cat and exec
  FIND_DEPTH,        \* how deep find_recursive descends
  FIND_ROWS,         \* the rows of the screen in which find searches
  HIT_ROWS,          \* the rows in which it prints what it found
  COLUMNS,           \* the width of the screen
  OutputRows         \* the rows in which a command may begin to print

ASSUME Ext2Assumption ==
  /\ INODES_PER_GROUP \in Nat /\ INODES_PER_GROUP > 2
  /\ StoredInodes \in 2 .. INODES_PER_GROUP
  /\ StoredPointers \in 0 .. DIRECT
  /\ Blocks \subseteq Nat \ {0} /\ IsFiniteSet(Blocks)
  /\ DIRECT \in Nat \ {0} /\ PTRS \in Nat \ {0}
  /\ BLOCK_SIZE \in Nat /\ BLOCK_SIZE >= 32
  /\ NameLen \in [Names \cup {ShellName} -> 1 .. 255]
  /\ BLOCK_SIZE >= 21 + NameLen[ShellName]
  /\ (Names \cup {ShellName}) \cap {".", "..", ".none"} = {}
  /\ ShellSize \in 1 .. DIRECT + PTRS
  /\ Cardinality(Blocks) > ShellSize + 1
  /\ BufferSizes \subseteq Nat \ {0} /\ FIND_DEPTH \in Nat

\* The length of "Searching for: ".
HeadingLen == 15

\* The heading of find ends above HIT_ROWS: with 18 and 22 rows of 80 columns, for every
\* name of up to 255 characters.
ASSUME FindAssumption ==
  /\ FIND_ROWS \in Nat /\ HIT_ROWS \in Nat /\ COLUMNS \in Nat \ {0} /\ OutputRows \subseteq Nat
  /\ \A n \in Names \cup {ShellName} :
       FIND_ROWS + (HeadingLen + NameLen[n]) \div COLUMNS < HIT_ROWS

VARIABLES
  disk,           \* the disk image, see Disk
  current_inode,  \* the shell's current directory
  current_working_directory,  \* the path that it shows for it, as a sequence of names
  pending,        \* the source that mv still has to remove
  result,         \* the code of the last system call
  buf             \* what the last command read from a file

place == <<current_inode, current_working_directory>>
vars  == <<disk, place, pending, result, buf>>

Inodes  == 1 .. INODES_PER_GROUP
Root    == 2
NoBlock == 0
Direct  == 0 .. DIRECT - 1
NoName  == ".none"
Dot     == "."
DotDot  == ".."
Zero    == <<>>      \* the content of a hole

DirEntryHeader == 9

\* get_entry_record_len, where the name is "." or ".." or a file's.
get_entry_record_len(n) ==
  DirEntryHeader + (IF n = Dot THEN 1 ELSE IF n = DotDot THEN 2 ELSE NameLen[n])

ZeroNode == [mode |-> "none", size |-> 0, blocks |-> 0,
             ptr |-> [k \in Direct |-> NoBlock], ind |-> NoBlock]

Entry(i, n, t, at) == [inode |-> i, name |-> n, type |-> t, at |-> at]

-----------------------------------------------------------------------------
(***************************************************************************)
(* Reading a disk image fs: its bitmaps imap and bmap (as sets), the inode  *)
(* table node, and the contents blk of the blocks: a sequence of entries, a *)
(* table of pointers, or the identity of a piece of file data.              *)
(***************************************************************************)
FreeInodes(fs) == Inodes \ fs.imap
FreeBlocks(fs) == Blocks \ fs.bmap

allocate_node(fs) ==
  CHOOSE i \in FreeInodes(fs) : \A j \in FreeInodes(fs) : i <= j

\* The block that call number k of allocate_block returns, counted from 0.
NthFree(fs, k) ==
  CHOOSE b \in FreeBlocks(fs) : Cardinality({c \in FreeBlocks(fs) : c < b}) = k

\* What is left of inode record i when the inode table, longer than its
\* blocks, has been written and is read again.
StoredPart(i, nd) ==
  IF i <= StoredInodes THEN nd
  ELSE IF i = StoredInodes + 1
  THEN [nd EXCEPT !.ptr = [k \in Direct |-> IF k < StoredPointers THEN @[k] ELSE NoBlock],
                  !.ind = NoBlock]
  ELSE ZeroNode

\* Mutated write for the checks: the inode table is not written.
NotSynced(fs, i, nd) == fs

sync_node(fs, i, nd) == [fs EXCEPT !.node[i] = StoredPart(i, nd)]

IsDirectory(fs, i) == fs.node[i].mode = "dir"

\* The one block of a directory: nothing ever gives it a second one.
DirBlock(fs, d) == fs.node[d].ptr[0]
EntriesOf(fs, d) == fs.blk[DirBlock(fs, d)]

Has(es, n) == \E j \in DOMAIN es : es[j].name = n

IndexOf(es, n) ==
  CHOOSE j \in DOMAIN es : es[j].name = n /\ \A k \in 1 .. j - 1 : es[k].name # n

get_physical_block_from_logical(fs, nd, k) ==
  IF k < DIRECT THEN nd.ptr[k]
  ELSE IF nd.ind = NoBlock THEN NoBlock
  ELSE fs.blk[nd.ind][k - DIRECT]

\* What read() returns of a file, block by block.
ContentOf(fs, i) ==
  [k \in 0 .. fs.node[i].size - 1 |->
     LET b == get_physical_block_from_logical(fs, fs.node[i], k)
     IN  IF b = NoBlock THEN Zero ELSE fs.blk[b]]

DataBlocks(fs, nd) ==
  {get_physical_block_from_logical(fs, nd, k) : k \in 0 .. nd.size - 1} \ {NoBlock}

\* Every block an inode refers to, its indirect table included.
BlocksOf(fs, i) ==
  DataBlocks(fs, fs.node[i]) \cup ({fs.node[i].ind} \ {NoBlock})

-----------------------------------------------------------------------------
\* Directory blocks.
RecLen(es, j) == (IF j = Len(es) THEN BLOCK_SIZE ELSE es[j + 1].at) - es[j].at

EndOfLast(es) == Last(es).at + get_entry_record_len(Last(es).name)

\* Mutated test for the checks: the last record is long enough, used or not.
HasRoomInLast(es, n) == RecLen(es, Len(es)) >= get_entry_record_len(n)

HasRoom(es, n) == BLOCK_SIZE - EndOfLast(es) >= get_entry_record_len(n)

\* The last entry is cut to its size and the new one takes the rest.
AddEntry(es, n, i, t) == Append(es, Entry(i, n, t, EndOfLast(es)))

\* add_inode_to_dir of ext2.c: the new entry replaces the last one.
add_inode_to_dir(es, n, i) ==
  Append(Front(es), Entry(i, n, "reg", Last(es).at))

\* Mutated removal for the checks: the following entry goes.
RemoveNext(es, n) ==
  IF IndexOf(es, n) < Len(es) THEN RemoveAt(es, IndexOf(es, n) + 1) ELSE Front(es)

\* Mutated removal for the checks: the record before reaches to the end.
RemoveTail(es, n) == SubSeq(es, 1, IndexOf(es, n) - 1)

\* The record of the entry before absorbs the removed one; "." is never removed.
RemoveEntry(es, n) == RemoveAt(es, IndexOf(es, n))

-----------------------------------------------------------------------------
\* The image: create_ext2, and write() of the shell's program by the inserter.
FirstBlock == CHOOSE b \in Blocks : \A c \in Blocks : b <= c

DirNode(b) == [ZeroNode EXCEPT !.mode = "dir", !.size = 1, !.blocks = 1, !.ptr[0] = b]

create_ext2 ==
  [imap |-> {Root},
   bmap |-> {FirstBlock},
   node |-> [i \in Inodes |-> IF i = Root THEN DirNode(FirstBlock) ELSE ZeroNode],
   blk  |-> [b \in Blocks |->
               IF b = FirstBlock
               THEN <<Entry(Root, Dot, "dir", 0), Entry(Root, DotDot, "dir", 12)>>
               ELSE Zero]]

\* allocate_logical_block: a file of the given size takes the free blocks in
\* order; the indirect table comes before the first block it lists.
DataBlock(fs, k)  == NthFree(fs, IF k < DIRECT THEN k ELSE k + 1)
TableBlock(fs, size) == IF size > DIRECT THEN NthFree(fs, DIRECT) ELSE NoBlock
IndirectTable(fs, size) ==
  [k \in 0 .. PTRS - 1 |-> IF k + DIRECT < size THEN DataBlock(fs, k + DIRECT) ELSE NoBlock]

\* allocate_node_blocks_extended: the blocks are taken and the data of file n is
\* written to them.
BlocksWritten(fs, n, size) ==
  LET data == {DataBlock(fs, k) : k \in 0 .. size - 1}
      tab  == TableBlock(fs, size)
  IN  [fs EXCEPT
         !.bmap = @ \cup data \cup ({tab} \ {NoBlock}),
         !.blk = [b \in Blocks |->
                    IF b = tab THEN IndirectTable(fs, size)
                    ELSE IF b \in data
                    THEN <<[file |-> n,
                            part |-> CHOOSE k \in 0 .. size - 1 : DataBlock(fs, k) = b]>>
                    ELSE @[b]]]

\* write() of a new file n into the root.
write(fs, n, size) ==
  LET i  == allocate_node(fs)
      nd == [mode |-> "reg", size |-> size, blocks |-> size, ind |-> TableBlock(fs, size),
             ptr |-> [k \in Direct |-> IF k < size THEN DataBlock(fs, k) ELSE NoBlock]]
      filled == [BlocksWritten(fs, n, size) EXCEPT !.imap = @ \cup {i}]
  IN  [sync_node(filled, i, nd) EXCEPT
         !.blk[DirBlock(fs, Root)] = add_inode_to_dir(@, n, i)]

-----------------------------------------------------------------------------
(***************************************************************************)
(* The system calls.  Each has an operator for the code it returns and one  *)
(* for the disk it leaves.                                                 *)
(***************************************************************************)
create_directory_code(fs, d, n) ==
  IF ~ IsDirectory(fs, d) THEN -2
  ELSE IF Has(EntriesOf(fs, d), n) THEN -3
  ELSE IF FreeInodes(fs) = {} THEN -4
  ELSE IF FreeBlocks(fs) = {} THEN -5
  ELSE IF ~ HasRoom(EntriesOf(fs, d), n) THEN -6
  ELSE 0

\* Mutated table for the checks: every directory is put below the root.
TableBelowRoot(i, d) ==
  <<Entry(i, Dot, "dir", 0), Entry(Root, DotDot, "dir", get_entry_record_len(Dot))>>

\* The table of new directory i in d.
DirectoryTable(i, d) ==
  <<Entry(i, Dot, "dir", 0), Entry(d, DotDot, "dir", get_entry_record_len(Dot))>>

\* The new directory's block and inode are written, the parent is not yet.
DirectoryWritten(fs, d) ==
  LET i == allocate_node(fs)
      b == NthFree(fs, 0)
  IN  sync_node(
        [fs EXCEPT !.imap = @ \cup {i},
                   !.bmap = @ \cup {b},
                   !.blk[b] = DirectoryTable(i, d)],
        i, DirNode(b))

\* Mutated cleaning up for the checks: the bits stay set.
KeepBits(fs, new) == new

\* Cleaning up clears the two bits again.
BitsAsIn(fs, new) == [new EXCEPT !.imap = fs.imap, !.bmap = fs.bmap]

create_directory(fs, d, n) ==
  LET new == DirectoryWritten(fs, d)
  IN  CASE create_directory_code(fs, d, n) = 0 ->
             [new EXCEPT !.blk[DirBlock(fs, d)] = AddEntry(@, n, allocate_node(fs), "dir")]
        [] create_directory_code(fs, d, n) = -6 -> BitsAsIn(fs, new)
        [] OTHER -> fs

\* copy_file: the logical blocks it copies, and the one it puts each into.
CopiedBlocks(nd) == {k \in Direct : k < nd.size /\ k < nd.blocks /\ nd.ptr[k] # NoBlock}
CopyRank(nd, k)  == Cardinality({j \in CopiedBlocks(nd) : j < k})
PlacedBlocks(fs, nd) ==
  {k \in CopiedBlocks(nd) : CopyRank(nd, k) < Cardinality(FreeBlocks(fs))}
CopyTarget(fs, nd, k) == NthFree(fs, CopyRank(nd, k))

copy_file_code(fs, d, s, t) ==
  LET es == EntriesOf(fs, d)
      i  == es[IndexOf(es, s)].inode
  IN  IF ~ Has(es, s) THEN -1
      ELSE IF es[IndexOf(es, s)].type = "dir" THEN -3
      ELSE IF Has(es, t) THEN -2
      ELSE IF IsDirectory(fs, i) THEN -3
      ELSE IF FreeInodes(fs) = {} THEN -4
      ELSE IF PlacedBlocks(fs, fs.node[i]) # CopiedBlocks(fs.node[i]) THEN -5
      ELSE IF ~ HasRoom(es, t) THEN -8
      ELSE 0

\* The data blocks that were allocated hold the copy, the bits are set.
DataCopied(fs, nd) ==
  LET placed == PlacedBlocks(fs, nd)
  IN  [fs EXCEPT
         !.imap = @ \cup {allocate_node(fs)},
         !.bmap = @ \cup {CopyTarget(fs, nd, k) : k \in placed},
         !.blk = [b \in Blocks |->
                    IF \E k \in placed : CopyTarget(fs, nd, k) = b
                    THEN fs.blk[nd.ptr[CHOOSE k \in placed : CopyTarget(fs, nd, k) = b]]
                    ELSE @[b]]]

\* Mutated node for the checks: the indirect pointer is not reset.
NodeKeepingTable(fs, nd) ==
  [nd EXCEPT !.ptr = [k \in Direct |->
                        IF k \in CopiedBlocks(nd) THEN CopyTarget(fs, nd, k) ELSE NoBlock]]

\* The source's properties, with pointers of its own and no indirect block.
CopyNode(fs, nd) ==
  [nd EXCEPT !.ptr = [k \in Direct |->
                        IF k \in CopiedBlocks(nd) THEN CopyTarget(fs, nd, k) ELSE NoBlock],
             !.ind = NoBlock]

copy_file(fs, d, s, t) ==
  LET es     == EntriesOf(fs, d)
      nd     == fs.node[es[IndexOf(es, s)].inode]
      i      == allocate_node(fs)
      copied == DataCopied(fs, nd)
      synced == sync_node(copied, i, CopyNode(fs, nd))
  IN  CASE copy_file_code(fs, d, s, t) = 0 ->
             [synced EXCEPT !.blk[DirBlock(fs, d)] = AddEntry(@, t, i, "reg")]
        [] copy_file_code(fs, d, s, t) = -5 -> BitsAsIn(fs, copied)
        [] copy_file_code(fs, d, s, t) = -8 -> BitsAsIn(fs, synced)
        [] OTHER -> fs

\* The blocks that deleting inode i gives back: only the direct ones.
Released(fs, i) ==
  {fs.node[i].ptr[k] : k \in {j \in Direct : j < fs.node[i].blocks}} \ {NoBlock}

delete_file_code(fs, d, n) ==
  LET es == EntriesOf(fs, d)
  IN  IF ~ Has(es, n) THEN -3
      ELSE IF es[IndexOf(es, n)].type = "dir" THEN -6
      ELSE 0

\* Mutated test for the checks: the first entry decides.
EmptyByFirstEntry(fs, i) == TRUE

\* Nothing but "." and ".."; an inode that says it has no blocks is empty too.
IsEmptyDirectory(fs, i) ==
  fs.node[i].blocks > 0 /\ DirBlock(fs, i) # NoBlock =>
    \A j \in DOMAIN EntriesOf(fs, i) : EntriesOf(fs, i)[j].name \in {Dot, DotDot}

delete_directory_code(fs, d, n) ==
  LET es == EntriesOf(fs, d)
  IN  IF ~ Has(es, n) THEN -3
      ELSE IF es[IndexOf(es, n)].type # "dir" THEN -6
      ELSE IF ~ IsEmptyDirectory(fs, es[IndexOf(es, n)].inode) THEN -7
      ELSE 0

\* Both deletions: the blocks, the inode's bit, then the entry.
EntryDeleted(fs, d, n) ==
  LET i == EntriesOf(fs, d)[IndexOf(EntriesOf(fs, d), n)].inode
  IN  [fs EXCEPT !.bmap = @ \ Released(fs, i),
                 !.imap = @ \ {i},
                 !.blk[DirBlock(fs, d)] = RemoveEntry(@, n)]

-----------------------------------------------------------------------------
\* The shell's own search, find_for_rm: it stops at a record of more than
\* BLOCK_SIZE - 12 bytes (500 of 512).
ShellSees(fs, d, n) ==
  LET es == EntriesOf(fs, d)
  IN  /\ Has(es, n)
      /\ \A k \in 1 .. IndexOf(es, n) : RecLen(es, k) <= BLOCK_SIZE - 12

ShellTarget(fs, d, n) == EntriesOf(fs, d)[IndexOf(EntriesOf(fs, d), n)].inode

\* read: the code it returns for a buffer of so many blocks.
read_code(fs, d, n, size) ==
  LET es == EntriesOf(fs, d)
      i  == es[IndexOf(es, n)].inode
  IN  IF ~ IsDirectory(fs, d) \/ ~ Has(es, n) THEN 3
      ELSE IF IsDirectory(fs, i) THEN 1
      ELSE IF fs.node[i].size > size THEN 2
      ELSE 0

\* find_recursive goes through a directory up to the first record of more than so many
\* bytes, and looks at the entries other than "." and "..".
NamesUpTo(es, size) ==
  {j \in DOMAIN es : es[j].name \notin {Dot, DotDot} /\ \A k \in 1 .. j : RecLen(es, k) <= size}

\* Mutated limit for the checks: a record of exactly that size ends it, too.
ScannedBelow(es) == NamesUpTo(es, BLOCK_SIZE - 13)

Scanned(es) == NamesUpTo(es, BLOCK_SIZE - 12)

\* It enters directories, but never inode 1, a number that allocate_node gives.
Descends(fs, d, i) ==
  /\ i # d /\ i > 1
  /\ IsDirectory(fs, i) /\ fs.node[i].size > 0 /\ DirBlock(fs, i) # NoBlock

\* find_recursive in directory d: the path behind d of the first entry that has name n
\* or leads to one that has it; empty when there is none.  inside[i] is what it finds in i.
find_recursive(fs, n, d, inside) ==
  LET es == EntriesOf(fs, d)
      Behind(j) == IF Descends(fs, d, es[j].inode) THEN inside[es[j].inode] ELSE <<>>
      hits == {j \in Scanned(es) : es[j].name = n \/ Behind(j) # <<>>}
      first == Min(hits)
  IN  IF hits = {} THEN <<>>
      ELSE IF es[first].name = n THEN <<n>> ELSE <<es[first].name>> \o Behind(first)

\* What the search for n that begins in the root comes to.  The one in a directory
\* FIND_DEPTH + 1 levels down returns at once.
FromRoot(fs, n) ==
  LET Search[k \in 0 .. FIND_DEPTH + 1] ==
        [d \in Inodes |-> IF k = 0 THEN <<>> ELSE find_recursive(fs, n, d, Search[k - 1])]
  IN  Search[FIND_DEPTH + 1][Root]

Answer(says, path) == [says |-> says, path |-> path]

\* The row behind the heading "Searching for: " and the name, which may be wrapped.
RowBehindHeading(n, row) == row + (HeadingLen + NameLen[n]) \div COLUMNS + 1

\* find in the given row of the screen: it does not search in the last ones, and
\* find_recursive prints no hit below HIT_ROWS, but counts it as found.
handle_find(fs, n, row) ==
  IF row >= FIND_ROWS THEN Answer("no room", <<>>)
  ELSE IF FromRoot(fs, n) = <<>> THEN Answer("not found", <<>>)
  ELSE IF RowBehindHeading(n, row) < HIT_ROWS THEN Answer("found", FromRoot(fs, n))
  ELSE Answer("nothing", <<>>)

-----------------------------------------------------------------------------
NotRead == <<>>

Init ==
  /\ disk = write(create_ext2, ShellName, ShellSize)
  /\ current_inode = Root
  /\ current_working_directory = <<>>
  /\ pending = NoName
  /\ result = 0
  /\ buf = NotRead

\* cd: into a directory that the search finds.
Cd(n) ==
  /\ pending = NoName
  /\ ShellSees(disk, current_inode, n)
  /\ IsDirectory(disk, ShellTarget(disk, current_inode, n))
  /\ current_inode' = ShellTarget(disk, current_inode, n)
  /\ current_working_directory' = Append(current_working_directory, n)
  /\ buf' = NotRead
  /\ UNCHANGED <<disk, pending, result>>

\* Mutated cd for the checks: ".." takes one name off the path.
ShowParent ==
  /\ current_inode' = Root
  /\ current_working_directory' =
       IF current_working_directory = <<>> THEN <<>> ELSE Front(current_working_directory)

\* cd / and cd ..: up to the root, whatever the parent is.
ShowRoot ==
  /\ current_inode' = Root
  /\ current_working_directory' = <<>>

CdUp ==
  /\ pending = NoName
  /\ ShowRoot
  /\ buf' = NotRead
  /\ UNCHANGED <<disk, pending, result>>

Mkdir(n) ==
  /\ pending = NoName
  /\ disk' = create_directory(disk, current_inode, n)
  /\ result' = create_directory_code(disk, current_inode, n)
  /\ buf' = NotRead
  /\ UNCHANGED <<place, pending>>

Cp(s, t) ==
  /\ pending = NoName
  /\ disk' = copy_file(disk, current_inode, s, t)
  /\ result' = copy_file_code(disk, current_inode, s, t)
  /\ buf' = NotRead
  /\ UNCHANGED <<place, pending>>

\* mv is cp and, when that succeeded, rm of the source.
MvCopy(s, t) ==
  /\ pending = NoName
  /\ disk' = copy_file(disk, current_inode, s, t)
  /\ result' = copy_file_code(disk, current_inode, s, t)
  /\ pending' = IF copy_file_code(disk, current_inode, s, t) = 0 THEN s ELSE NoName
  /\ buf' = NotRead
  /\ UNCHANGED place

\* rm: the search decides which system call is made.
Rm(n) ==
  LET code == IF IsDirectory(disk, ShellTarget(disk, current_inode, n))
              THEN delete_directory_code(disk, current_inode, n)
              ELSE delete_file_code(disk, current_inode, n)
  IN  /\ ShellSees(disk, current_inode, n)
      /\ disk' = IF code = 0 THEN EntryDeleted(disk, current_inode, n) ELSE disk
      /\ result' = code
      /\ pending' = NoName
      /\ buf' = NotRead
      /\ UNCHANGED place

RmNotFound(n) ==
  /\ ~ ShellSees(disk, current_inode, n)
  /\ pending' = NoName
  /\ buf' = NotRead
  /\ UNCHANGED <<disk, place, result>>

RmCommand(n) == Rm(n) \/ RmNotFound(n)

\* The read that cat, exec and the boot make, each with a buffer of its own size.
Read(n, size) ==
  LET code == read_code(disk, current_inode, n, size)
  IN  /\ pending = NoName
      /\ result' = code
      /\ buf' = IF code = 0
                THEN ContentOf(disk, ShellTarget(disk, current_inode, n))
                ELSE NotRead
      /\ UNCHANGED <<disk, place, pending>>

UserNames == Names \cup {ShellName}

Next ==
  \/ CdUp
  \/ \E n \in Names : Cd(n) \/ Mkdir(n)
  \/ \E s \in UserNames, t \in Names : Cp(s, t) \/ MvCopy(s, t)
  \/ \E n \in UserNames : pending \in {NoName, n} /\ RmCommand(n)
  \/ \E n \in UserNames, size \in BufferSizes : Read(n, size)

Spec == Init /\ [][Next]_vars

-----------------------------------------------------------------------------
LiveDirs  == {d \in disk.imap : IsDirectory(disk, d)}
LiveFiles == {i \in disk.imap : disk.node[i].mode = "reg"}

\* The entries of a directory other than "." and "..".
ChildrenOf(fs, d) ==
  {EntriesOf(fs, d)[j] : j \in {k \in DOMAIN EntriesOf(fs, d) :
                                 EntriesOf(fs, d)[k].name \notin {Dot, DotDot}}}

\* The inodes in S, and what the directories among them list.
Deeper(fs, S) ==
  S \cup UNION {{e.inode : e \in ChildrenOf(fs, d)} :
                d \in {i \in S \cap fs.imap : IsDirectory(fs, i)}}

\* Type invariant of the image's metadata: a live inode has a kind
\* (ext2.h:156-213).
TypeOK ==
  /\ disk.imap \subseteq Inodes
  /\ disk.bmap \subseteq Blocks
  /\ disk.node \in [Inodes -> [mode : {"none", "reg", "dir"}, size : Nat, blocks : Nat,
                               ptr : [Direct -> Blocks \cup {NoBlock}],
                               ind : Blocks \cup {NoBlock}]]
  /\ \A i \in disk.imap : disk.node[i].mode # "none"
  /\ DOMAIN disk.blk = Blocks
  /\ current_inode \in Inodes
  /\ pending \in UserNames \cup {NoName}
  /\ result \in -8 .. 3
  /\ current_working_directory \in Seq(Names)
  /\ buf = NotRead \/ DOMAIN buf \subseteq 0 .. DIRECT + PTRS

\* Every block a live inode refers to is marked in the block bitmap, and no
\* other inode refers to it, nor the same inode twice: a later allocation
\* cannot overwrite a file or a directory (ext2.c:567-589 against
\* interrupt.c:248-277 and 649-659).
BlocksOwnedOnce ==
  /\ \A i \in disk.imap : BlocksOf(disk, i) \subseteq disk.bmap
  /\ \A i, j \in disk.imap :
       i # j => BlocksOf(disk, i) \cap BlocksOf(disk, j) = {}
  /\ \A i \in disk.imap : \A k, l \in Direct :
       k # l /\ disk.node[i].ptr[k] = disk.node[i].ptr[l] => disk.node[i].ptr[k] = NoBlock

\* The names and the inodes agree: an entry leads to a live inode of the kind
\* it says, and every live inode but the root has exactly one entry
\* (interrupt.c:303-360 and 511-566 against 649-714).
NamesResolve ==
  /\ \A d \in LiveDirs : \A e \in ChildrenOf(disk, d) :
       e.inode \in disk.imap /\ disk.node[e.inode].mode = e.type
  /\ \A i \in disk.imap \ {Root} :
       Cardinality({l \in LiveDirs \X UNION {ChildrenOf(disk, d) : d \in LiveDirs} :
                      l[2] \in ChildrenOf(disk, l[1]) /\ l[2].inode = i}) = 1

\* A directory block is a chain of records that do not overlap and end inside
\* the block, with every name once and "." first (interrupt.c:511-556,
\* 664-691).
EntriesWellFormed ==
  \A d \in LiveDirs :
    LET es == EntriesOf(disk, d)
    IN  /\ es[1].name = Dot /\ es[1].inode = d
        /\ \A j \in DOMAIN es : RecLen(es, j) >= get_entry_record_len(es[j].name)
        /\ \A j, k \in DOMAIN es : es[j].name = es[k].name => j = k

\* ".." of a directory other than the root is the directory that lists it,
\* also after the inode numbers of removed directories were given out again
\* (interrupt.c:470-499 against 804-886).
ParentsRight ==
  \A d \in LiveDirs : \A e \in ChildrenOf(disk, d) :
    e.type = "dir" => LET es == EntriesOf(disk, e.inode)
                      IN  es[2].name = DotDot /\ es[2].inode = d

\* The directories are one tree: every live inode is reached from the root, and
\* the shell's directory is one of them, so that nothing is cut off by removing
\* a directory that still lists something or that the shell is in
\* (interrupt.c:784-815, builtin_commands.c:281-373 and 704-809).
NoOrphans ==
  LET Within[k \in 0 .. INODES_PER_GROUP] ==
        IF k = 0 THEN {Root} ELSE Deeper(disk, Within[k - 1])
  IN  /\ disk.imap = Within[INODES_PER_GROUP]
      /\ current_inode \in LiveDirs

\* A copy that is reported as done has what the source has: "File copied
\* successfully" (builtin_commands.c:650-657, interrupt.c:264-297, 372).
CopyIsComplete ==
  [][ \A s \in UserNames, t \in Names :
        Cp(s, t) /\ result' = 0 =>
          ContentOf(disk', ShellTarget(disk', current_inode, t))
            = ContentOf(disk, ShellTarget(disk, current_inode, s)) ]_vars

\* Deleting a file frees every block the file uses (interrupt.c:652-657).
DeletionFreesBlocks ==
  [][ \A i \in LiveFiles :
        i \notin disk'.imap => BlocksOf(disk, i) \cap disk'.bmap = {} ]_vars

\* A mkdir that is reported as done made a directory (interrupt.c:446-501, 577).
MkdirMakesDirectory ==
  [][ \A n \in Names :
        Mkdir(n) /\ result' = 0 =>
          IsDirectory(disk', ShellTarget(disk', current_inode, n)) ]_vars

\* The shell's search finds every entry of the current directory
\* (builtin_commands.c:151-258).
SearchFindsEntries ==
  \A n \in UserNames :
    Has(EntriesOf(disk, current_inode), n) => ShellSees(disk, current_inode, n)

\* A command changes one name of the current directory: every other file that
\* stays keeps its content, every other directory its entries, and the other
\* names of the current directory keep what they name (interrupt.c:127-887).
OthersUntouched ==
  [][ /\ \A i \in LiveFiles \cap disk'.imap : ContentOf(disk', i) = ContentOf(disk, i)
      /\ \A d \in (LiveDirs \ {current_inode}) \cap disk'.imap :
            EntriesOf(disk', d) = EntriesOf(disk, d)
      /\ disk' # disk =>
           \E n \in Names \cup {ShellName} :
             {e \in ChildrenOf(disk', current_inode) : e.name # n}
               = {e \in ChildrenOf(disk, current_inode) : e.name # n} ]_vars
=============================================================================
