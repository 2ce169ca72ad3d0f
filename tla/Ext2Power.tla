------------------------------ MODULE Ext2Power ------------------------------
(***************************************************************************)
(* The file system of Ext2 when the power may go off inside a call.  Each    *)
(* call is the sequence of its writes to the disk, in the order of           *)
(* interrupt.c and ext2.c; a write of one block is done or not done.  After   *)
(* that the machine boots from the image it left (make quick).              *)
(*                                                                         *)
(* The file system has no journal and no check at boot.  A removal that was  *)
(* cut short leaves its name with what it named given back, so the user is   *)
(* taken to repeat it before making anything: Careful.                      *)
(***************************************************************************)
EXTENDS Ext2Tree

CONSTANT MaxCuts  \* bound on the number of power losses

ASSUME MaxCutsAssumption == MaxCuts \in Nat

VARIABLES
  running,  \* the boot found a shell
  cuts,     \* power losses so far
  torn      \* names whose removal was cut short, as pairs of a directory and a name

power     == <<running, cuts, torn>>
powerVars == <<vars, power>>

-----------------------------------------------------------------------------
(***************************************************************************)
(* Writes of one block: a bit of a bitmap, the content of a block, an inode  *)
(* record.                                                                 *)
(***************************************************************************)
InodeBit(i, used)    == [part |-> "imap", at |-> i, value |-> used]
BlockBit(b, used)    == [part |-> "bmap", at |-> b, value |-> used]
Filled(b, content)   == [part |-> "blk",  at |-> b, value |-> content]
Record(i, nd)        == [part |-> "node", at |-> i, value |-> nd]

WithBit(bits, w) == IF w.value THEN bits \cup {w.at} ELSE bits \ {w.at}

Written(fs, w) ==
  CASE w.part = "imap" -> [fs EXCEPT !.imap = WithBit(@, w)]
    [] w.part = "bmap" -> [fs EXCEPT !.bmap = WithBit(@, w)]
    [] w.part = "blk"  -> [fs EXCEPT !.blk[w.at] = w.value]
    [] w.part = "node" -> [fs EXCEPT !.node[w.at] = w.value]

\* The image after the first k of the writes ws.
ImageAfter(fs, ws, k) ==
  LET After[j \in 0 .. Len(ws)] == IF j = 0 THEN fs ELSE Written(After[j - 1], ws[j])
  IN  After[k]

\* sync_node writes the inode table block by block, and a record may lie across
\* two of them: its pointers are the second part.
NodeWrites(fs, i, nd) ==
  LET new == StoredPart(i, nd)
  IN  <<Record(i, [new EXCEPT !.ptr = fs.node[i].ptr, !.ind = fs.node[i].ind]),
        Record(i, new)>>

EntryWrite(fs, d, n, i, t) ==
  Filled(DirBlock(fs, d), AddEntry(EntriesOf(fs, d), n, i, t))

\* Mutated order for the checks: the parent's entry is written first.
EntryBeforeNode(fs, d, n) ==
  LET i == allocate_node(fs)
      b == NthFree(fs, 0)
  IN  IF create_directory_code(fs, d, n) # 0 THEN <<>>
      ELSE <<InodeBit(i, TRUE), BlockBit(b, TRUE), EntryWrite(fs, d, n, i, "dir"),
             Filled(b, DirectoryTable(i, d))>> \o NodeWrites(fs, i, DirNode(b))

create_directory_writes(fs, d, n) ==
  LET code == create_directory_code(fs, d, n)
      i    == allocate_node(fs)
      b    == NthFree(fs, 0)
      made == <<InodeBit(i, TRUE), BlockBit(b, TRUE), Filled(b, DirectoryTable(i, d))>>
              \o NodeWrites(fs, i, DirNode(b))
  IN  CASE code = 0  -> Append(made, EntryWrite(fs, d, n, i, "dir"))
        [] code = -6 -> made \o <<InodeBit(i, FALSE), BlockBit(b, FALSE)>>
        [] code = -5 -> <<InodeBit(i, TRUE), InodeBit(i, FALSE)>>
        [] OTHER     -> <<>>

\* The numbers of S, the least one first.
InOrder(S) ==
  [j \in 1 .. Cardinality(S) |-> CHOOSE k \in S : Cardinality({l \in S : l < k}) = j - 1]

\* The blocks of a copy, in the order in which copy_file takes and fills them.
Targets(fs, nd) ==
  LET placed == InOrder(PlacedBlocks(fs, nd))
  IN  [j \in DOMAIN placed |-> [from |-> nd.ptr[placed[j]],
                                to   |-> CopyTarget(fs, nd, placed[j])]]

\* A block is marked, then filled.
DataWrites(fs, nd) ==
  LET cs == Targets(fs, nd)
  IN  [m \in 1 .. 2 * Len(cs) |->
         LET c == cs[(m + 1) \div 2]
         IN  IF m % 2 = 1 THEN BlockBit(c.to, TRUE) ELSE Filled(c.to, fs.blk[c.from])]

\* Mutated cleaning up for the checks: the blocks stay marked.
InodeBack(fs, nd) == <<InodeBit(allocate_node(fs), FALSE)>>

\* Cleaning up: the inode, then the blocks.
BitsBack(fs, nd) ==
  <<InodeBit(allocate_node(fs), FALSE)>> \o
  [j \in DOMAIN Targets(fs, nd) |-> BlockBit(Targets(fs, nd)[j].to, FALSE)]

Source(fs, d, s) == fs.node[EntriesOf(fs, d)[IndexOf(EntriesOf(fs, d), s)].inode]

\* Mutated order for the checks: the data follows the entry.
DataLast(fs, d, s, t) ==
  LET nd == Source(fs, d, s)
      i  == allocate_node(fs)
  IN  IF copy_file_code(fs, d, s, t) # 0 THEN <<>>
      ELSE <<InodeBit(i, TRUE)>> \o NodeWrites(fs, i, CopyNode(fs, nd))
           \o <<EntryWrite(fs, d, t, i, "reg")>> \o DataWrites(fs, nd)

copy_file_writes(fs, d, s, t) ==
  LET code   == copy_file_code(fs, d, s, t)
      nd     == Source(fs, d, s)
      i      == allocate_node(fs)
      copied == <<InodeBit(i, TRUE)>> \o DataWrites(fs, nd)
      synced == copied \o NodeWrites(fs, i, CopyNode(fs, nd))
  IN  CASE code = 0  -> Append(synced, EntryWrite(fs, d, t, i, "reg"))
        [] code = -5 -> copied \o BitsBack(fs, nd)
        [] code = -8 -> synced \o BitsBack(fs, nd)
        [] OTHER     -> <<>>

\* The code that rm gets, by what the inode of the name says it is.
rm_code(fs, d, n) ==
  IF IsDirectory(fs, ShellTarget(fs, d, n))
  THEN delete_directory_code(fs, d, n) ELSE delete_file_code(fs, d, n)

DeletionWrites(fs, d, n) ==
  LET i  == ShellTarget(fs, d, n)
      nd == fs.node[i]
      ks == InOrder({k \in Direct : k < nd.blocks /\ nd.ptr[k] # NoBlock})
  IN  [j \in DOMAIN ks |-> BlockBit(nd.ptr[ks[j]], FALSE)] \o
      <<InodeBit(i, FALSE),
        Filled(DirBlock(fs, d), RemoveEntry(EntriesOf(fs, d), n))>>

\* Mutated removal for the checks: the record is cleared first.
RecordCleared(fs, d, n) ==
  IF ~ ShellSees(fs, d, n) \/ rm_code(fs, d, n) # 0 THEN <<>>
  ELSE <<Record(ShellTarget(fs, d, n), ZeroNode)>> \o DeletionWrites(fs, d, n)

rm_writes(fs, d, n) ==
  IF ~ ShellSees(fs, d, n) \/ rm_code(fs, d, n) # 0 THEN <<>>
  ELSE DeletionWrites(fs, d, n)

-----------------------------------------------------------------------------
PowerInit ==
  /\ Init
  /\ running = TRUE
  /\ cuts = 0
  /\ torn = {}

Careful == torn = {}

\* A call that is not cut short, as in Ext2; cat is left out, it writes nothing.
Complete ==
  /\ running
  /\ \/ CdUp
     \/ \E n \in Names : Cd(n)
     \/ Careful /\ \E n \in Names : Mkdir(n)
     \/ Careful /\ \E s \in UserNames, t \in Names : Cp(s, t) \/ MvCopy(s, t)
     \/ \E n \in UserNames : pending \in {NoName, n} /\ RmCommand(n)
  /\ torn' = {t \in torn : Has(EntriesOf(disk', t[1]), t[2])}
  /\ UNCHANGED <<running, cuts>>

\* The power goes off,
Loss ==
  /\ cuts < MaxCuts
  /\ cuts' = cuts + 1

\* and comes back: memory is lost, the shell starts in the root.
Reboot ==
  /\ running' = Has(EntriesOf(disk', Root), ShellName)
  /\ current_inode' = Root
  /\ current_working_directory' = <<>>
  /\ pending' = NoName
  /\ result' = 0
  /\ buf' = NotRead

\* It goes off between two calls,
PowerOff ==
  /\ Loss
  /\ UNCHANGED <<disk, torn>>
  /\ Reboot

\* or inside one, after some of its writes.
CutShort(ws) == \E k \in 1 .. Len(ws) - 1 : disk' = ImageAfter(disk, ws, k)

PowerOffInMkdir(n) ==
  /\ running /\ Careful /\ pending = NoName
  /\ Loss
  /\ CutShort(create_directory_writes(disk, current_inode, n))
  /\ Reboot
  /\ UNCHANGED torn

PowerOffInCopy(s, t) ==
  /\ running /\ Careful /\ pending = NoName
  /\ Loss
  /\ CutShort(copy_file_writes(disk, current_inode, s, t))
  /\ Reboot
  /\ UNCHANGED torn

PowerOffInRm(n) ==
  /\ running /\ pending \in {NoName, n}
  /\ Loss
  /\ CutShort(rm_writes(disk, current_inode, n))
  /\ Reboot
  /\ torn' = torn \cup {<<current_inode, n>>}

PowerNext ==
  \/ Complete
  \/ PowerOff
  \/ \E n \in Names : PowerOffInMkdir(n)
  \/ \E s \in UserNames, t \in Names : PowerOffInCopy(s, t)
  \/ \E n \in UserNames : PowerOffInRm(n)

PowerSpec == PowerInit /\ [][PowerNext]_powerVars

-----------------------------------------------------------------------------
\* All the writes of a call, done in their order, make the image that the call
\* makes in Ext2, failures and their cleaning up included (interrupt.c:252-372,
\* 447-577, 648-714).
WritesMakeTheCall ==
  LET d == current_inode
      All(ws) == ImageAfter(disk, ws, Len(ws))
  IN  running /\ Careful =>
        /\ \A n \in Names :
             All(create_directory_writes(disk, d, n)) = create_directory(disk, d, n)
        /\ \A s \in UserNames, t \in Names :
             Has(EntriesOf(disk, d), s) =>
               All(copy_file_writes(disk, d, s, t)) = copy_file(disk, d, s, t)
        /\ \A n \in UserNames :
             rm_writes(disk, d, n) # <<>> =>
               All(rm_writes(disk, d, n)) = EntryDeleted(disk, d, n)

NamedInodes == {l.inode : l \in Located}
TornInodes  == {ShellTarget(disk, t[1], t[2]) : t \in torn}

\* However often the power goes off, every name leads to an inode of its own, the
\* blocks of two names are different ones, and the inode and the blocks of a name
\* are marked as used unless its removal was cut short (interrupt.c:252-372,
\* 447-577, 648-714).
NamesSurvivePower ==
  LET located == Located
      named   == {l.inode : l \in located}
  IN  /\ \A l, m \in located : l.inode = m.inode => l = m
      /\ \A i \in named \ TornInodes :
           i \in disk.imap /\ BlocksOf(disk, i) \subseteq disk.bmap
      /\ \A i, j \in named :
           i # j => BlocksOf(disk, i) \cap BlocksOf(disk, j) = {}

\* One power loss loses at most one inode and the direct blocks of one file
\* (interrupt.c:252-300, 447-501).
LossBounded ==
  LET named == NamedInodes
  IN  /\ Cardinality(disk.imap \ named) <= cuts
      /\ Cardinality(disk.bmap \ UNION {BlocksOf(disk, i) : i \in named}) <= DIRECT * cuts

\* A removal that was cut short succeeds when it is made again: the record and
\* the directory's block still say what they said (interrupt.c:643-657, 784-824).
RemovalCanBeRepeated ==
  \A t \in torn : rm_code(disk, t[1], t[2]) = 0
=============================================================================
