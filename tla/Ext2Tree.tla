------------------------------ MODULE Ext2Tree ------------------------------
(***************************************************************************)
(* The tree of names that the image of Ext2 stands for, and the promise of   *)
(* the file commands about it.                                             *)
(***************************************************************************)
EXTENDS Ext2

\* A path, and the inode that it leads to.
Place == [path : Seq(UserNames), inode : Inodes]

\* Where the names in place l lead to.
PlacesIn(l) ==
  IF IsDirectory(disk, l.inode)
  THEN {[path |-> Append(l.path, e.name), inode |-> e.inode] : e \in ChildrenOf(disk, l.inode)}
  ELSE {}

\* The inodes that names lead to, each with its path.  A path of more than k names
\* would come to some inode twice.
Located ==
  LET Below[k \in 0 .. INODES_PER_GROUP] ==
        [l \in Place |->
           {l} \cup IF k = 0 THEN {} ELSE UNION {Below[k - 1][m] : m \in PlacesIn(l)}]
  IN  Below[INODES_PER_GROUP][[path |-> <<>>, inode |-> Root]]

NodeAt(p, i) ==
  [path    |-> p,
   mode    |-> disk.node[i].mode,
   content |-> IF IsDirectory(disk, i) THEN Zero ELSE ContentOf(disk, i)]

Tree == {NodeAt(l.path, l.inode) : l \in Located}

FT == INSTANCE FileTree WITH
        tree <- Tree, where <- current_working_directory, shown <- buf,
        FileNames <- UserNames, Sizes <- BufferSizes

\* The commands change the tree of names as a user expects: each of them changes
\* one name in the directory that the shell shows, or nothing, whichever inodes
\* and blocks are given out again underneath, and a read shows the whole file of
\* that name (builtin_commands.c:281-423, 424-470, 595-809, interrupt.c:127-887).
ImplementsFileTree == FT!Spec

\* find, in whatever row of the screen it begins: what it prints is there, under the
\* name it looked for; when it does not refuse for want of rows, it prints a path or says
\* that there is none; and then, when every name stands before the first record that is
\* too long for it, it finds whatever lies within the depth it descends to and not below
\* inode 1 (builtin_commands.c:844-1085).
FindIsRight ==
  LET located == Located
      Reached(p) ==
        /\ Len(p) <= FIND_DEPTH + 1
        /\ \A l \in located : l.inode = 1 => ~ IsStrictPrefix(l.path, p)
      regular == \A l \in located : IsDirectory(disk, l.inode) =>
                   LET es == EntriesOf(disk, l.inode)
                   IN  \A j \in DOMAIN es : es[j].name \notin {Dot, DotDot} =>
                         \A k \in 1 .. j : RecLen(es, k) <= BLOCK_SIZE - 12
  IN  \A n \in UserNames, row \in OutputRows :
        LET answer == handle_find(disk, n, row)
            there  == {p \in {l.path : l \in located} : p # <<>> /\ Last(p) = n}
        IN  /\ answer.says = "found" => answer.path \in there
            /\ row < FIND_ROWS =>
                 /\ answer.says \in {"found", "not found"}
                 /\ regular => (answer.says = "found" <=> \E p \in there : Reached(p))
=============================================================================
