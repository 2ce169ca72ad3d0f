------------------------------ MODULE FileTree ------------------------------
(***************************************************************************)
(* What the shell's file commands promise: a tree of folders and files, a   *)
(* place in it, and commands that change one name at that place or none.    *)
(* There are no inodes, blocks or directory records here.                    *)
(*                                                                         *)
(* A copy keeps the first DIRECT pieces of a file; the rest reads as zeros.  *)
(***************************************************************************)
EXTENDS Integers, FiniteSets, SequencesExt

CONSTANTS
  FileNames,  \* the names that occur
  DIRECT,     \* pieces of a file that a copy keeps
  Sizes       \* the sizes of the buffers that files are read into

VARIABLES
  tree,   \* the set of nodes, each with its path (a sequence of names)
  where,  \* the path of the current folder
  shown   \* what the last command read from a file

vars == <<tree, where, shown>>

Zero    == <<>>
Nothing == <<>>

Folder(p)  == [path |-> p, mode |-> "dir", content |-> Zero]
Paths(t)   == {x.path : x \in t}
FilesIn(t, w) == {x \in t : x.mode = "reg" /\ Front(x.path) = w}
NewIn(t, w)   == {Append(w, n) : n \in FileNames} \ Paths(t)

CopyTo(p, file) ==
  [file EXCEPT !.path = p,
               !.content = [k \in DOMAIN @ |-> IF k < DIRECT THEN @[k] ELSE Zero]]

\* What a buffer of some size can show of the files in folder w.
Readable(t, w, size) ==
  {c \in {f.content : f \in FilesIn(t, w)} : Cardinality(DOMAIN c) <= size}

\* A fresh image: one file in the root.
Init ==
  /\ \E n \in FileNames : Paths(tree) = {<<>>, <<n>>}
  /\ Folder(<<>>) \in tree
  /\ Cardinality(tree) = 2 /\ FilesIn(tree, <<>>) # {}
  /\ where = <<>>
  /\ shown = Nothing

\* A command may always be refused, and then nothing is changed or shown.
Refuse ==
  /\ shown' = Nothing
  /\ UNCHANGED <<where, tree>>

Enter ==
  /\ shown' = Nothing
  /\ \E n \in FileNames : where' = Append(where, n)
  /\ Folder(where') \in tree
  /\ UNCHANGED tree

BackToRoot ==
  /\ shown' = Nothing
  /\ where' = <<>>
  /\ UNCHANGED tree

MakeFolder ==
  /\ shown' = Nothing
  /\ UNCHANGED where
  /\ \E p \in NewIn(tree, where) : tree' = tree \cup {Folder(p)}

Copy ==
  /\ shown' = Nothing
  /\ UNCHANGED where
  /\ \E p \in NewIn(tree, where), file \in FilesIn(tree, where) :
       tree' = tree \cup {CopyTo(p, file)}

\* A folder goes only when it is empty.
Delete ==
  /\ shown' = Nothing
  /\ UNCHANGED where
  /\ \E x \in {y \in tree : y.path # <<>> /\ Front(y.path) = where} :
       /\ tree' = tree \ {x}
       /\ \A z \in tree' : z.path # <<>> => Front(z.path) # x.path

\* A file is shown whole, and only by a buffer that holds it.
Read ==
  /\ UNCHANGED <<where, tree>>
  /\ \E size \in Sizes : shown' \in Readable(tree, where, size)

Next == Refuse \/ Enter \/ BackToRoot \/ MakeFolder \/ Copy \/ Delete \/ Read

Spec == Init /\ [][Next]_vars
=============================================================================
