---------------------------- MODULE CollectFiles ----------------------------
(***************************************************************************)
(* collect_files (main.rs): the archive names and the files that `axc c`   *)
(* finds below the paths it is given.                                      *)
(*                                                                         *)
(* A path is the sequence of its components.  A component is the tuple of  *)
(* the parts that backslashes divide it into, a single one for most.  A    *)
(* node is a file, a directory or something else (a socket, nothing at     *)
(* all); a directory maps the components below it to their nodes.  Links   *)
(* are followed, so a link is the node that it leads to.                   *)
(***************************************************************************)
EXTENDS AxcFormat, SequencesExt

CONSTANT Alphabet  \* the components in the order in which they sort

FileNode(data, mode) == [kind |-> "file", data |-> data, mode |-> mode]
DirNode(of)          == [kind |-> "dir", of |-> of]
NoNode               == [kind |-> "none"]

\* Path::parent: none of the root directory, the empty path of "a", "." and "..".
Parent(path) == IF path = << <<RootDir>> >> THEN <<>> ELSE Front(path)

\* Mutation: relative to root itself.
ArchiveNameBelow(root, current) ==
  FlattenSeq(SubSeq(current, Len(root) + 1, Len(current)))

\* The archive name: relative to the parent of root, with every backslash
\* replaced by a separator.
ArchiveName(root, current) ==
  FlattenSeq(SubSeq(current, Len(Parent(root)) + 1, Len(current)))

\* children.sort().
Children(node) == SelectSeq(Alphabet, LAMBDA c : c \in DOMAIN node.of)

\* What is neither a file nor a directory is passed over.
RECURSIVE CollectRecursive(_, _, _)
CollectRecursive(root, current, node) ==
  CASE node.kind = "file" ->
         << [name |-> ArchiveName(root, current),
             data |-> node.data, mode |-> node.mode] >>
    [] node.kind = "dir" ->
         FlattenSeq([i \in DOMAIN Children(node) |->
           CollectRecursive(root, Append(current, Children(node)[i]),
                            node.of[Children(node)[i]])])
    [] OTHER -> <<>>

\* The arguments in the order given: each a path and the node that is there.
CollectAll(args) ==
  FlattenSeq([i \in DOMAIN args |->
                CollectRecursive(args[i].path, args[i].path, args[i].node)])
=============================================================================
