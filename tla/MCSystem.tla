------------------------------ MODULE MCSystem ------------------------------
(***************************************************************************)
(* AxcSystem on small archives.                                            *)
(***************************************************************************)
EXTENDS AxcSystem, CollectFiles

CONSTANT CreateArgs  \* the argument lists that `axc c` may be given

Name(c)      == <<c>>
BackslashBC  == <<"b", "c">>  \* the Unix file name b\c
MCAlphabet   == << Name("a"), Name("b"), BackslashBC, Name("c"), Name("s") >>

Arg(path, node) == [path |-> path, node |-> node]

Dir(names, node(_)) == DirNode([c \in names |-> node(c)])

\* Of the LZ chunks one does not come back whole; one raw chunk has a bad table.
MCLzChunks == {<<"x", "y">>, <<"o", "o">>}
MCShort    == [chunk \in {<<"o", "o">>} |-> <<"o">>]
MCPanic    == {<<"z", "z">>}

\* `axc c out.axc a p/d`: three chunks, and one below a directory.
MCFirstArgs ==
  << Arg(<<Name("a")>>, FileNode(<<"x", "y", "x", "y", "z">>, "ro")),
     Arg(<<Name("p"), Name("d")>>,
         Dir({Name("b"), Name("s")},
             LAMBDA c : IF c = Name("b") THEN FileNode(<<"x">>, "rw") ELSE NoNode)) >>

\* `axc c out.axc d gone .`: an empty file, nothing at all, and two chunks.  The
\* empty file has a backslash in its name.
MCSecondArgs ==
  << Arg(<<Name("d")>>, Dir({BackslashBC}, LAMBDA c : FileNode(<<>>, "rw"))),
     Arg(<<Name("gone")>>, NoNode),
     Arg(<<Name(CurDir)>>, Dir({Name("a")}, LAMBDA c : FileNode(<<"x", "y", "z">>, "rw"))) >>

\* `axc c out.axc a`: six chunks, so that a worker's deque holds two ranges.
MCLongArgs ==
  << Arg(<<Name("a")>>,
         FileNode(<<"x", "y", "z", "x", "z", "y", "y", "x", "z", "o", "x">>, "rw")) >>

\* `axc c out.axc a b`: a chunk that comes back short, and one whose decoding
\* panics.
MCSpoiltArgs ==
  << Arg(<<Name("a")>>, FileNode(<<"x", "o", "o", "o">>, "rw")),
     Arg(<<Name("b")>>, FileNode(<<"z", "z", "x">>, "rw")) >>

MCArgs   == {MCFirstArgs, MCSecondArgs}
MCAllArgs == MCArgs \cup {MCLongArgs, MCSpoiltArgs}
MCInputs == {CollectAll(args) : args \in CreateArgs}

\* One file of three chunks: enough for ids 0, 2, 1, which the reader follows
\* without missing any.
MCThreeChunks ==
  { << Arg(<<Name("a")>>, FileNode(<<"x", "y", "x", "z", "y">>, "rw")) >> }

\* Two files, of three chunks and of two: the ids of one may lead to the other.
MCTwoFiles ==
  { << Arg(<<Name("a")>>, FileNode(<<"x", "y", "x", "z", "y">>, "rw")),
       Arg(<<Name("b")>>, FileNode(<<"z", "x", "o">>, "rw")) >> }

\* `axc c out.axc p/a q/a`: both are archived under the name "a".
MCSameName ==
  { << Arg(<<Name("p"), Name("a")>>, FileNode(<<"x">>, "rw")),
       Arg(<<Name("q"), Name("a")>>, FileNode(<<"y">>, "rw")) >> }

Place(f, d) == [fs |-> f, dirs |-> d]
OldFile(path, mode) == [p \in {path} |-> [data |-> <<"o">>, mode |-> mode]]

MCEmpty == { Place(<<>>, {}) }

\* Nothing; an old file, a read-only one or a directory where "a" goes; a file
\* where the directory "d" goes.
MCPlaces ==
  { Place(<<>>, {}),
    Place(OldFile(<<"a">>, "rw"), {}),
    Place(OldFile(<<"a">>, "ro"), {}),
    Place(OldFile(<<"d", "x">>, "rw"), {<<"d">>, <<"a">>}),
    Place(OldFile(<<"d">>, "rw"), {}) }
-----------------------------------------------------------------------------
\* The files at and below a node, by their paths relative to it.
RECURSIVE Below(_)
Below(node) ==
  CASE node.kind = "file" -> {[rel |-> <<>>, data |-> node.data]}
    [] node.kind = "dir" ->
         UNION { {[rel |-> <<c>> \o f.rel, data |-> f.data] : f \in Below(node.of[c])} :
                   c \in DOMAIN node.of }
    [] OTHER -> {}

\* "Multiple files and directories (recursive)" (README.md:108): an extraction
\* into an empty directory that ends well brings every file below every argument
\* back, at its path below the last component of that argument; a backslash in
\* the name of a file is a separator in that path.
TreesComeBack ==
  cmd = "x" /\ res = "ok" /\ before = Place(<<>>, {}) =>
    \E args \in CreateArgs :
      /\ CollectAll(args) = files
      /\ \A i \in DOMAIN args : \A f \in Below(args[i].node) :
           LET path == SanitisePath(FlattenSeq(<<Last(args[i].path)>> \o f.rel))
           IN path \in DOMAIN fs /\ fs[path].data = f.data
=============================================================================
