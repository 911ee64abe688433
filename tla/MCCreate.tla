------------------------------ MODULE MCCreate ------------------------------
(***************************************************************************)
(* CreateArchive on small inputs: files of none, one, two and three        *)
(* chunks, and a name that sanitise_path refuses.                          *)
(***************************************************************************)
EXTENDS CreateArchive

MCFile(n, d) == [name |-> n, data |-> d, mode |-> "rw"]

MCInputs ==
  { << MCFile(<<"a">>, <<"x", "y", "x", "y", "z">>), MCFile(<<"b">>, <<"x">>) >>,
    << MCFile(<<"a">>, <<>>), MCFile(<<"d", "b">>, <<"x", "y", "z">>) >>,
    << MCFile(<<".", "a">>, <<"x">>), MCFile(<<"..", "b">>, <<"y">>) >> }

MCLzChunks == {<<"x", "y">>}
MCShort    == <<>>
=============================================================================
