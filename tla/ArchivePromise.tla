--------------------------- MODULE ArchivePromise ---------------------------
(***************************************************************************)
(* What an archive promises to the one who made it, with nothing said of   *)
(* chunks, indexes, checksums or threads: a set of files is given; whoever *)
(* asks for them gets some of them back, each as it was given, and hears   *)
(* "ok" only when all are back, except where something already stood in a  *)
(* file's place and was not to be replaced.                                *)
(***************************************************************************)
CONSTANT Files  \* [path, data, mode] records

VARIABLES
  given,     \* the files that were put into the archive
  asked,     \* somebody is being served
  occupied,  \* the paths that must be left alone
  back,      \* the files that were given back to the last one who asked
  answer     \* what that one was told

promiseVars == <<given, asked, occupied, back, answer>>

Init ==
  /\ given \subseteq Files
  /\ asked = FALSE
  /\ back = {}
  /\ answer = "none"

\* Somebody comes and asks, or leaves; which paths are occupied is up to them.
Ask ==
  /\ ~asked
  /\ asked' = TRUE /\ back' = {} /\ answer' = "none"
  /\ UNCHANGED given

Leave ==
  /\ ~asked
  /\ asked' = FALSE /\ back' = {} /\ answer' = "none"
  /\ UNCHANGED given

GiveBack ==
  /\ asked
  /\ \E f \in given : f.path \notin occupied /\ back' = back \cup {f}
  /\ UNCHANGED <<given, asked, occupied, answer>>

Restored == \A f \in given : f \in back \/ f.path \in occupied

Answer ==
  /\ asked
  /\ asked' = FALSE
  /\ \/ answer' = "ok" /\ Restored
     \/ answer' = "error"
  /\ UNCHANGED <<given, occupied, back>>

Next == Ask \/ Leave \/ GiveBack \/ Answer

Spec == Init /\ [][Next]_promiseVars
=============================================================================
