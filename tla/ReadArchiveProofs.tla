-------------------------- MODULE ReadArchiveProofs --------------------------
(***************************************************************************)
(* Proofs about the reader in AxcSystem: what an extraction leaves behind  *)
(* when it stops at an error of its own, and what it may not touch.        *)
(***************************************************************************)
EXTENDS AxcSystem, CreateStreamProofs

-----------------------------------------------------------------------------
(* The inductive invariants. *)

\* A file of the output directory that is finished, or as it was.
Kept(p)  == p \in DOMAIN before.fs /\ fs[p] = before.fs[p]
Untorn(p) == p \in Finished \/ Kept(p)

\* Between the creation of a file and its entry in the result only this one may
\* be half written; after an error that the code detects none is, as it is found
\* before the file is created.
TornInv ==
  /\ \E S : extracted \in Seq(S)
  /\ rpc \in {"idle", "open", "scan", "entry", "chunks", "write", "mode"}
  /\ phase = "create" => rpc = "idle"
  /\ rpc # "idle" => res = "none"
  /\ rpc \notin {"idle", "write", "mode"} \/ StoppedItself =>
       \A p \in DOMAIN fs : Untorn(p)
  /\ rpc \in {"write", "mode"} => \A p \in DOMAIN fs : p = Dest \/ Untorn(p)

\* Without -f: what was there is still there, and the file in hand is another.
KeepsFiles == ~overwrite => \A p \in DOMAIN before.fs : p \in DOMAIN fs /\ Kept(p)

KeepInv ==
  /\ phase = "create" => rpc = "idle"
  /\ KeepsFiles
  /\ ~overwrite /\ rpc \in {"chunks", "write", "mode"} => Dest \notin DOMAIN before.fs

-----------------------------------------------------------------------------
(* The steps, sorted by what they do to the output directory. *)

\* Steps before a file is created, and the ends of a command.  They leave every
\* file as it is.
Quiet ==
  \/ OpenRefused \/ OpenList \/ OpenExtract \/ OpenTest \/ ScanRecord \/ ScanEnd
  \/ TestRecord \/ TestEnd \/ RefuseEntry \/ SkipEntry \/ StartEntry \/ ReadChunk
  \/ EndExtract \/ IoError

LEMMA QuietStep ==
  ASSUME Quiet
  PROVE  /\ rpc \in {"open", "scan", "entry", "chunks"}
         /\ UNCHANGED <<fs, extracted, before, overwrite, img>>
         /\ \/ rpc' = "idle"
            \/ rpc' \in {"scan", "entry", "chunks"} /\ res' = res
<1> USE DEF outdir, options, locals, results, Finish, Continue, ResetLocals
<1>1. CASE OpenRefused \/ OpenList \/ OpenExtract \/ OpenTest
  BY <1>1 DEF OpenRefused, OpenList, OpenExtract, OpenTest, StartScan
<1>2. CASE ScanRecord \/ ScanEnd
  BY <1>2 DEF ScanRecord, ScanEnd
<1>3. CASE TestRecord
  BY <1>3 DEF TestRecord
<1>4. CASE TestEnd \/ EndExtract \/ IoError
  BY <1>4 DEF TestEnd, EndExtract, IoError
<1>5. CASE RefuseEntry
  BY <1>5 DEF RefuseEntry
<1>6. CASE SkipEntry
  BY <1>6 DEF SkipEntry, EntryReady
<1>7. CASE StartEntry
  BY <1>7 DEF StartEntry, EntryReady
<1>8. CASE ReadChunk
  BY <1>8 DEF ReadChunk
<1> QED
  BY <1>1, <1>2, <1>3, <1>4, <1>5, <1>6, <1>7, <1>8 DEF Quiet

\* From CreateFile on it is the file in hand that changes, and no other.
LEMMA SetFileStep ==
  ASSUME NEW path, NEW data, NEW mode, SetFile(path, data, mode)
  PROVE  /\ DOMAIN fs' = DOMAIN fs \cup {path}
         /\ \A p \in DOMAIN fs : p # path => fs'[p] = fs[p]
BY DEF SetFile

LEMMA FileStep ==
  ASSUME CreateFile \/ WriteFile \/ SetMode \/ Die
  PROVE  /\ UNCHANGED <<before, overwrite, img>>
         /\ \/ UNCHANGED fs
            \/ /\ rpc \in {"chunks", "write", "mode"}
               /\ DOMAIN fs' = DOMAIN fs \cup {Dest}
               /\ \A p \in DOMAIN fs : p # Dest => fs'[p] = fs[p]
<1> USE SetFileStep DEF outdir, options, locals, results, Finish, Continue
<1>1. CASE CreateFile
  BY <1>1 DEF CreateFile
<1>2. CASE WriteFile
  BY <1>2 DEF WriteFile, TornWrite
<1>3. CASE SetMode
  BY <1>3 DEF SetMode
<1>4. CASE Die
  BY <1>4 DEF Die, TornWrite
<1> QED
  BY <1>1, <1>2, <1>3, <1>4

LEMMA ReaderSteps == ReadStep \/ IoError \/ Die => Quiet \/ CreateFile \/ WriteFile \/ SetMode \/ Die
BY DEF ReadStep, Quiet

-----------------------------------------------------------------------------
(* No file is torn. *)

LEMMA TornRead ==
  ASSUME TornInv, ReadStep \/ IoError \/ Die, UNCHANGED phase, phase = "use"
  PROVE  TornInv'
<1>1. CASE Quiet
  <2>1. /\ rpc \in {"open", "scan", "entry", "chunks"}
        /\ UNCHANGED <<fs, extracted, before, overwrite, img>>
        /\ rpc' = "idle" \/ (rpc' \in {"scan", "entry", "chunks"} /\ res' = res)
    BY <1>1, QuietStep
  <2>2. \A p \in DOMAIN fs : Untorn(p)
    BY <2>1 DEF TornInv
  <2>3. \A p \in DOMAIN fs' : Untorn(p)'
    BY <2>1, <2>2 DEF Untorn, Kept, Finished
  <2> QED
    BY <2>1, <2>3 DEF TornInv
<1>2. CASE CreateFile
  <2>1. /\ rpc = "chunks" /\ UNCHANGED <<extracted, before, img>>
        /\ \/ rpc' = "write" /\ res' = res /\ ent' = ent
           \/ rpc' = "idle" /\ fs' = fs
    BY <1>2 DEF CreateFile, Finish, Continue, results, locals
  <2>2. \A p \in DOMAIN fs : Untorn(p)
    BY <2>1 DEF TornInv
  <2>3. \A p \in DOMAIN fs' : p = Dest \/ Untorn(p)'
    BY <2>1, <2>2, <1>2, FileStep DEF Untorn, Kept, Finished
  <2>4. rpc' = "write" => Dest' = Dest
    BY <2>1 DEF Dest, Entry, Entries
  <2>5. rpc' = "idle" => \A p \in DOMAIN fs' : Untorn(p)'
    BY <2>1, <2>2 DEF Untorn, Kept, Finished
  <2> QED
    BY <2>1, <2>3, <2>4, <2>5 DEF TornInv, StoppedItself
<1>3. CASE WriteFile
  <2>1. /\ rpc = "write" /\ UNCHANGED <<extracted, before, img>>
        /\ \/ rpc' = "mode" /\ res' = res /\ ent' = ent
           \/ rpc' = "idle" /\ res' = "Io"
    BY <1>3 DEF WriteFile, Finish, Continue, results, locals
  <2>2. \A p \in DOMAIN fs : p = Dest \/ Untorn(p)
    BY <2>1 DEF TornInv
  <2>3. \A p \in DOMAIN fs' : p = Dest \/ Untorn(p)'
    BY <2>1, <2>2, <1>3, FileStep DEF Untorn, Kept, Finished
  <2>4. rpc' = "mode" => Dest' = Dest
    BY <2>1 DEF Dest, Entry, Entries
  <2> QED
    BY <2>1, <2>3, <2>4 DEF TornInv, StoppedItself
<1>4. CASE SetMode
  <2>1. /\ rpc = "mode" /\ rpc' = "entry" /\ res' = res /\ UNCHANGED <<before, img>>
        /\ extracted' = Append(extracted, Dest)
    BY <1>4 DEF SetMode, Continue
  <2>2. PICK S : extracted \in Seq(S)
    BY DEF TornInv
  <2>3. extracted' \in Seq(S \cup {Dest}) /\ Range(extracted') = Range(extracted) \cup {Dest}
    <3>1. extracted \in Seq(S \cup {Dest})
      BY <2>2
    <3>2. /\ extracted' \in Seq(S \cup {Dest}) /\ Len(extracted') = Len(extracted) + 1
          /\ \A i \in 1 .. Len(extracted) : extracted'[i] = extracted[i]
          /\ extracted'[Len(extracted) + 1] = Dest
      BY <3>1, <2>1
    <3>3. DOMAIN extracted = 1 .. Len(extracted) /\ Len(extracted) \in Nat
          /\ DOMAIN extracted' = 1 .. Len(extracted) + 1
      BY <3>1, <3>2
    <3> QED
      BY <3>2, <3>3 DEF Range
  <2>4. \A p \in DOMAIN fs : p = Dest \/ Untorn(p)
    BY <2>1 DEF TornInv
  <2>5. \A p \in DOMAIN fs' : Untorn(p)'
    BY <2>1, <2>3, <2>4, <1>4, FileStep DEF Untorn, Kept, Finished
  <2> QED
    BY <2>1, <2>3, <2>5 DEF TornInv
<1>5. CASE Die
  BY <1>5 DEF Die, Finish, results, TornInv, StoppedItself
<1> QED
  BY <1>1, <1>2, <1>3, <1>4, <1>5, ReaderSteps

LEMMA TornStart ==
  ASSUME TornInv, Command, UNCHANGED phase, phase = "use"
  PROVE  TornInv'
<1> SUFFICES ASSUME NEW c, NEW o, NEW l, Start(c, o, l)
             PROVE  TornInv'
  BY DEF Command, ExtractCommand, ListCommand, TestCommand
<1>1. /\ rpc' = "open" /\ res' = "none" /\ extracted' = <<>>
      /\ before' = [fs |-> fs, dirs |-> dirs] /\ fs' = fs
  BY DEF Start, outdir
<1>2. \A p \in DOMAIN fs' : Untorn(p)'
  BY <1>1 DEF Untorn, Kept
<1>3. extracted' \in Seq({})
  BY <1>1
<1> QED
  BY <1>1, <1>2, <1>3 DEF TornInv

LEMMA ReaderWaits ==
  ASSUME TornInv, UNCHANGED <<readerVars>>, phase' \in {phase, "use"},
         img' = img \/ rpc = "idle"
  PROVE  TornInv'
<1>1. UNCHANGED <<fs, rpc, res, extracted, before, ent>>
  BY DEF readerVars, outdir, locals, results
<1>2. rpc # "idle" => Dest' = Dest
  BY <1>1 DEF Dest, Entry, Entries
<1> QED
  BY <1>1, <1>2 DEF TornInv, Untorn, Kept, Finished, StoppedItself

LEMMA TornInit == SystemInit => TornInv
<1> SUFFICES ASSUME SystemInit PROVE TornInv
  OBVIOUS
<1>1. rpc = "idle" /\ res = "none" /\ extracted = <<>>
  BY DEF SystemInit, ReadInit
<1>2. extracted \in Seq({})
  BY <1>1
<1> QED
  BY <1>1, <1>2 DEF TornInv, StoppedItself

LEMMA TornStep == TornInv /\ [SystemNext]_systemVars => TornInv'
<1> SUFFICES ASSUME TornInv, [SystemNext]_systemVars PROVE TornInv'
  OBVIOUS
<1>1. CASE CreateStep \/ CreateKill
  BY <1>1, ReaderWaits DEF CreateStep, CreateKill
<1>2. CASE Exit
  BY <1>2, ReaderWaits DEF Exit, TornInv
<1>3. CASE Damage
  BY <1>3, ReaderWaits DEF Damage
<1>4. CASE UseStart
  BY <1>4, TornStart DEF UseStart, Using
<1>5. CASE UseStep \/ UseFault
  BY <1>5, TornRead DEF UseStep, UseFault, Using
<1>6. CASE UNCHANGED systemVars
  BY <1>6, ReaderWaits DEF systemVars
<1> QED
  BY <1>1, <1>2, <1>3, <1>4, <1>5, <1>6 DEF SystemNext

\* When `axc x` stops at an error that it detects, every file of the output
\* directory is finished or as it was: the chunks of a file are read and checked
\* before it is created (archive.rs:336-384), whatever was damaged.
THEOREM NothingTorn == SystemSpec => []NoTornFile
<1>1. TornInv => NoTornFile
  BY DEF TornInv, NoTornFile, Untorn, Kept
<1> QED
  BY TornInit, TornStep, <1>1, PTL DEF SystemSpec

-----------------------------------------------------------------------------
(* Without -f nothing is touched. *)

LEMMA KeepRead ==
  ASSUME KeepInv, ReadStep \/ IoError \/ Die, UNCHANGED phase, phase = "use"
  PROVE  KeepInv'
<1>1. CASE Quiet
  <2>1. /\ UNCHANGED <<fs, before, overwrite, img>>
        /\ rpc' = "idle" \/ rpc' \in {"scan", "entry", "chunks"}
    BY <1>1, QuietStep
  <2>2. KeepsFiles'
    BY <2>1 DEF KeepInv, KeepsFiles, Kept
  <2>3. ASSUME ~overwrite, rpc' = "chunks" PROVE Dest' \notin DOMAIN before.fs
    <3>1. CASE StartEntry
      <4>1. Dest \notin DOMAIN fs /\ Dest' = Dest
        BY <3>1, <2>1, <2>3 DEF StartEntry, Exists, Dest, Entry, Entries
      <4> QED
        BY <4>1, <2>3 DEF KeepInv, KeepsFiles
    <3>2. CASE ReadChunk
      <4>1. rpc = "chunks" /\ ent' = ent
        BY <3>2, <2>3 DEF ReadChunk, Finish, Continue
      <4> QED
        BY <4>1, <2>1, <2>3 DEF KeepInv, Dest, Entry, Entries
    <3>3. CASE ~StartEntry /\ ~ReadChunk
      BY <3>3, <1>1, <2>3 DEF Quiet, OpenRefused, OpenList, OpenExtract, OpenTest,
         StartScan, ScanRecord, ScanEnd, TestRecord, TestEnd, RefuseEntry, SkipEntry,
         EndExtract, IoError, Finish, Continue
    <3> QED
      BY <3>1, <3>2, <3>3
  <2> QED
    BY <2>1, <2>2, <2>3 DEF KeepInv
<1>2. CASE CreateFile \/ WriteFile \/ SetMode \/ Die
  <2>1. KeepsFiles'
    <3> SUFFICES ASSUME ~overwrite, NEW p \in DOMAIN before.fs
                 PROVE  p \in DOMAIN fs' /\ fs'[p] = before.fs[p]
      BY <1>2, FileStep DEF KeepsFiles, Kept
    <3>1. p \in DOMAIN fs /\ fs[p] = before.fs[p]
      BY DEF KeepInv, KeepsFiles, Kept
    <3>2. rpc \in {"chunks", "write", "mode"} => p # Dest
      BY DEF KeepInv
    <3> QED
      BY <3>1, <3>2, <1>2, FileStep
  <2>2. \/ rpc' \in {"idle", "entry"}
        \/ /\ rpc \in {"chunks", "write"} /\ rpc' \in {"write", "mode"}
           /\ ent' = ent
    BY <1>2 DEF CreateFile, WriteFile, SetMode, Die, Finish, Continue, locals
  <2>3. UNCHANGED <<before, overwrite, img>>
    BY <1>2, FileStep
  <2> QED
    BY <2>1, <2>2, <2>3 DEF KeepInv, Dest, Entry, Entries
<1> QED
  BY <1>1, <1>2, ReaderSteps

LEMMA KeepStart ==
  ASSUME Command, UNCHANGED phase, phase = "use"
  PROVE  KeepInv'
<1> SUFFICES ASSUME NEW c, NEW o, NEW l, Start(c, o, l)
             PROVE  KeepInv'
  BY DEF Command, ExtractCommand, ListCommand, TestCommand
<1>1. rpc' = "open" /\ before' = [fs |-> fs, dirs |-> dirs] /\ fs' = fs
  BY DEF Start, outdir
<1> QED
  BY <1>1 DEF KeepInv, KeepsFiles, Kept

LEMMA KeeperWaits ==
  ASSUME KeepInv, UNCHANGED readerVars, phase' \in {phase, "use"},
         img' = img \/ rpc = "idle"
  PROVE  KeepInv'
<1>1. UNCHANGED <<fs, rpc, before, ent, overwrite>>
  BY DEF readerVars, outdir, locals, options
<1>2. rpc # "idle" => Dest' = Dest
  BY <1>1 DEF Dest, Entry, Entries
<1> QED
  BY <1>1, <1>2 DEF KeepInv, KeepsFiles, Kept

LEMMA KeepStep == KeepInv /\ [SystemNext]_systemVars => KeepInv'
<1> SUFFICES ASSUME KeepInv, [SystemNext]_systemVars PROVE KeepInv'
  OBVIOUS
<1>1. CASE CreateStep \/ CreateKill
  BY <1>1, KeeperWaits DEF CreateStep, CreateKill
<1>2. CASE Exit
  BY <1>2, KeeperWaits DEF Exit, KeepInv
<1>3. CASE Damage
  BY <1>3, KeeperWaits DEF Damage
<1>4. CASE UseStart
  BY <1>4, KeepStart DEF UseStart, Using
<1>5. CASE UseStep \/ UseFault
  BY <1>5, KeepRead DEF UseStep, UseFault, Using
<1>6. CASE UNCHANGED systemVars
  BY <1>6, KeeperWaits DEF systemVars
<1> QED
  BY <1>1, <1>2, <1>3, <1>4, <1>5, <1>6 DEF SystemNext

\* Without -f every file that the command found is as it was, at every moment
\* and after every fault: also where the names in the index were damaged
\* (archive.rs:328).
THEOREM NothingTouched == SystemSpec => []KeepsFiles
<1>1. SystemInit => KeepInv
  BY DEF SystemInit, ReadInit, KeepInv, KeepsFiles, Kept
<1>2. KeepInv => KeepsFiles
  BY DEF KeepInv
<1> QED
  BY KeepStep, <1>1, <1>2, PTL DEF SystemSpec
=============================================================================
