--------------------------- MODULE TwoRunsProofs ---------------------------
(***************************************************************************)
(* Theorems about what several commands share: the place next to the       *)
(* compiler that each moves the program to, and the distribution, for any  *)
(* number of commands, every set of names and commits and every set of     *)
(* branches.                                                               *)
(***************************************************************************)
EXTENDS MCTwoRuns, DistTreeProofs

-----------------------------------------------------------------------------
(***************************************************************************)
(* Moving never loses the program, for any number of commands.  On one     *)
(* file system the rename is atomic; where the source cannot be removed it *)
(* stays; between file systems a copy that is not whole has a writer that  *)
(* will make it so, or the source is still there and nobody is about to    *)
(* remove it.  And where it can be moved, commands that are not killed do  *)
(* not all fail: one of them is always able to go on.                      *)
(***************************************************************************)
Works(file) == file # None /\ file.whole /\ file.exec

Typed ==
  /\ entry \in {"none", "real", "alias", "relative"}
  /\ device \in {"same", "other", "readonly"}
  /\ place \in [outside : File \cup {None}, beside : File \cup {None}]
  /\ cmd \in [Commands -> Command]
  /\ torn \in BOOLEAN

\* What nimble puts outside is a program as long as it is there.
OutsideWorks == place.outside # None => Works(place.outside)

\* A source that cannot be removed stays.
SourceStays == device = "readonly" => place.outside # None

\* One rename moves the program: nobody copies.
RenameMoves ==
  device = "same" =>
    /\ \A c \in Commands : ~Moving(c)
    /\ place.beside # None => Works(place.beside)
    /\ place.outside # None \/ place.beside # None

\* A command that moves the program has looked where it is.
Named ==
  \A c \in Commands : cmd[c].pc \in {"test", "rename"} => cmd[c].app \in Places \cup {"gone"}

\* How far the copies are: they are of one file, which is executable before
\* the source is removed.
Copies ==
  /\ place.outside = None => place.beside # None /\ place.beside.exec
  /\ \A c \in Commands :
       /\ cmd[c].pc \in {"write", "chmod", "remove"} => place.beside # None
       /\ cmd[c].pc = "write" => cmd[c].dest = place.beside.inode
       /\ cmd[c].pc = "remove" => place.beside.exec

\* A copy that is not whole is being written by the last to truncate it, or
\* it was left behind while nobody else was moving the program.
Written ==
  (place.beside # None /\ ~place.beside.whole /\ ~torn) =>
    \/ \E c \in Commands : cmd[c].pc = "write" /\ cmd[c].last
    \/ /\ place.outside # None
       /\ \A c \in Commands : cmd[c].pc \notin {"write", "chmod", "remove"}

IInv ==
  /\ Typed /\ OutsideWorks /\ SourceStays /\ RenameMoves /\ Named
  /\ device = "other" => Copies /\ Written

-----------------------------------------------------------------------------
(* Commands: what changes in one and that the others stay.                 *)

Pcs == {"none", "look", "test", "rename", "open", "truncate", "write",
        "chmod", "remove", "start", "main", "done", "failed", "killed"}

\* One command takes a step and the rest of it stays.
LEMMA StepOf ==
  ASSUME Typed, NEW c \in Commands, NEW from, NEW to \in Pcs, Step(c, from, to)
  PROVE  /\ cmd' \in [Commands -> Command]
         /\ cmd[c].pc = from /\ cmd'[c].pc = to
         /\ cmd'[c].app = cmd[c].app /\ cmd'[c].dest = cmd[c].dest
         /\ cmd'[c].last = cmd[c].last
         /\ \A d \in Commands \ {c} : cmd'[d] = cmd[d]
BY DEF Typed, Step, Command, Pcs

\* One command ends.
LEMMA EndOf ==
  ASSUME Typed, NEW c \in Commands, NEW how \in {"done", "failed", "killed"}, End(c, how)
  PROVE  /\ cmd' \in [Commands -> Command]
         /\ cmd'[c].pc = how /\ ~cmd'[c].last
         /\ \A d \in Commands \ {c} : cmd'[d] = cmd[d]
BY DEF Typed, End, EndedCommand, Command

LEMMA InitHolds == InstallInit => IInv
<1> SUFFICES ASSUME InstallInit PROVE IInv
  OBVIOUS
<1> DEFINE i == CHOOSE i \in Inodes : TRUE
           j == CHOOSE j \in Inodes : j # i
<1>1. i \in Inodes /\ j \in Inodes
  BY InstallAssumption
<1>2. PICK k \in {i, j} :
        place \in [outside : {WholeProgram(i)}, beside : {None, WholeProgram(k)}]
  BY DEF InstallInit
<1> HIDE DEF i, j
<1>3. WholeProgram(i) \in File /\ WholeProgram(k) \in File
  BY <1>1 DEF WholeProgram, File
<1>4. WholeProgram(i) # None /\ WholeProgram(k) # None
  BY <1>3, InstallAssumption
<1>5. cmd = [c \in Commands |-> EndedCommand("none")] /\ torn = FALSE
  BY DEF InstallInit
<1>6. Typed
  <2>1. EndedCommand("none") \in Command
    BY DEF EndedCommand, Command
  <2>2. torn \in BOOLEAN
    BY <1>5
  <2> QED
    BY <1>2, <1>3, <1>5, <2>1, <2>2 DEF InstallInit, Typed
<1>7. OutsideWorks /\ SourceStays
  BY <1>2, <1>4 DEF OutsideWorks, SourceStays, Works, WholeProgram
<1>8. \A c \in Commands : cmd[c].pc = "none"
  BY <1>5 DEF EndedCommand
<1>9. RenameMoves
  BY <1>2, <1>4, <1>8 DEF RenameMoves, Works, WholeProgram, Moving
<1>10. Named /\ Copies /\ Written
  BY <1>2, <1>4, <1>8 DEF Named, Copies, Written, Moving, WholeProgram
<1> QED
  BY <1>6, <1>7, <1>9, <1>10 DEF IInv

-----------------------------------------------------------------------------
(* Steps that touch no file.                                               *)

\* A command that does not copy goes on, not into the middle of copying.
LEMMA Steady ==
  ASSUME IInv, NEW c \in Commands,
         UNCHANGED <<entry, device, place, torn>>,
         cmd' \in [Commands -> Command],
         \A d \in Commands \ {c} : cmd'[d] = cmd[d],
         cmd[c].pc # "write",
         cmd'[c].pc \notin {"write", "chmod", "remove"},
         cmd'[c].pc \in {"test", "rename"} => cmd'[c].app \in Places \cup {"gone"},
         cmd'[c].pc = "truncate" => device # "same"
  PROVE  IInv'
<1>1. Typed'
  BY DEF IInv, Typed
<1>2. OutsideWorks' /\ SourceStays'
  BY DEF IInv, OutsideWorks, SourceStays, Works
<1>3. RenameMoves'
  BY DEF IInv, RenameMoves, Works, Moving
<1>4. Named'
  BY DEF IInv, Named
<1>5. ASSUME device = "other" PROVE Copies'
  BY <1>5 DEF IInv, Copies
<1>6. ASSUME device = "other" PROVE Written'
  BY <1>6 DEF IInv, Written
<1> QED
  BY <1>1, <1>2, <1>3, <1>4, <1>5, <1>6 DEF IInv

\* A command that does not copy and ends.
LEMMA EndSteady ==
  ASSUME IInv, NEW c \in Commands, NEW how \in {"done", "failed", "killed"},
         End(c, how), cmd[c].pc # "write", UNCHANGED <<entry, device, place, torn>>
  PROVE  IInv'
<1>1. /\ cmd' \in [Commands -> Command] /\ cmd'[c].pc = how
      /\ \A d \in Commands \ {c} : cmd'[d] = cmd[d]
  BY EndOf DEF IInv
<1> QED
  BY <1>1, Steady

\* A process that executes i starts to look where it is.
LEMMA LookOf ==
  ASSUME Typed, NEW c \in Commands, NEW process \in Command, process.pc = "look",
         cmd' = [cmd EXCEPT ![c] = process]
  PROVE  /\ cmd' \in [Commands -> Command] /\ cmd'[c].pc = "look"
         /\ \A d \in Commands \ {c} : cmd'[d] = cmd[d]
BY DEF Typed

LEMMA StartStep == ASSUME IInv, NEW c \in Commands, Start(c) PROVE IInv'
<1>1. PICK p \in Places :
        /\ place[p] # None
        /\ cmd' = [cmd EXCEPT ![c] = [EndedCommand("look") EXCEPT !.exe = place[p].inode]]
  BY DEF Start
<1>2. place[p] \in File
  BY <1>1 DEF IInv, Typed, Places
<1>3. place[p].inode \in Inodes
  BY <1>2 DEF File
<1>4. /\ [EndedCommand("look") EXCEPT !.exe = place[p].inode] \in Command
      /\ [EndedCommand("look") EXCEPT !.exe = place[p].inode].pc = "look"
  BY <1>3 DEF EndedCommand, Command
<1>5. /\ cmd' \in [Commands -> Command] /\ cmd'[c].pc = "look"
      /\ \A d \in Commands \ {c} : cmd'[d] = cmd[d]
  BY <1>1, <1>4, LookOf DEF IInv
<1>6. cmd[c].pc # "write" /\ UNCHANGED <<entry, device, place, torn>>
  BY DEF Start, CommandRuns
<1> QED
  BY <1>5, <1>6, Steady

LEMMA GetAppFilenameStep ==
  ASSUME IInv, NEW c \in Commands, GetAppFilename(c) PROVE IInv'
<1> DEFINE names == NamesOf(cmd[c].exe)
<1>1. PICK app \in IF names = {} THEN {"gone"} ELSE names :
        cmd' = [cmd EXCEPT ![c].pc = "test", ![c].app = app]
  BY DEF GetAppFilename
<1>2. app \in Places \cup {"gone"} /\ (app = "beside" => place.beside # None)
  BY DEF NamesOf, Places
<1> HIDE DEF names
<1>3. cmd[c] \in Command /\ cmd[c].pc # "write"
  BY DEF IInv, Typed, GetAppFilename
<1>4. /\ cmd' \in [Commands -> Command]
      /\ cmd'[c].pc = "test" /\ cmd'[c].app = app
      /\ \A d \in Commands \ {c} : cmd'[d] = cmd[d]
  BY <1>1, <1>2, <1>3 DEF IInv, Typed, Command, Places
<1>5. UNCHANGED <<entry, device, place, torn>>
  BY DEF GetAppFilename
<1> QED
  BY <1>2, <1>3, <1>4, <1>5, Steady

LEMMA GoOnStep == ASSUME IInv, NEW c \in Commands, GoOn(c) PROVE IInv'
<1>1. /\ cmd' \in [Commands -> Command] /\ cmd[c].pc = "test" /\ cmd'[c].pc = "main"
      /\ \A d \in Commands \ {c} : cmd'[d] = cmd[d]
  BY StepOf DEF IInv, GoOn, Pcs
<1> QED
  BY <1>1, Steady DEF GoOn

LEMMA MoveStep == ASSUME IInv, NEW c \in Commands, Move(c) PROVE IInv'
<1>1. /\ cmd' \in [Commands -> Command] /\ cmd[c].pc = "test" /\ cmd'[c].pc = "rename"
      /\ cmd'[c].app = cmd[c].app
      /\ \A d \in Commands \ {c} : cmd'[d] = cmd[d]
  BY StepOf DEF IInv, Move, Pcs
<1>2. cmd[c].app \in Places \cup {"gone"}
  BY <1>1 DEF IInv, Named
<1> QED
  BY <1>1, <1>2, Steady DEF Move

LEMMA OpenSourceStep == ASSUME IInv, NEW c \in Commands, OpenSource(c) PROVE IInv'
<1> DEFINE fails == entry = "relative" \/ cmd[c].app = "gone" \/ place.outside = None
<1>1. CASE fails
  BY <1>1, EndSteady DEF OpenSource
<1>2. CASE ~fails
  <2>1. cmd' = [cmd EXCEPT ![c].pc = "truncate"]
    BY <1>2 DEF OpenSource
  <2>2. /\ cmd' \in [Commands -> Command] /\ cmd[c].pc = "rename" /\ cmd'[c].pc = "truncate"
        /\ \A d \in Commands \ {c} : cmd'[d] = cmd[d]
    BY <2>1, StepOf DEF IInv, OpenSource, Step, Pcs
  <2> QED
    BY <2>2, Steady DEF OpenSource, SameDevice
<1> QED
  BY <1>1, <1>2

LEMMA StartProcessStep == ASSUME IInv, NEW c \in Commands, StartProcess(c) PROVE IInv'
<1> DEFINE fails == \/ place.beside = None \/ OpenForWriting(place.beside.inode)
                    \/ ~place.beside.whole \/ ~place.beside.exec
<1>1. CASE fails
  BY <1>1, EndSteady DEF StartProcess
<1>2. CASE ~fails
  <2>1. cmd' = [cmd EXCEPT ![c] = [EndedCommand("look") EXCEPT !.exe = place.beside.inode,
                                                       !.parent = cmd[c].exe]]
    BY <1>2 DEF StartProcess
  <2>2. place.beside \in File /\ cmd[c] \in Command
    BY <1>2 DEF IInv, Typed
  <2>3. place.beside.inode \in Inodes /\ cmd[c].exe \in Inodes \cup {None}
    BY <2>2 DEF File, Command
  <2>4. LET process == [EndedCommand("look") EXCEPT !.exe = place.beside.inode,
                                             !.parent = cmd[c].exe]
        IN process \in Command /\ process.pc = "look"
    BY <2>3 DEF EndedCommand, Command
  <2>5. /\ cmd' \in [Commands -> Command] /\ cmd'[c].pc = "look"
        /\ \A d \in Commands \ {c} : cmd'[d] = cmd[d]
    BY <2>1, <2>4, LookOf DEF IInv
  <2> QED
    BY <2>5, Steady DEF StartProcess
<1> QED
  BY <1>1, <1>2

LEMMA SameFileRaisesStep == ASSUME IInv, NEW c \in Commands, SameFileRaises(c) PROVE IInv'
BY EndSteady DEF SameFileRaises

LEMMA FinishStep == ASSUME IInv, NEW c \in Commands, RunMain(c) PROVE IInv'
BY EndSteady DEF RunMain

-----------------------------------------------------------------------------
(* Steps that touch the files.                                             *)

\* One rename: beside is replaced by the whole program, or stays.
LEMMA RenameStep == ASSUME IInv, NEW c \in Commands, Rename(c) PROVE IInv'
<1> DEFINE fails == entry = "relative" \/ cmd[c].app = "gone" \/ place[cmd[c].app] = None
<1>1. CASE fails
  BY <1>1, EndSteady DEF Rename
<1>2. CASE ~fails
  <2>1. cmd' = [cmd EXCEPT ![c].pc = "start"] /\ cmd[c].pc = "rename" /\ device' = device
    BY <1>2 DEF Rename
  <2>2. /\ cmd' \in [Commands -> Command] /\ cmd'[c].pc = "start"
        /\ \A d \in Commands \ {c} : cmd'[d] = cmd[d]
    BY <2>1, StepOf DEF IInv, Step, Pcs
  <2>3. CASE cmd[c].app = "beside"
    <3>1. UNCHANGED <<entry, device, place, torn>>
      BY <1>2, <2>3 DEF Rename
    <3> QED
      BY <2>1, <2>2, <3>1, Steady
  <2>4. CASE cmd[c].app # "beside"
    <3>1. place' = [outside |-> None, beside |-> place.outside] /\ device = "same"
      BY <1>2, <2>4 DEF Rename, SameDevice
    <3>2. Typed'
      BY <2>2, <3>1 DEF IInv, Typed, Rename
    <3>3. place.outside # None
      BY <1>2, <2>1, <2>4 DEF IInv, Named, Places
    <3>4. OutsideWorks' /\ SourceStays'
      BY <2>1, <3>1 DEF OutsideWorks, SourceStays
    <3>5. \A d \in Commands : ~Moving(d)'
      BY <2>2, <3>1 DEF IInv, RenameMoves, Moving
    <3>6. RenameMoves'
      BY <2>1, <3>1, <3>3, <3>5 DEF IInv, RenameMoves, OutsideWorks, Works
    <3>7. Named'
      BY <2>2 DEF IInv, Named
    <3> QED
      BY <2>1, <3>1, <3>2, <3>4, <3>6, <3>7 DEF IInv
  <2> QED
    BY <2>3, <2>4
<1> QED
  BY <1>1, <1>2

\* The inode that is opened: beside's, or a free one.
DestOf == IF place.beside = None THEN NewInode ELSE place.beside.inode

Truncated ==
  IF place.beside = None THEN [inode |-> DestOf, whole |-> FALSE, exec |-> FALSE]
  ELSE [place.beside EXCEPT !.whole = FALSE]

\* The truncated file is of all that write, and c is the last of them.
LEMMA OpenDestStep == ASSUME IInv, NEW c \in Commands, OpenDest(c) PROVE IInv'
<1>1. CASE Executed(DestOf)
  BY <1>1, EndSteady DEF OpenDest, DestOf
<1>2. CASE ~Executed(DestOf)
  <2>1. /\ place' = [place EXCEPT !.beside = Truncated]
        /\ cmd' = [d \in Commands |->
                     IF d = c THEN [cmd[c] EXCEPT !.pc = "write", !.dest = DestOf, !.last = TRUE]
                     ELSE IF cmd[d].dest = DestOf THEN [cmd[d] EXCEPT !.last = FALSE]
                     ELSE cmd[d]]
        /\ UNCHANGED <<entry, device, torn>>
    BY <1>2 DEF OpenDest, DestOf, Truncated
  <2>2. /\ cmd \in [Commands -> Command]
        /\ place \in [outside : File \cup {None}, beside : File \cup {None}]
    BY DEF IInv, Typed
  <2>3. DestOf \in Inodes
    <3>1. CASE place.beside = None
      <4>1. Free # {}
        BY <3>1 DEF OpenDest
      <4>2. NewInode \in Inodes
        BY <4>1 DEF NewInode, Free
      <4> QED
        BY <3>1, <4>2 DEF DestOf
    <3>2. CASE place.beside # None
      BY <2>2, <3>2 DEF DestOf, File
    <3> QED
      BY <3>1, <3>2
  <2>4. /\ Truncated \in File /\ Truncated.inode = DestOf /\ ~Truncated.whole
        /\ place.beside # None => Truncated.exec = place.beside.exec
    BY <2>2, <2>3 DEF Truncated, DestOf, File
  <2>5. /\ place' \in [outside : File \cup {None}, beside : File \cup {None}]
        /\ place'.outside = place.outside /\ place'.beside = Truncated
        /\ Truncated # None
    BY <2>1, <2>2, <2>4, InstallAssumption
  <2>6. /\ cmd' \in [Commands -> Command]
        /\ cmd'[c].pc = "write" /\ cmd'[c].dest = DestOf /\ cmd'[c].last
        /\ cmd'[c].app = cmd[c].app
        /\ \A d \in Commands \ {c} :
             cmd'[d].pc = cmd[d].pc /\ cmd'[d].app = cmd[d].app /\ cmd'[d].dest = cmd[d].dest
    <3> DEFINE opened == [cmd[c] EXCEPT !.pc = "write", !.dest = DestOf, !.last = TRUE]
               other(d) == [cmd[d] EXCEPT !.last = FALSE]
    <3>1. /\ opened \in Command /\ opened.pc = "write" /\ opened.dest = DestOf
          /\ opened.last /\ opened.app = cmd[c].app
      BY <2>2, <2>3, ZenonT(30) DEF Command
    <3>2. ASSUME NEW d \in Commands
          PROVE  /\ other(d) \in Command /\ other(d).pc = cmd[d].pc
                 /\ other(d).app = cmd[d].app /\ other(d).dest = cmd[d].dest
      BY <2>2, ZenonT(30) DEF Command
    <3>3. cmd' = [d \in Commands |->
                    IF d = c THEN opened ELSE IF cmd[d].dest = DestOf THEN other(d) ELSE cmd[d]]
      BY <2>1
    <3> HIDE DEF opened, other
    <3> QED
      BY <2>2, <3>1, <3>2, <3>3
  <2>7. cmd[c].pc = "truncate" /\ Moving(c)
    BY DEF OpenDest, Moving
  <2>8. device # "same"
    BY <2>7 DEF IInv, RenameMoves
  <2>9. Typed'
    BY <2>1, <2>5, <2>6 DEF IInv, Typed
  <2>10. OutsideWorks' /\ SourceStays' /\ RenameMoves' /\ Named'
    BY <2>1, <2>5, <2>6, <2>7, <2>8
    DEF IInv, OutsideWorks, SourceStays, RenameMoves, Named, Moving, Works
  <2>11. ASSUME device = "other" PROVE Copies'
    BY <2>1, <2>4, <2>5, <2>6, <2>11 DEF IInv, Copies, DestOf
  <2>12. Written'
    BY <2>6 DEF Written
  <2> QED
    BY <2>1, <2>9, <2>10, <2>11, <2>12 DEF IInv
<1> QED
  BY <1>1, <1>2

\* The last to truncate makes the file whole.
LEMMA WriteStep == ASSUME IInv, NEW c \in Commands, Write(c) PROVE IInv'
<1> DEFINE makes == cmd[c].last /\ "beside" \in NamesOf(cmd[c].dest)
<1>1. /\ cmd \in [Commands -> Command]
      /\ place \in [outside : File \cup {None}, beside : File \cup {None}]
  BY DEF IInv, Typed
<1>2. /\ cmd[c].pc = "write" /\ Moving(c) /\ UNCHANGED <<entry, device, torn>>
      /\ cmd' = [cmd EXCEPT ![c].pc = "chmod", ![c].dest = None, ![c].last = FALSE]
  BY DEF Write, Moving
<1>3. /\ cmd' \in [Commands -> Command]
      /\ cmd'[c].pc = "chmod" /\ ~cmd'[c].last /\ cmd'[c].app = cmd[c].app
      /\ \A d \in Commands \ {c} : cmd'[d] = cmd[d]
  <2> DEFINE closed == [cmd[c] EXCEPT !.pc = "chmod", !.dest = None, !.last = FALSE]
  <2>1. closed \in Command /\ closed.pc = "chmod" /\ ~closed.last /\ closed.app = cmd[c].app
    BY <1>1, ZenonT(30) DEF Command
  <2>2. cmd' = [cmd EXCEPT ![c] = closed]
    BY <1>1, <1>2 DEF Command
  <2> HIDE DEF closed
  <2> QED
    BY <1>1, <2>1, <2>2
<1>4. device # "same"
  BY <1>2 DEF IInv, RenameMoves
<1>5. /\ place' \in [outside : File \cup {None}, beside : File \cup {None}]
      /\ place'.outside = place.outside
      /\ (place'.beside = None) <=> (place.beside = None)
      /\ place.beside # None => /\ place'.beside.inode = place.beside.inode
                                /\ place'.beside.exec = place.beside.exec
      /\ ~makes => place' = place
      /\ makes => place'.beside.whole
  <2>1. CASE ~makes
    BY <1>1, <2>1 DEF Write
  <2>2. CASE makes
    <3>1. place' = [place EXCEPT !.beside.whole = TRUE]
      BY <2>2 DEF Write
    <3>2. place.beside # None /\ place.beside \in File
      BY <1>1, <2>2 DEF NamesOf
    <3>3. place' = [place EXCEPT !.beside = [place.beside EXCEPT !.whole = TRUE]]
      BY <3>1
    <3>4. [place.beside EXCEPT !.whole = TRUE] \in File
      BY <3>2 DEF File
    <3> QED
      BY <1>1, <2>2, <3>2, <3>3, <3>4, InstallAssumption DEF File
  <2> QED
    BY <2>1, <2>2
<1>6. Typed'
  BY <1>2, <1>3, <1>5 DEF IInv, Typed
<1>7. OutsideWorks' /\ SourceStays' /\ RenameMoves' /\ Named'
  BY <1>2, <1>3, <1>4, <1>5
  DEF IInv, OutsideWorks, SourceStays, RenameMoves, Named, Moving, Works
<1>8. ASSUME device = "other" PROVE Copies'
  BY <1>2, <1>3, <1>5, <1>8 DEF IInv, Copies
<1>9. ASSUME device = "other" PROVE Written'
  <2>1. place.beside # None /\ cmd[c].dest = place.beside.inode
    BY <1>2, <1>9 DEF IInv, Copies
  <2>2. CASE cmd[c].last
    BY <1>5, <2>1, <2>2 DEF NamesOf, Places, Written
  <2>3. CASE ~cmd[c].last
    <3>1. place' = place /\ torn' = torn
      BY <1>2, <1>5, <2>3
    <3> QED
      BY <1>2, <1>3, <1>9, <2>3, <3>1 DEF IInv, Written
  <2> QED
    BY <2>2, <2>3
<1> QED
  BY <1>2, <1>6, <1>7, <1>8, <1>9 DEF IInv

\* The copy becomes executable as its source is, or was before its removal.
LEMMA SetFilePermissionsStep ==
  ASSUME IInv, NEW c \in Commands, SetFilePermissions(c) PROVE IInv'
<1>1. /\ place \in [outside : File \cup {None}, beside : File \cup {None}]
      /\ UNCHANGED <<entry, device, torn>>
  BY DEF IInv, Typed, SetFilePermissions
<1>2. /\ cmd' \in [Commands -> Command]
      /\ cmd[c].pc = "chmod" /\ cmd'[c].pc = "remove" /\ cmd'[c].app = cmd[c].app
      /\ \A d \in Commands \ {c} : cmd'[d] = cmd[d]
  BY StepOf DEF IInv, SetFilePermissions, Pcs
<1>3. device # "same"
  BY <1>2 DEF IInv, RenameMoves, Moving
<1>4. /\ place' \in [outside : File \cup {None}, beside : File \cup {None}]
      /\ place'.outside = place.outside
      /\ (place'.beside = None) <=> (place.beside = None)
      /\ place.beside # None => /\ place'.beside.inode = place.beside.inode
                                /\ place'.beside.whole = place.beside.whole
      /\ place'.beside.exec = IF place.outside # None /\ place.beside # None
                              THEN place.outside.exec ELSE place.beside.exec
  <2>1. CASE place.outside # None /\ place.beside # None
    <3>1. place' = [place EXCEPT !.beside.exec = place.outside.exec]
      BY <2>1 DEF SetFilePermissions
    <3>2. place' = [place EXCEPT !.beside = [place.beside EXCEPT !.exec = place.outside.exec]]
      BY <3>1
    <3>3. /\ place.beside \in File /\ place.outside.exec \in BOOLEAN
          /\ [place.beside EXCEPT !.exec = place.outside.exec] \in File
      BY <1>1, <2>1 DEF File
    <3> QED
      BY <1>1, <2>1, <3>2, <3>3, InstallAssumption DEF File
  <2>2. CASE ~(place.outside # None /\ place.beside # None)
    <3>1. place' = place
      BY <2>2 DEF SetFilePermissions
    <3> QED
      BY <1>1, <2>2, <3>1
  <2> QED
    BY <2>1, <2>2
<1>5. Typed'
  BY <1>1, <1>2, <1>4 DEF IInv, Typed
<1>6. OutsideWorks' /\ SourceStays' /\ RenameMoves' /\ Named'
  BY <1>1, <1>2, <1>3, <1>4
  DEF IInv, OutsideWorks, SourceStays, RenameMoves, Named, Moving, Works
<1>7. ASSUME device = "other" PROVE Copies' /\ Written'
  <2>1. place.beside # None /\ place'.beside.exec
    BY <1>2, <1>4, <1>7 DEF IInv, OutsideWorks, Works, Copies
  <2>2. Copies'
    BY <1>1, <1>2, <1>4, <1>7, <2>1 DEF IInv, Copies
  <2>3. Written'
    BY <1>1, <1>2, <1>4, <1>7 DEF IInv, Written
  <2> QED
    BY <2>2, <2>3
<1> QED
  BY <1>1, <1>5, <1>6, <1>7 DEF IInv

\* The source is removed once the copy is executable, and whole or written.
LEMMA RemoveSourceStep ==
  ASSUME IInv, NEW c \in Commands, RemoveSource(c) PROVE IInv'
<1>1. /\ place \in [outside : File \cup {None}, beside : File \cup {None}]
      /\ cmd[c].pc = "remove" /\ UNCHANGED <<entry, device, torn>>
  BY DEF IInv, Typed, RemoveSource
<1>2. device # "same"
  BY <1>1 DEF IInv, RenameMoves, Moving
<1>3. CASE device = "readonly"
  <2>1. place' = [place EXCEPT !.beside = None] /\ End(c, "failed")
    BY <1>3 DEF RemoveSource
  <2>2. /\ cmd' \in [Commands -> Command] /\ cmd'[c].pc = "failed"
        /\ \A d \in Commands \ {c} : cmd'[d] = cmd[d]
    BY <2>1, EndOf DEF IInv
  <2>3. Typed'
    BY <1>1, <2>1, <2>2 DEF IInv, Typed
  <2>4. OutsideWorks' /\ SourceStays' /\ RenameMoves' /\ Named'
    BY <1>1, <1>3, <2>1, <2>2 DEF IInv, OutsideWorks, SourceStays, RenameMoves, Named, Works
  <2> QED
    BY <1>1, <1>3, <2>3, <2>4 DEF IInv
<1>4. CASE device # "readonly"
  <2>1. place' = [place EXCEPT !.outside = None] /\ cmd' = [cmd EXCEPT ![c].pc = "start"]
    BY <1>4 DEF RemoveSource
  <2>2. /\ cmd' \in [Commands -> Command] /\ cmd'[c].pc = "start"
        /\ \A d \in Commands \ {c} : cmd'[d] = cmd[d]
    BY <1>1, <2>1, StepOf DEF IInv, Step, Pcs
  <2>3. place'.outside = None /\ place'.beside = place.beside
    BY <1>1, <2>1
  <2>4. Typed'
    BY <1>1, <2>1, <2>2 DEF IInv, Typed
  <2>5. OutsideWorks' /\ SourceStays' /\ RenameMoves' /\ Named'
    BY <1>1, <1>2, <1>4, <2>2, <2>3
    DEF IInv, OutsideWorks, SourceStays, RenameMoves, Named, Works
  <2>6. ASSUME device = "other" PROVE Copies' /\ Written'
    <3>1. place.beside # None /\ place.beside.exec
      BY <1>1, <2>6 DEF IInv, Copies
    <3>2. Copies'
      BY <1>1, <2>2, <2>3, <2>6, <3>1 DEF IInv, Copies
    <3>3. Written'
      BY <1>1, <2>2, <2>3, <2>6 DEF IInv, Written
    <3> QED
      BY <3>2, <3>3
  <2> QED
    BY <1>1, <2>4, <2>5, <2>6 DEF IInv
<1> QED
  BY <1>3, <1>4

-----------------------------------------------------------------------------
(* Faults, the next program, and the whole.                                *)

\* Killed while it writes, a command leaves the source, or it is torn.
LEMMA KillStep == ASSUME IInv, NEW c \in Commands, KillCommand(c) PROVE IInv'
<1>1. UNCHANGED <<entry, device, place>> /\ torn' = (torn \/ Tears(c)) /\ End(c, "killed")
  BY DEF KillCommand
<1>2. /\ cmd' \in [Commands -> Command] /\ cmd'[c].pc = "killed"
      /\ \A d \in Commands \ {c} : cmd'[d] = cmd[d]
  BY <1>1, EndOf DEF IInv
<1>3. Typed'
  <2>1. torn' \in BOOLEAN
    BY <1>1, Zenon
  <2> QED
    BY <1>1, <1>2, <2>1 DEF IInv, Typed
<1>4. OutsideWorks' /\ SourceStays' /\ RenameMoves' /\ Named'
  BY <1>1, <1>2 DEF IInv, OutsideWorks, SourceStays, RenameMoves, Named, Moving, Works
<1>5. ASSUME device = "other" PROVE Copies'
  BY <1>1, <1>2, <1>5 DEF IInv, Copies
<1>6. ASSUME device = "other" PROVE Written'
  <2> SUFFICES ASSUME place.beside # None, ~place.beside.whole, ~torn'
               PROVE  Written'
    BY <1>1 DEF Written
  <2>1. ~torn /\ ~Tears(c)
    BY <1>1
  <2>2. CASE cmd[c].pc = "write"
    <3>1. place.outside # None /\ \A d \in Commands \ {c} : ~Moving(d)
      BY <2>1, <2>2 DEF Tears, Copying
    <3> QED
      BY <1>1, <1>2, <3>1 DEF Written, Moving
  <2>3. CASE cmd[c].pc # "write"
    BY <1>1, <1>2, <1>6, <2>1, <2>3 DEF IInv, Written
  <2> QED
    BY <2>2, <2>3
<1> QED
  BY <1>1, <1>3, <1>4, <1>5, <1>6 DEF IInv

LEMMA BuildStep == ASSUME IInv, Build PROVE IInv'
<1>1. /\ place' = [place EXCEPT !.outside = WholeProgram(NewInode)]
      /\ cmd' = [c \in Commands |-> EndedCommand("none")] /\ torn' = FALSE
      /\ UNCHANGED <<entry, device>> /\ Free # {}
  BY DEF Build
<1>2. NewInode \in Inodes
  BY <1>1 DEF NewInode, Free
<1>3. WholeProgram(NewInode) \in File /\ Works(WholeProgram(NewInode))
  <2>1. WholeProgram(NewInode) \in File
    BY <1>2 DEF WholeProgram, File
  <2> QED
    BY <2>1, InstallAssumption DEF WholeProgram, Works
<1>4. place \in [outside : File \cup {None}, beside : File \cup {None}]
  BY DEF IInv, Typed
<1>5. /\ place' \in [outside : File \cup {None}, beside : File \cup {None}]
      /\ Works(place'.outside) /\ place'.outside # None /\ place'.beside = place.beside
  BY <1>1, <1>3, <1>4 DEF Works
<1>6. EndedCommand("none") \in Command /\ \A c \in Commands : cmd'[c].pc = "none"
  BY <1>1 DEF EndedCommand, Command
<1>7. Typed'
  <2>1. torn' \in BOOLEAN
    BY <1>1
  <2> QED
    BY <1>1, <1>5, <1>6, <2>1 DEF IInv, Typed
<1>8. OutsideWorks' /\ SourceStays' /\ RenameMoves' /\ Named'
  BY <1>1, <1>5, <1>6 DEF IInv, OutsideWorks, SourceStays, RenameMoves, Named, Moving, Works
<1>9. Copies' /\ Written'
  BY <1>5, <1>6 DEF Copies, Written, Moving
<1> QED
  BY <1>7, <1>8, <1>9 DEF IInv

LEMMA NextHolds == ASSUME IInv, [InstallNext]_installVars PROVE IInv'
<1>1. ASSUME NEW c \in Commands, Start(c) \/ Proceed(c) \/ KillCommand(c) PROVE IInv'
  BY <1>1, StartStep, GetAppFilenameStep, GoOnStep, SameFileRaisesStep, MoveStep, RenameStep,
     OpenSourceStep, OpenDestStep, WriteStep, SetFilePermissionsStep, RemoveSourceStep,
     StartProcessStep, FinishStep, KillStep DEF Proceed
<1>2. CASE Build
  BY <1>2, BuildStep
<1>3. CASE UNCHANGED installVars
  BY <1>3 DEF installVars, IInv, Typed, OutsideWorks, SourceStays, RenameMoves, Named,
              Copies, Written, Works, Moving
<1> QED
  BY <1>1, <1>2, <1>3 DEF InstallNext

THEOREM InvariantAlways == InstallSpec => []IInv
<1> QED
  BY InitHolds, NextHolds, PTL DEF InstallSpec

\* The invariant is stronger than what is promised: where there is no program
\* outside, the one beside is executable, and whole or being written.
LEMMA Survival == IInv => ProgramSurvives
<1> SUFFICES ASSUME IInv, ~torn, \A c \in Commands : ~Copying(c)
             PROVE  \E p \in Places : Works(place[p])
  BY DEF ProgramSurvives, Works
<1>1. CASE place.outside # None
  BY <1>1 DEF IInv, OutsideWorks, Places
<1>2. CASE place.outside = None
  <2>1. CASE device = "same"
    BY <1>2, <2>1 DEF IInv, RenameMoves, Places
  <2>2. CASE device = "readonly"
    BY <1>2, <2>2 DEF IInv, SourceStays
  <2>3. CASE device = "other"
    <3>1. place.beside # None /\ place.beside.exec
      BY <1>2, <2>3 DEF IInv, Copies
    <3>2. place.beside.whole
      BY <1>2, <2>3, <3>1 DEF IInv, Written, Copying
    <3> QED
      BY <3>1, <3>2 DEF Places, Works
  <2> QED
    BY <2>1, <2>2, <2>3 DEF IInv, Typed
<1> QED
  BY <1>1, <1>2

(***************************************************************************)
(* Moving never loses the program, whatever its commands, the file systems *)
(* and the moment one is killed, unless that was while it copied what      *)
(* another moved too.                                                      *)
(***************************************************************************)
THEOREM ProgramSurvivesAlways == InstallSpec => []ProgramSurvives
<1> QED
  BY InvariantAlways, Survival, PTL
-----------------------------------------------------------------------------
(***************************************************************************)
(* Where the program can be moved, not all fail.  A command fails only     *)
(* after another has moved the program before it, or executes or writes    *)
(* the file that is in place; that other one is able to go on.             *)
(***************************************************************************)
Movable == entry # "relative" /\ device # "readonly"

IsBeside(i) == place.beside # None /\ i = place.beside.inode

\* Nothing has yet got in this command's way: the file it executes still has
\* a name, and the name it found is still of a file.
Able(c) ==
  /\ cmd[c].pc # "failed"
  /\ cmd[c].pc = "look" => NamesOf(cmd[c].exe) # {}
  /\ cmd[c].pc \in {"test", "rename"} => cmd[c].app \in Places /\ place[cmd[c].app] # None

SomeAble == Movable /\ ~torn => \E c \in Commands : Able(c)

\* A file that is copied is not the copy.
Apart ==
  (device = "other" /\ place.outside # None /\ place.beside # None)
  => place.outside.inode # place.beside.inode

\* What is open is being written.  The program in place is not moved; it is
\* there when a command starts it, and then not elsewhere; and what executes
\* the copy finds that it is in place.
Knows(c) ==
  /\ cmd[c].dest # None <=> cmd[c].pc = "write"
  /\ cmd[c].last => cmd[c].dest # None
  /\ Movable =>
       /\ cmd[c].pc \in {"test", "rename"} /\ cmd[c].app = "beside"
          => place.beside # None /\ cmd[c].pc = "test"
       /\ cmd[c].pc = "start"
          => place.beside # None /\ (device = "other" => place.outside = None)
       /\ device = "other" =>
            /\ cmd[c].parent # None => IsBeside(cmd[c].exe)
            /\ IsBeside(cmd[c].exe) => /\ cmd[c].pc \in {"look", "test", "main"}
                                       /\ cmd[c].pc = "test" => cmd[c].app = "beside"

\* The invariant, with what ProgramSurvives needs.
AbleInv == IInv /\ Apart /\ (\A c \in Commands : Knows(c)) /\ SomeAble

\* Two commands that differ at most in who was the last to truncate.
SameButLast(new, old) ==
  /\ new.pc = old.pc /\ new.exe = old.exe /\ new.parent = old.parent
  /\ new.app = old.app /\ new.dest = old.dest
  /\ new.last => old.last

\* Every name is still that of the file it was of.
NamesStay == \A p \in Places : place[p] # None =>
               place'[p] # None /\ place'[p].inode = place[p].inode

\* What a step of c leaves the others.
LEMMA OthersKnow ==
  ASSUME AbleInv, UNCHANGED <<entry, device>>, NEW c \in Commands, Knows(c)',
         \A d \in Commands \ {c} : SameButLast(cmd'[d], cmd[d]),
         Movable => /\ place.beside # None => place'.beside # None
                    /\ device = "other" /\ place.outside = None => place'.outside = None,
         Movable /\ device = "other" =>
           \A d \in Commands \ {c} : IsBeside(cmd[d].exe)' <=> IsBeside(cmd[d].exe)
  PROVE  \A d \in Commands : Knows(d)'
<1> SUFFICES ASSUME NEW d \in Commands \ {c} PROVE Knows(d)'
  OBVIOUS
<1>1. Knows(d) /\ SameButLast(cmd'[d], cmd[d])
  BY DEF AbleInv
<1> QED
  BY <1>1 DEF Knows, SameButLast, Movable

\* Who is able stays so, unless a step takes a name away.
LEMMA OthersAble ==
  ASSUME AbleInv, UNCHANGED <<entry, device>>, torn => torn', NEW c \in Commands,
         \A d \in Commands \ {c} : SameButLast(cmd'[d], cmd[d]),
         NamesStay,
         (Movable /\ ~torn /\ Able(c)) => Able(c)' \/ \E d \in Commands \ {c} : Able(d)
  PROVE  SomeAble'
<1> SUFFICES ASSUME Movable, ~torn PROVE \E d \in Commands : Able(d)'
  BY DEF SomeAble, Movable
<1>1. ASSUME NEW d \in Commands \ {c}, Able(d) PROVE Able(d)'
  BY <1>1 DEF Able, SameButLast, NamesStay, NamesOf, Places
<1>2. \E d \in Commands : Able(d)
  BY DEF AbleInv, SomeAble
<1> QED
  BY <1>1, <1>2

\* A step that touches no file.
LEMMA Untouched ==
  ASSUME AbleInv, IInv', UNCHANGED <<entry, device, place>>, torn => torn',
         NEW c \in Commands, Knows(c)',
         \A d \in Commands \ {c} : cmd'[d] = cmd[d],
         (Movable /\ ~torn /\ Able(c)) => Able(c)' \/ \E d \in Commands \ {c} : Able(d)
  PROVE  AbleInv'
<1>1. \A d \in Commands \ {c} : SameButLast(cmd'[d], cmd[d])
  BY DEF SameButLast
<1>2. NamesStay
  BY DEF NamesStay
<1>3. \A d \in Commands : Knows(d)'
  BY <1>1, OthersKnow DEF IsBeside
<1>4. SomeAble'
  BY <1>1, <1>2, OthersAble
<1>5. Apart'
  BY DEF AbleInv, Apart
<1> QED
  BY <1>3, <1>4, <1>5 DEF AbleInv

\* The fields of a command that ended.
LEMMA EndedFields ==
  ASSUME Typed, NEW c \in Commands, NEW how, End(c, how)
  PROVE  /\ cmd'[c] = EndedCommand(how)
         /\ cmd'[c].pc = how /\ cmd'[c].exe = None /\ cmd'[c].parent = None
         /\ cmd'[c].dest = None /\ ~cmd'[c].last
         /\ \A d \in Commands \ {c} : cmd'[d] = cmd[d]
BY DEF Typed, End, EndedCommand

\* A process that executes nothing knows nothing.
LEMMA EndedKnows ==
  ASSUME Typed', NEW c \in Commands, NEW how \in {"none", "done", "failed", "killed"},
         cmd'[c] = EndedCommand(how)
  PROVE  Knows(c)'
<1>1. ~IsBeside(cmd[c].exe)'
  BY InstallAssumption DEF Typed, IsBeside, EndedCommand, File
<1> QED
  BY <1>1 DEF Knows, EndedCommand

LEMMA EndAble ==
  ASSUME AbleInv, IInv', NEW c \in Commands, NEW how \in {"done", "failed", "killed"},
         End(c, how), UNCHANGED <<entry, device, place>>, torn => torn',
         (Movable /\ ~torn /\ Able(c) /\ how = "failed") => \E d \in Commands \ {c} : Able(d)
  PROVE  AbleInv'
<1>1. /\ cmd'[c] = EndedCommand(how) /\ cmd'[c].pc = how
      /\ \A d \in Commands \ {c} : cmd'[d] = cmd[d]
  BY EndedFields DEF AbleInv, IInv
<1>2. Knows(c)'
  BY <1>1, EndedKnows DEF IInv
<1>3. how # "failed" => Able(c)'
  BY <1>1 DEF Able
<1> QED
  BY <1>1, <1>2, <1>3, Untouched

\* The fields of a command that takes a step without more.
LEMMA StepFields ==
  ASSUME Typed, NEW c \in Commands, NEW to \in Pcs, cmd' = [cmd EXCEPT ![c].pc = to]
  PROVE  /\ cmd'[c].pc = to /\ cmd'[c].exe = cmd[c].exe /\ cmd'[c].parent = cmd[c].parent
         /\ cmd'[c].app = cmd[c].app /\ cmd'[c].dest = cmd[c].dest
         /\ cmd'[c].last = cmd[c].last
         /\ \A d \in Commands \ {c} : cmd'[d] = cmd[d]
BY DEF Typed, Command, Pcs

\* What a command that has just been started executes has a name.
LEMMA StartAble ==
  ASSUME AbleInv, IInv', NEW c \in Commands, Start(c) PROVE AbleInv'
<1>1. PICK p \in Places :
        /\ place[p] # None
        /\ cmd' = [cmd EXCEPT ![c] = [EndedCommand("look") EXCEPT !.exe = place[p].inode]]
  BY DEF Start
<1>2. /\ cmd'[c].pc = "look" /\ cmd'[c].exe = place[p].inode /\ cmd'[c].parent = None
      /\ cmd'[c].dest = None /\ ~cmd'[c].last
      /\ \A d \in Commands \ {c} : cmd'[d] = cmd[d]
  BY <1>1 DEF AbleInv, IInv, Typed, EndedCommand
<1>3. UNCHANGED <<entry, device, place, torn>>
  BY DEF Start
<1>4. Able(c)'
  BY <1>1, <1>2, <1>3 DEF Able, NamesOf
<1>5. Knows(c)'
  BY <1>2 DEF Knows
<1> QED
  BY <1>2, <1>3, <1>4, <1>5, Untouched

\* A copy has one name, which who executes it finds.
LEMMA GetAppFilenameAble ==
  ASSUME AbleInv, IInv', NEW c \in Commands, GetAppFilename(c) PROVE AbleInv'
<1> DEFINE names == NamesOf(cmd[c].exe)
<1>1. PICK app \in IF names = {} THEN {"gone"} ELSE names :
        cmd' = [cmd EXCEPT ![c].pc = "test", ![c].app = app]
  BY DEF GetAppFilename
<1>2. UNCHANGED <<entry, device, place, torn>> /\ cmd[c].pc = "look" /\ Knows(c) /\ Typed /\ Apart
  BY DEF GetAppFilename, AbleInv, IInv
<1>3. /\ cmd'[c].pc = "test" /\ cmd'[c].exe = cmd[c].exe /\ cmd'[c].parent = cmd[c].parent
      /\ cmd'[c].app = app /\ cmd'[c].dest = cmd[c].dest /\ cmd'[c].last = cmd[c].last
      /\ \A d \in Commands \ {c} : cmd'[d] = cmd[d]
  BY <1>1, <1>2 DEF Typed, Command
<1>4. names # {} => app \in Places /\ place[app] # None
  BY <1>1 DEF NamesOf
<1>5. app = "beside" => place.beside # None
  BY <1>1 DEF NamesOf
<1>6. device = "other" /\ IsBeside(cmd[c].exe) => names = {"beside"}
  BY <1>2 DEF NamesOf, IsBeside, Apart, Places
<1>7. device = "other" /\ IsBeside(cmd[c].exe) => app = "beside"
  BY <1>1, <1>6
<1>8. Knows(c)'
  BY <1>2, <1>3, <1>5, <1>7 DEF Knows, IsBeside, Movable
<1>9. Able(c) => Able(c)'
  BY <1>2, <1>3, <1>4 DEF Able
<1> QED
  BY <1>2, <1>3, <1>8, <1>9, Untouched

LEMMA GoOnAble == ASSUME AbleInv, IInv', NEW c \in Commands, GoOn(c) PROVE AbleInv'
<1>1. /\ Typed /\ Knows(c) /\ cmd[c].pc = "test" /\ cmd' = [cmd EXCEPT ![c].pc = "main"]
      /\ UNCHANGED <<entry, device, place, torn>>
  BY DEF AbleInv, IInv, GoOn, Step
<1>2. /\ cmd'[c].pc = "main" /\ cmd'[c].exe = cmd[c].exe /\ cmd'[c].parent = cmd[c].parent
      /\ cmd'[c].dest = cmd[c].dest /\ cmd'[c].last = cmd[c].last
      /\ \A d \in Commands \ {c} : cmd'[d] = cmd[d]
  BY <1>1, StepFields DEF Pcs
<1>3. Knows(c)' /\ Able(c)'
  BY <1>1, <1>2 DEF Knows, Able, IsBeside, Movable
<1> QED
  BY <1>1, <1>2, <1>3, Untouched

\* What raises has been overtaken: the file it found has been moved away.
LEMMA SameFileRaisesAble ==
  ASSUME AbleInv, IInv', NEW c \in Commands, SameFileRaises(c) PROVE AbleInv'
<1>1. ~Able(c) /\ End(c, "failed") /\ UNCHANGED <<entry, device, place, torn>>
  BY DEF SameFileRaises, Able
<1> QED
  BY <1>1, EndAble

\* Only the program that is elsewhere is moved.
LEMMA MoveAble == ASSUME AbleInv, IInv', NEW c \in Commands, Move(c) PROVE AbleInv'
<1>1. /\ Typed /\ Knows(c) /\ cmd[c].pc = "test" /\ cmd' = [cmd EXCEPT ![c].pc = "rename"]
      /\ UNCHANGED <<entry, device, place, torn>> /\ ~InPlace(c)
  BY DEF AbleInv, IInv, Move, Step
<1>2. /\ cmd'[c].pc = "rename" /\ cmd'[c].exe = cmd[c].exe /\ cmd'[c].parent = cmd[c].parent
      /\ cmd'[c].app = cmd[c].app /\ cmd'[c].dest = cmd[c].dest /\ cmd'[c].last = cmd[c].last
      /\ \A d \in Commands \ {c} : cmd'[d] = cmd[d]
  BY <1>1, StepFields DEF Pcs
<1>3. Movable => cmd[c].app # "beside"
  <2> SUFFICES ASSUME Movable, cmd[c].app = "beside" PROVE FALSE
    OBVIOUS
  <2>1. place.beside # None
    BY <1>1 DEF Knows
  <2>2. BinExists(c) /\ SameFile(c)
    BY <2>1 DEF BinExists, SameFile, Movable
  <2> QED
    BY <1>1, <2>2 DEF InPlace
<1>4. Knows(c)'
  BY <1>1, <1>2, <1>3 DEF Knows, IsBeside, Movable
<1>5. Able(c) => Able(c)'
  BY <1>1, <1>2 DEF Able
<1> QED
  BY <1>1, <1>2, <1>4, <1>5, Untouched

\* The rename takes the others their names, and puts the program in place.
LEMMA RenameAble == ASSUME AbleInv, IInv', NEW c \in Commands, Rename(c) PROVE AbleInv'
<1> DEFINE fails == entry = "relative" \/ cmd[c].app = "gone" \/ place[cmd[c].app] = None
<1>1. /\ Typed /\ Knows(c) /\ Apart /\ cmd[c].pc = "rename"
      /\ cmd[c].app \in Places \cup {"gone"} /\ UNCHANGED <<entry, device, torn>>
      /\ SameDevice(c) /\ \A d \in Commands : Knows(d)
  BY DEF AbleInv, IInv, Rename, Named
<1>2. CASE fails
  <2>1. Movable => ~Able(c)
    BY <1>1, <1>2 DEF Movable, Able, Places
  <2>2. End(c, "failed") /\ UNCHANGED place
    BY <1>2 DEF Rename
  <2> QED
    BY <1>1, <2>1, <2>2, EndAble
<1>3. CASE ~fails
  <2>1. /\ cmd' = [cmd EXCEPT ![c].pc = "start"]
        /\ place' = IF cmd[c].app = "beside" THEN place
                    ELSE [outside |-> None, beside |-> place.outside]
    BY <1>3 DEF Rename
  <2>2. /\ cmd'[c].pc = "start" /\ cmd'[c].exe = cmd[c].exe /\ cmd'[c].parent = cmd[c].parent
        /\ cmd'[c].app = cmd[c].app /\ cmd'[c].dest = cmd[c].dest /\ cmd'[c].last = cmd[c].last
        /\ \A d \in Commands \ {c} : cmd'[d] = cmd[d]
    BY <1>1, <2>1, StepFields DEF Pcs
  <2>3. Movable => /\ device = "same" /\ place'.beside # None
    BY <1>1, <1>3, <2>1 DEF Knows, SameDevice, Places
  <2>4. Knows(c)' /\ Able(c)'
    BY <1>1, <2>2, <2>3 DEF Knows, Able, Movable
  <2>5. \A d \in Commands \ {c} : SameButLast(cmd'[d], cmd[d])
    BY <2>2 DEF SameButLast
  <2>6. \A d \in Commands : Knows(d)'
    BY <1>1, <2>3, <2>4, <2>5, OthersKnow
  <2>7. Apart'
    BY <1>1, <2>1 DEF Apart
  <2> QED
    BY <2>4, <2>6, <2>7 DEF AbleInv, SomeAble
<1> QED
  BY <1>2, <1>3

\* Only a source that is not there cannot be opened.
LEMMA OpenSourceAble ==
  ASSUME AbleInv, IInv', NEW c \in Commands, OpenSource(c) PROVE AbleInv'
<1> DEFINE fails == entry = "relative" \/ cmd[c].app = "gone" \/ place.outside = None
<1>1. /\ Typed /\ Knows(c) /\ cmd[c].pc = "rename" /\ UNCHANGED <<entry, device, place, torn>>
      /\ cmd[c].app \in Places \cup {"gone"} /\ ~SameDevice(c)
  BY DEF AbleInv, IInv, OpenSource, Named
<1>2. CASE fails
  <2>1. Movable => ~Able(c)
    BY <1>1, <1>2 DEF Movable, Able, Places, SameDevice
  <2> QED
    BY <1>1, <1>2, <2>1, EndAble DEF OpenSource
<1>3. CASE ~fails
  <2>1. cmd' = [cmd EXCEPT ![c].pc = "truncate"]
    BY <1>3 DEF OpenSource
  <2>2. /\ cmd'[c].pc = "truncate" /\ cmd'[c].exe = cmd[c].exe /\ cmd'[c].parent = cmd[c].parent
        /\ cmd'[c].app = cmd[c].app /\ cmd'[c].dest = cmd[c].dest /\ cmd'[c].last = cmd[c].last
        /\ \A d \in Commands \ {c} : cmd'[d] = cmd[d]
    BY <1>1, <2>1, StepFields DEF Pcs
  <2>3. Knows(c)' /\ Able(c)'
    BY <1>1, <2>2 DEF Knows, Able, IsBeside, Movable
  <2> QED
    BY <1>1, <2>2, <2>3, Untouched
<1> QED
  BY <1>2, <1>3

\* The copy that cannot be opened is executed by a command that goes on: it
\* was started from there.
LEMMA OpenDestAble ==
  ASSUME AbleInv, IInv', NEW c \in Commands, OpenDest(c) PROVE AbleInv'
<1>1. /\ Typed /\ Knows(c) /\ Apart /\ cmd[c].pc = "truncate" /\ UNCHANGED <<entry, device, torn>>
      /\ Moving(c) /\ device # "same" /\ \A d \in Commands : Knows(d)
  BY DEF AbleInv, IInv, OpenDest, Moving, RenameMoves
<1>2. place.beside = None => DestOf \in Free
  <2>1. place.beside = None => Free # {}
    BY DEF OpenDest
  <2> QED
    BY <2>1 DEF DestOf, NewInode
<1>3. DestOf \in Inodes /\ DestOf # None
  BY <1>1, <1>2, InstallAssumption DEF Typed, File, DestOf, Free
<1>4. CASE Executed(DestOf)
  <2>1. place.beside # None /\ DestOf = place.beside.inode
    BY <1>2, <1>4 DEF Free, DestOf
  <2>2. PICK d \in Commands : DestOf \in {cmd[d].exe, cmd[d].parent}
    BY <1>4 DEF Executed
  <2>3. ASSUME Movable PROVE d # c /\ Able(d)
    <3>1. device = "other" /\ Knows(d)
      BY <1>1, <2>3 DEF Movable, Typed
    <3>2. IsBeside(cmd[d].exe)
      BY <1>3, <2>1, <2>2, <2>3, <3>1 DEF Knows, IsBeside
    <3>3. cmd[d].pc \in {"look", "test", "main"} /\ (cmd[d].pc = "test" => cmd[d].app = "beside")
      BY <2>3, <3>1, <3>2 DEF Knows
    <3>4. "beside" \in NamesOf(cmd[d].exe)
      BY <3>2 DEF IsBeside, NamesOf, Places
    <3> QED
      BY <1>1, <2>1, <3>3, <3>4 DEF Able, Places
  <2> QED
    BY <1>1, <1>4, <2>3, EndAble DEF OpenDest, DestOf
<1>5. CASE ~Executed(DestOf)
  <2>1. /\ place' = [place EXCEPT !.beside = Truncated]
        /\ cmd' = [d \in Commands |->
                     IF d = c THEN [cmd[c] EXCEPT !.pc = "write", !.dest = DestOf, !.last = TRUE]
                     ELSE IF cmd[d].dest = DestOf THEN [cmd[d] EXCEPT !.last = FALSE]
                     ELSE cmd[d]]
    BY <1>5 DEF OpenDest, DestOf, Truncated
  <2>2. /\ cmd'[c].pc = "write" /\ cmd'[c].exe = cmd[c].exe /\ cmd'[c].parent = cmd[c].parent
        /\ cmd'[c].dest = DestOf
    BY <1>1, <2>1 DEF Typed, Command
  <2>3. ASSUME NEW d \in Commands \ {c} PROVE SameButLast(cmd'[d], cmd[d])
    <3>1. cmd'[d] = cmd[d] \/ cmd'[d] = [cmd[d] EXCEPT !.last = FALSE]
      BY <2>1
    <3> QED
      BY <1>1, <3>1 DEF SameButLast, Typed, Command
  <2>4. /\ place'.outside = place.outside /\ place'.beside = Truncated
        /\ Truncated.inode = DestOf /\ Truncated \in File /\ Truncated # None
    <3>1. Truncated \in File /\ Truncated.inode = DestOf
      BY <1>1, <1>3 DEF Typed, Truncated, DestOf, File
    <3> QED
      BY <1>1, <2>1, <3>1, InstallAssumption DEF Typed
  <2>5. ASSUME NEW d \in Commands PROVE IsBeside(cmd[d].exe)' <=> IsBeside(cmd[d].exe)
    <3>1. cmd'[d].exe = cmd[d].exe
      BY <2>2, <2>3 DEF SameButLast
    <3>2. cmd[d].exe # DestOf
      BY <1>5 DEF Executed
    <3> QED
      BY <2>4, <3>1, <3>2 DEF IsBeside, DestOf
  <2>6. Knows(c)'
    BY <1>1, <1>3, <2>2, <2>4, <2>5 DEF Knows, Movable
  <2>7. \A d \in Commands : Knows(d)'
    BY <1>1, <2>3, <2>4, <2>5, <2>6, OthersKnow
  <2>8. Apart'
    <3>1. place.outside # None => place.outside.inode # DestOf \/ device # "other"
      BY <1>1, <1>2 DEF Apart, DestOf, Free, NamesOf, Places
    <3> QED
      BY <1>1, <2>4, <3>1 DEF Apart
  <2>9. SomeAble'
    BY <2>2 DEF SomeAble, Able
  <2> QED
    BY <2>7, <2>8, <2>9 DEF AbleInv
<1> QED
  BY <1>4, <1>5

\* A step of the copy after which the files have the names that they had.
LEMMA CopyAble ==
  ASSUME AbleInv, IInv', NEW c \in Commands, UNCHANGED <<entry, device, torn>>,
         Moving(c), cmd'[c].pc \in {"chmod", "remove"},
         cmd'[c].exe = cmd[c].exe, cmd'[c].parent = cmd[c].parent,
         cmd'[c].dest = None, ~cmd'[c].last,
         \A d \in Commands \ {c} : cmd'[d] = cmd[d],
         place'.outside = place.outside, place'.beside = None <=> place.beside = None,
         place.beside # None => place'.beside.inode = place.beside.inode
  PROVE  AbleInv'
<1>1. \A d \in Commands \ {c} : SameButLast(cmd'[d], cmd[d])
  BY DEF SameButLast
<1>2. \A d \in Commands : IsBeside(cmd[d].exe)' <=> IsBeside(cmd[d].exe)
  BY DEF IsBeside
<1>3. Knows(c)
  BY DEF AbleInv
<1>4. Knows(c)'
  BY <1>2, <1>3 DEF Knows, Movable, Moving
<1>5. \A d \in Commands : Knows(d)'
  BY <1>1, <1>2, <1>4, OthersKnow
<1>6. SomeAble'
  BY DEF SomeAble, Able
<1>7. Apart'
  BY DEF AbleInv, Apart
<1> QED
  BY <1>5, <1>6, <1>7 DEF AbleInv

LEMMA WriteAble == ASSUME AbleInv, IInv', NEW c \in Commands, Write(c) PROVE AbleInv'
<1>1. /\ Typed /\ cmd[c].pc = "write" /\ Moving(c) /\ UNCHANGED <<entry, device, torn>>
      /\ cmd' = [cmd EXCEPT ![c].pc = "chmod", ![c].dest = None, ![c].last = FALSE]
  BY DEF AbleInv, IInv, Write, Moving
<1>2. /\ cmd'[c].pc = "chmod" /\ cmd'[c].exe = cmd[c].exe /\ cmd'[c].parent = cmd[c].parent
      /\ cmd'[c].dest = None /\ ~cmd'[c].last
      /\ \A d \in Commands \ {c} : cmd'[d] = cmd[d]
  BY <1>1 DEF Typed, Command
<1>3. /\ place'.outside = place.outside
      /\ place'.beside = None <=> place.beside = None
      /\ place.beside # None => place'.beside.inode = place.beside.inode
  <2>1. CASE place' = place
    BY <2>1
  <2>2. CASE place.beside # None /\ place' = [place EXCEPT !.beside.whole = TRUE]
    BY <1>1, <2>2, InstallAssumption DEF Typed, File
  <2> QED
    BY <2>1, <2>2 DEF Write, NamesOf
<1> QED
  BY <1>1, <1>2, <1>3, CopyAble

LEMMA SetFilePermissionsAble ==
  ASSUME AbleInv, IInv', NEW c \in Commands, SetFilePermissions(c) PROVE AbleInv'
<1>1. /\ Typed /\ Knows(c) /\ cmd[c].pc = "chmod" /\ Moving(c)
      /\ UNCHANGED <<entry, device, torn>> /\ cmd' = [cmd EXCEPT ![c].pc = "remove"]
  BY DEF AbleInv, IInv, SetFilePermissions, Step, Moving
<1>2. /\ cmd'[c].pc = "remove" /\ cmd'[c].exe = cmd[c].exe /\ cmd'[c].parent = cmd[c].parent
      /\ cmd'[c].dest = cmd[c].dest /\ cmd'[c].last = cmd[c].last
      /\ \A d \in Commands \ {c} : cmd'[d] = cmd[d]
  BY <1>1, StepFields DEF Pcs
<1>3. cmd[c].dest = None /\ ~cmd[c].last
  BY <1>1 DEF Knows, Typed, Command
<1>4. /\ place'.outside = place.outside
      /\ place'.beside = None <=> place.beside = None
      /\ place.beside # None => place'.beside.inode = place.beside.inode
  <2>1. CASE place' = place
    BY <2>1
  <2>2. CASE /\ place.outside # None /\ place.beside # None
             /\ place' = [place EXCEPT !.beside.exec = place.outside.exec]
    BY <1>1, <2>2, InstallAssumption DEF Typed, File
  <2> QED
    BY <2>1, <2>2 DEF SetFilePermissions
<1> QED
  BY <1>1, <1>2, <1>3, <1>4, CopyAble

\* The source goes, and with it the others' names; this command starts the
\* copy, which is there.
LEMMA RemoveSourceAble ==
  ASSUME AbleInv, IInv', NEW c \in Commands, RemoveSource(c) PROVE AbleInv'
<1>1. /\ Typed /\ Knows(c) /\ cmd[c].pc = "remove" /\ Moving(c) /\ device # "same"
      /\ UNCHANGED <<entry, device, torn>> /\ \A d \in Commands : Knows(d)
  BY DEF AbleInv, IInv, RemoveSource, Moving, RenameMoves
<1>2. CASE device = "readonly"
  <2>1. End(c, "failed") /\ place' = [place EXCEPT !.beside = None]
    BY <1>2 DEF RemoveSource
  <2>2. /\ cmd'[c] = EndedCommand("failed")
        /\ \A d \in Commands \ {c} : cmd'[d] = cmd[d]
    BY <1>1, <2>1, EndedFields
  <2>3. Knows(c)'
    BY <2>2, EndedKnows DEF IInv
  <2>4. \A d \in Commands : Knows(d)'
    BY <1>1, <1>2, <2>2, <2>3, OthersKnow DEF SameButLast, Movable
  <2>5. SomeAble' /\ Apart'
    BY <1>1, <1>2 DEF SomeAble, Movable, Apart
  <2> QED
    BY <2>4, <2>5 DEF AbleInv
<1>3. CASE device # "readonly"
  <2>1. place' = [place EXCEPT !.outside = None] /\ cmd' = [cmd EXCEPT ![c].pc = "start"]
    BY <1>3 DEF RemoveSource
  <2>2. /\ cmd'[c].pc = "start" /\ cmd'[c].exe = cmd[c].exe /\ cmd'[c].parent = cmd[c].parent
        /\ cmd'[c].dest = cmd[c].dest /\ cmd'[c].last = cmd[c].last
        /\ \A d \in Commands \ {c} : cmd'[d] = cmd[d]
    BY <1>1, <2>1, StepFields DEF Pcs
  <2>3. place'.outside = None /\ place'.beside = place.beside
    BY <1>1, <2>1 DEF Typed
  <2>4. device = "other" /\ place.beside # None
    BY <1>1, <1>3 DEF AbleInv, IInv, Typed, Copies
  <2>5. Knows(c)'
    BY <1>1, <2>2, <2>3, <2>4 DEF Knows, IsBeside, Movable
  <2>6. \A d \in Commands \ {c} : SameButLast(cmd'[d], cmd[d])
    BY <2>2 DEF SameButLast
  <2>7. \A d \in Commands : Knows(d)'
    BY <1>1, <2>2, <2>3, <2>5, <2>6, OthersKnow DEF IsBeside
  <2>8. SomeAble' /\ Apart'
    BY <2>2, <2>3 DEF SomeAble, Able, Apart
  <2> QED
    BY <2>7, <2>8 DEF AbleInv
<1> QED
  BY <1>2, <1>3

\* The copy that cannot be started is being written, by one that goes on.
LEMMA StartProcessAble ==
  ASSUME AbleInv, IInv', NEW c \in Commands, StartProcess(c) PROVE AbleInv'
<1> DEFINE fails == \/ place.beside = None \/ OpenForWriting(place.beside.inode)
                    \/ ~place.beside.whole \/ ~place.beside.exec
<1>1. /\ Typed /\ Knows(c) /\ cmd[c].pc = "start" /\ UNCHANGED <<entry, device, place, torn>>
      /\ \A d \in Commands : Knows(d)
  BY DEF AbleInv, IInv, StartProcess
<1>2. CASE fails
  <2>1. ASSUME Movable, ~torn PROVE \E d \in Commands \ {c} : Able(d)
    <3>1. place.beside # None /\ (device = "other" => place.outside = None)
      BY <1>1, <2>1 DEF Knows
    <3>2. ASSUME NEW d \in Commands, cmd[d].pc = "write" PROVE d # c /\ Able(d)
      BY <1>1, <3>2 DEF Able
    <3>3. CASE OpenForWriting(place.beside.inode)
      <4>1. PICK d \in Commands : cmd[d].dest = place.beside.inode
        BY <3>3 DEF OpenForWriting
      <4>2. cmd[d].dest # None
        BY <1>1, <3>1, <4>1, InstallAssumption DEF Typed, File
      <4> QED
        BY <1>1, <3>2, <4>2 DEF Knows
    <3>4. CASE ~OpenForWriting(place.beside.inode)
      <4>1. ~place.beside.whole \/ ~place.beside.exec
        BY <1>2, <3>1, <3>4
      <4>2. device = "other" /\ place.beside.exec
        BY <1>1, <2>1, <3>1, <4>1
        DEF AbleInv, IInv, RenameMoves, Works, Copies, Movable, Typed
      <4>3. \E d \in Commands : cmd[d].pc = "write"
        BY <2>1, <3>1, <4>1, <4>2 DEF AbleInv, IInv, Written
      <4> QED
        BY <3>2, <4>3
    <3> QED
      BY <3>3, <3>4
  <2> QED
    BY <1>1, <1>2, <2>1, EndAble DEF StartProcess
<1>3. CASE ~fails
  <2>1. cmd' = [cmd EXCEPT ![c] = [EndedCommand("look") EXCEPT !.exe = place.beside.inode,
                                                       !.parent = cmd[c].exe]]
    BY <1>3 DEF StartProcess
  <2>2. /\ cmd'[c].pc = "look" /\ cmd'[c].exe = place.beside.inode
        /\ cmd'[c].dest = None /\ ~cmd'[c].last
        /\ \A d \in Commands \ {c} : cmd'[d] = cmd[d]
    BY <1>1, <2>1 DEF Typed, EndedCommand
  <2>3. IsBeside(cmd[c].exe)'
    BY <1>1, <1>3, <2>2 DEF IsBeside
  <2>4. Knows(c)'
    BY <2>2, <2>3 DEF Knows
  <2>5. Able(c)'
    BY <2>2, <2>3 DEF Able, NamesOf, IsBeside, Places
  <2> QED
    BY <1>1, <2>2, <2>4, <2>5, Untouched
<1> QED
  BY <1>2, <1>3

LEMMA RunMainAble == ASSUME AbleInv, IInv', NEW c \in Commands, RunMain(c) PROVE AbleInv'
BY EndAble DEF RunMain

LEMMA KillAble == ASSUME AbleInv, IInv', NEW c \in Commands, KillCommand(c) PROVE AbleInv'
BY EndAble DEF KillCommand

\* Where no command has run since a program was built, each is able.
LEMMA NoneRanAble ==
  ASSUME IInv', cmd' = [c \in Commands |-> EndedCommand("none")], Apart'
  PROVE  AbleInv'
<1>1. \A c \in Commands : cmd'[c] = EndedCommand("none")
  OBVIOUS
<1>2. \A c \in Commands : Knows(c)'
  BY <1>1, EndedKnows DEF IInv
<1>3. \A c \in Commands : Able(c)'
  BY <1>1 DEF Able, EndedCommand
<1> QED
  BY <1>2, <1>3, InstallAssumption DEF AbleInv, SomeAble

LEMMA BuildAble == ASSUME AbleInv, IInv', Build PROVE AbleInv'
<1>1. NewInode \in Free
  BY DEF Build, NewInode
<1>2. /\ place'.beside = place.beside
      /\ place'.outside = WholeProgram(NewInode)
  BY DEF Build, AbleInv, IInv, Typed
<1>3. place.beside # None => place.beside.inode # NewInode
  BY <1>1 DEF Free, NamesOf, Places
<1>4. Apart'
  BY <1>2, <1>3 DEF Apart, WholeProgram
<1> QED
  BY <1>4, NoneRanAble DEF Build

LEMMA InitAble == InstallInit => AbleInv
<1> SUFFICES ASSUME InstallInit PROVE AbleInv
  OBVIOUS
<1>1. IInv
  BY InitHolds
<1>2. \A c \in Commands : cmd[c] = EndedCommand("none")
  BY DEF InstallInit
<1>3. \A c \in Commands : Able(c)
  BY <1>2 DEF Able, EndedCommand
<1>4. \A c \in Commands : Knows(c)
  BY <1>1, <1>2, InstallAssumption DEF Knows, EndedCommand, IInv, Typed, IsBeside, File
<1>5. Apart
  <2> DEFINE i == CHOOSE i \in Inodes : TRUE
             j == CHOOSE j \in Inodes : j # i
  <2>1. i # j
    <3>1. \E a \in Inodes : a # i
      BY InstallAssumption
    <3> QED
      BY <3>1
  <2>2. PICK k \in {i, j} :
          /\ k = i => device = "same"
          /\ place \in [outside : {WholeProgram(i)}, beside : {None, WholeProgram(k)}]
    BY DEF InstallInit
  <2> HIDE DEF i, j
  <2> QED
    BY <2>1, <2>2 DEF Apart, WholeProgram
<1> QED
  BY <1>1, <1>3, <1>4, <1>5, InstallAssumption DEF AbleInv, SomeAble

LEMMA NextAble == ASSUME AbleInv, [InstallNext]_installVars PROVE AbleInv'
<1>1. IInv'
  BY NextHolds DEF AbleInv
<1>2. ASSUME NEW c \in Commands, Start(c) \/ Proceed(c) \/ KillCommand(c) PROVE AbleInv'
  BY <1>1, <1>2, StartAble, GetAppFilenameAble, GoOnAble, SameFileRaisesAble, MoveAble,
     RenameAble, OpenSourceAble, OpenDestAble, WriteAble, SetFilePermissionsAble,
     RemoveSourceAble, StartProcessAble, RunMainAble, KillAble DEF Proceed
<1>3. CASE Build
  BY <1>1, <1>3, BuildAble
<1>4. CASE UNCHANGED installVars
  <2>1. \A c \in Commands : Knows(c)' /\ (Able(c) => Able(c)')
    BY <1>4 DEF installVars, AbleInv, Knows, Able, NamesOf, IsBeside, Movable
  <2> QED
    BY <1>1, <1>4, <2>1 DEF installVars, AbleInv, SomeAble, Apart, Movable
<1> QED
  BY <1>2, <1>3, <1>4 DEF InstallNext

THEOREM AbleAlways == InstallSpec => []AbleInv
<1> QED
  BY InitAble, NextAble, PTL DEF InstallSpec

\* Every variable keeps its type, and a copy is open only while it is written.
THEOREM InstallTypeAlways == InstallSpec => []InstallTypeOK
<1>1. AbleInv => InstallTypeOK
  BY DEF AbleInv, IInv, Typed, Knows, InstallTypeOK
<1> QED
  BY <1>1, AbleAlways, PTL

(***************************************************************************)
(* Any number of commands that get into each other's way, where the        *)
(* program can be moved, never all fail: sameFile, moveFile and            *)
(* startProcess raise in one only because of what another has done, or is  *)
(* doing, that goes on.                                                    *)
(***************************************************************************)
THEOREM OneIsInstalledAlways == InstallSpec => []OneIsInstalled
<1>1. AbleInv => OneIsInstalled
  BY DEF AbleInv, SomeAble, Able, Movable, OneIsInstalled
<1> QED
  BY <1>1, AbleAlways, PTL

-----------------------------------------------------------------------------
(***************************************************************************)
(* Runs that share the distribution.  The argument is by rely and          *)
(* guarantee: RunInv says of one run what it knows of the shared           *)
(* directories, Interferes bounds what a step of another run may do to     *)
(* them, every step of a run stays within Interferes, and RunInv survives  *)
(* whatever does.  That the runs do not all fail is about all of them at   *)
(* once: one that is furthest through its deque is fit to go on.           *)
(***************************************************************************)
(* What a run p knows of the listing g and the directories t of dist/. *)

\* The update loop has been reached.
Merging == {"update", "sweep", "clear", "empty", "rmdir", "stash"}

\* A directory is being stashed, and its copy in the attic removed.
Hiding == {"clear", "empty", "rmdir", "stash"}
Losing == Hiding \ {"clear"}

\* The update loop has brought modules[k] to its commit.
Handled(p, k) == k < p.i \/ (p.pc # "update" /\ k = p.i)

\* modules lists the wanted submodules in ascending order.
ListsWanted(g, p) ==
  p.pc \in Steps =>
    /\ \A n \in Names :
         n \in Wanted(g) <=> \E k \in DOMAIN p.modules : p.modules[k].name = n
    /\ \A j, k \in DOMAIN p.modules :
         j < k => p.modules[j].name < p.modules[k].name

InLoop(p) == p.pc \in {"restore", "sweep"} => p.i \in DOMAIN p.modules

\* A module that was up to date when it was listed still is.
UpToDateStays(g, t, p) ==
  p.pc \in Steps =>
    \A k \in DOMAIN p.modules :
      p.modules[k].status = "UpToDate" =>
        t[p.modules[k].name] = g[p.modules[k].name]

HandledMatch(g, t, p) ==
  p.pc \in Merging =>
    \A k \in DOMAIN p.modules :
      Handled(p, k) => t[p.modules[k].name] = g[p.modules[k].name]

\* exposed is ascending, and no wanted module in it is behind the loop.
WantedAhead(g, p) ==
  p.pc \in Merging =>
    /\ \A j, k \in DOMAIN p.exposed : j < k => p.exposed[j] < p.exposed[k]
    /\ \A j \in DOMAIN p.exposed :
         p.exposed[j] \in Wanted(g) =>
           \E k \in DOMAIN p.modules :
             k >= p.i /\ p.modules[k].name = p.exposed[j]

\* Every unwanted directory that is left is still to be looked at.
Accounted(g, t, p) ==
  p.pc \in Merging =>
    \A n \in Dirs(t) \ Wanted(g) :
      \E j \in DOMAIN p.exposed : p.exposed[j] = n

MovesUnwanted(g, p) ==
  p.pc \in Hiding => p.exposed # <<>> /\ Head(p.exposed) \notin Wanted(g)

\* A module is lost to a run that is about to move a directory of that name
\* which is gone, or to one that has not ended well.
LossEnds(t, p) ==
  /\ p.pc \in Losing => \A n \in p.lost : n = Head(p.exposed) /\ t[n] = Absent
  /\ p.pc \in {"none", "ok"} \cup (Steps \ Losing) => p.lost = {}

Matches(g, t) ==
  /\ Dirs(t) = Wanted(g)
  /\ \A n \in Wanted(g) : t[n] = g[n]

OkMatches(g, t, p) == p.pc = "ok" => Matches(g, t)

RunInv(g, t, p) ==
  /\ ListsWanted(g, p)
  /\ InLoop(p)
  /\ UpToDateStays(g, t, p)
  /\ HandledMatch(g, t, p)
  /\ WantedAhead(g, p)
  /\ Accounted(g, t, p)
  /\ MovesUnwanted(g, p)
  /\ LossEnds(t, p)
  /\ OkMatches(g, t, p)

\* An empty directory is a listed submodule's; a Plain one has no populated
\* copy in the attic; a module parseModules cannot see is never populated.
CopiesOf(g, t, a) ==
  \A n \in Names :
    /\ t[n] = Bare => n \in Listed(g)
    /\ t[n] = Plain => a[n] \notin Shas
    /\ n \in ShortNames => t[n] \notin Shas /\ a[n] \notin Shas

Inv ==
  /\ TypeOK
  /\ CopiesOf(gitlink, tree, attic)
  /\ \A r \in Runs : RunInv(gitlink, tree, prog[r])

\* What a step of another run may do to dist/: wanted modules at their listed
\* commits stay, unwanted directories can only disappear.
Interferes(g, t, u) ==
  /\ \A n \in Wanted(g) : t[n] = g[n] => u[n] = g[n]
  /\ \A n \in Names \ Wanted(g) : u[n] \in {t[n], Absent}

-----------------------------------------------------------------------------
(* Lists and records. *)

\* What parseModules returns: the wanted names in strictly ascending order,
\* each with the status git gives it now.
LEMMA ParseModulesSeq ==
  ASSUME NEW ms \in ParseModules, gitlink \in Gitlinks
  PROVE  /\ ms \in Seq(Module)
         /\ \A n \in Names :
              n \in Wanted(gitlink) <=> \E k \in DOMAIN ms : ms[k].name = n
         /\ \A j, k \in DOMAIN ms : j < k => ms[j].name < ms[k].name
         /\ \A k \in DOMAIN ms :
              ms[k].status = "UpToDate" =>
                tree[ms[k].name] = gitlink[ms[k].name]
<1> DEFINE W == Wanted(gitlink)
<1>1. W \in SUBSET Names
  BY DEF Wanted, Listed
<1>2. PICK s \in Ascending(W) :
        ms = [k \in DOMAIN s |->
                [name |-> s[k], status |-> StatusOf(gitlink, tree, s[k])]]
  BY DEF ParseModules
<1> HIDE DEF W
<1>3. /\ s \in Seq(W)
      /\ DOMAIN s = 1..Len(s)
      /\ \A n \in W : \E k \in DOMAIN s : s[k] = n
      /\ \A k \in DOMAIN s : s[k] \in W
      /\ \A j, k \in DOMAIN s : j < k => s[j] < s[k]
  BY <1>1, AscendingSeq
<1>4. /\ DOMAIN ms = DOMAIN s
      /\ \A k \in DOMAIN s :
           /\ ms[k].name = s[k]
           /\ ms[k].status = StatusOf(gitlink, tree, s[k])
           /\ ms[k] \in Module
  <2>1. \A n \in Names : StatusOf(gitlink, tree, n) \in Statuses
    BY DEF StatusOf, Statuses
  <2> QED
    BY <1>1, <1>2, <1>3, <2>1 DEF Module
<1>5. Len(s) \in Nat
  BY <1>3
<1>6. ms \in Seq(Module)
  BY <1>2, <1>3, <1>4, <1>5
<1>7. \A k \in DOMAIN ms :
        ms[k].status = "UpToDate" => tree[ms[k].name] = gitlink[ms[k].name]
  BY <1>4 DEF StatusOf
<1>8. \A n \in Names : n \in W <=> \E k \in DOMAIN ms : ms[k].name = n
  BY <1>1, <1>3, <1>4
<1>9. \A j, k \in DOMAIN ms : j < k => ms[j].name < ms[k].name
  BY <1>3, <1>4
<1> QED
  BY <1>6, <1>7, <1>8, <1>9 DEF W

LEMMA EmptyLists == <<>> \in Seq(Names) /\ <<>> \in Seq(Module)
  OBVIOUS

\* The types of a run's variables, and where its loops are.
LEMMA ProgramFields ==
  ASSUME NEW p \in Program
  PROVE  /\ p.pc \in Endings \cup Steps
         /\ p.modules \in Seq(Module)
         /\ DOMAIN p.modules = 1..Len(p.modules)
         /\ Len(p.modules) \in Nat
         /\ \A k \in DOMAIN p.modules : p.modules[k].name \in Names
         /\ p.i \in Nat \ {0}
         /\ p.dirty \in BOOLEAN
         /\ p.exposed \in Seq(Names)
         /\ p.lost \in SUBSET Names
<1>1. /\ p.pc \in Endings \cup Steps
      /\ p.modules \in Seq(Module)
      /\ p.i \in Nat \ {0}
      /\ p.dirty \in BOOLEAN
      /\ p.exposed \in Seq(Names)
      /\ p.lost \in SUBSET Names
  BY DEF Program
<1>2. DOMAIN p.modules = 1..Len(p.modules) /\ Len(p.modules) \in Nat
  BY <1>1
<1>3. \A k \in DOMAIN p.modules : p.modules[k] \in Module
  BY <1>1
<1>4. \A k \in DOMAIN p.modules : p.modules[k].name \in Names
  BY <1>3 DEF Module
<1> QED
  BY <1>1, <1>2, <1>4

\* The head and the tail of a list of directories.
LEMMA HeadAndTail ==
  ASSUME NEW s \in Seq(Names), s # <<>>
  PROVE  /\ Head(s) \in Names
         /\ Head(s) = s[1]
         /\ 1 \in DOMAIN s
         /\ Tail(s) \in Seq(Names)
         /\ DOMAIN Tail(s) = 1..(Len(s) - 1)
         /\ DOMAIN s = 1..Len(s)
         /\ Len(s) \in Nat \ {0}
         /\ \A k \in 1..(Len(s) - 1) : Tail(s)[k] = s[k + 1]
  OBVIOUS

\* The tail of an ascending list is ascending, and above the head.
LEMMA TailAscends ==
  ASSUME NEW s \in Seq(Names), s # <<>>,
         \A j, k \in DOMAIN s : j < k => s[j] < s[k]
  PROVE  /\ \A j \in DOMAIN Tail(s) :
              /\ j + 1 \in DOMAIN s
              /\ Tail(s)[j] = s[j + 1]
              /\ Head(s) < Tail(s)[j]
         /\ \A j, k \in DOMAIN Tail(s) : j < k => Tail(s)[j] < Tail(s)[k]
<1>1. \A j \in DOMAIN Tail(s) :
        j \in Nat \ {0} /\ j + 1 \in DOMAIN s /\ Tail(s)[j] = s[j + 1]
  BY HeadAndTail
<1>2. \A j \in DOMAIN Tail(s) : Head(s) < Tail(s)[j]
  <2>1. \A j \in DOMAIN Tail(s) : 1 < j + 1
    BY <1>1
  <2> QED
    BY <1>1, <2>1, HeadAndTail
<1>3. ASSUME NEW j \in DOMAIN Tail(s), NEW k \in DOMAIN Tail(s), j < k
      PROVE  Tail(s)[j] < Tail(s)[k]
  <2>1. j + 1 < k + 1
    BY <1>1, <1>3
  <2> QED
    BY <1>1, <2>1
<1> QED
  BY <1>1, <1>2, <1>3

\* A run that has ended is a program.
LEMMA EndedProgram ==
  ASSUME NEW how \in Endings \cup Steps, NEW L \in SUBSET Names
  PROVE  Ended(how, L) \in Program
<1>1. <<>> \in Seq(Names) /\ <<>> \in Seq(Module) /\ FALSE \in BOOLEAN
  BY EmptyLists, Zenon
<1> QED
  BY <1>1 DEF Ended, Program

\* A run that ends otherwise than well knows nothing of the directories.
LEMMA EndedInv ==
  ASSUME NEW how \in {"failed", "raised", "killed"}, NEW L, NEW g, NEW t
  PROVE  RunInv(g, t, Ended(how, L))
<1> DEFINE p == Ended(how, L)
<1>1. p.pc = how
  BY DEF Ended
<1>2. p.pc \notin Steps /\ p.pc # "none" /\ p.pc # "ok"
  BY <1>1 DEF Steps
<1>3. /\ p.pc \notin Merging
      /\ p.pc \notin Hiding
      /\ p.pc \notin Losing
      /\ p.pc \notin {"restore", "sweep"}
  BY <1>1 DEF Merging, Hiding, Losing
<1>4. p.pc \notin {"none", "ok"} \cup (Steps \ Losing)
  BY <1>2
<1> HIDE DEF p
<1>5. RunInv(g, t, p)
  BY <1>2, <1>3, <1>4, Zenon
     DEF RunInv, ListsWanted, InLoop, UpToDateStays, HandledMatch,
         WantedAhead, Accounted, MovesUnwanted, LossEnds, OkMatches
<1> QED
  BY <1>5 DEF p

\* What another run's step leaves true of a run.
LEMMA Stable ==
  ASSUME NEW g \in Gitlinks,
         NEW t \in [Names -> Content], NEW u \in [Names -> Content],
         NEW p \in Program, RunInv(g, t, p), Interferes(g, t, u)
  PROVE  RunInv(g, u, p)
<1>1. \A k \in DOMAIN p.modules : p.modules[k].name \in Names
  BY ProgramFields
<1>2. p.pc \in Steps =>
        \A k \in DOMAIN p.modules :
          t[p.modules[k].name] = g[p.modules[k].name] =>
            u[p.modules[k].name] = g[p.modules[k].name]
  BY <1>1 DEF RunInv, ListsWanted, Interferes
<1>3. Merging \subseteq Steps /\ Losing \subseteq Hiding /\ Hiding \subseteq Steps
  BY DEF Merging, Hiding, Losing, Steps
<1>4. UpToDateStays(g, u, p)
  BY <1>2 DEF RunInv, UpToDateStays
<1>5. HandledMatch(g, u, p)
  BY <1>2, <1>3 DEF RunInv, HandledMatch
<1>6. Dirs(u) \ Wanted(g) \subseteq Dirs(t) \ Wanted(g)
  BY DEF Interferes, Dirs
<1>7. Accounted(g, u, p)
  BY <1>6 DEF RunInv, Accounted
<1>8. LossEnds(u, p)
  <2>1. CASE p.pc \in Losing
    <3>1. \A n \in p.lost : n = Head(p.exposed) /\ t[n] = Absent
      BY <2>1 DEF RunInv, LossEnds
    <3>2. Head(p.exposed) \notin Wanted(g)
      BY <1>3, <2>1 DEF RunInv, MovesUnwanted
    <3>3. \A n \in p.lost : n \in Names \ Wanted(g)
      BY <3>1, <3>2, ProgramFields
    <3>4. \A n \in p.lost : u[n] = Absent
      BY <3>1, <3>3 DEF Interferes
    <3> QED
      BY <3>1, <3>4 DEF RunInv, LossEnds
  <2>2. CASE p.pc \notin Losing
    BY <2>2 DEF RunInv, LossEnds
  <2> QED
    BY <2>1, <2>2
<1>9. OkMatches(g, u, p)
  <2>1. SUFFICES ASSUME p.pc = "ok" PROVE Matches(g, u)
    BY DEF OkMatches
  <2>2. Dirs(t) = Wanted(g) /\ \A n \in Wanted(g) : t[n] = g[n]
    BY <2>1 DEF RunInv, OkMatches, Matches
  <2>3. \A n \in Wanted(g) : u[n] = g[n]
    BY <2>2 DEF Interferes
  <2>4. \A n \in Wanted(g) : n \in Names /\ g[n] # Absent
    BY DEF Wanted, Listed
  <2>5. Dirs(u) = Wanted(g)
    BY <1>6, <2>2, <2>3, <2>4 DEF Dirs
  <2> QED
    BY <2>3, <2>5 DEF Matches
<1> QED
  BY <1>4, <1>5, <1>7, <1>8, <1>9 DEF RunInv

-----------------------------------------------------------------------------
(* The steps of a run. *)

\* A step of one run keeps the invariant if it stays within Interferes and
\* leaves the run itself with what it must know.
LEMMA Frame ==
  ASSUME Inv, NEW r \in Runs, NEW v \in Program,
         prog' = [prog EXCEPT ![r] = v],
         UNCHANGED gitlink,
         tree' \in [Names -> Content],
         attic' \in [Names -> Content],
         Interferes(gitlink, tree, tree'),
         CopiesOf(gitlink, tree', attic'),
         RunInv(gitlink, tree', v)
  PROVE  Inv'
<1>1. TypeOK'
  BY DEF Inv, TypeOK
<1>2. ASSUME NEW q \in Runs
      PROVE  RunInv(gitlink, tree', prog'[q])
  <2>1. CASE q = r
    BY <2>1 DEF Inv, TypeOK
  <2>2. CASE q # r
    <3>1. /\ gitlink \in Gitlinks
          /\ tree \in [Names -> Content]
          /\ prog[q] \in Program
          /\ prog'[q] = prog[q]
          /\ RunInv(gitlink, tree, prog[q])
      BY <2>2 DEF Inv, TypeOK
    <3>2. RunInv(gitlink, tree', prog[q])
      BY <3>1, Stable
    <3> QED
      BY <3>1, <3>2
  <2> QED
    BY <2>1, <2>2
<1> QED
  BY <1>1, <1>2 DEF Inv

\* A step that changes no directory stays within Interferes.
LEMMA NoInterference ==
  ASSUME NEW g, NEW t
  PROVE  Interferes(g, t, t)
  BY DEF Interferes

\* The step with which a run fails, raises or is killed.
LEMMA EndRunInv ==
  ASSUME Inv, NEW r \in Runs, NEW how \in {"failed", "raised", "killed"},
         EndRun(r, how),
         UNCHANGED gitlink,
         tree' \in [Names -> Content],
         attic' \in [Names -> Content],
         Interferes(gitlink, tree, tree'),
         CopiesOf(gitlink, tree', attic')
  PROVE  Inv'
<1> DEFINE v == Ended(how, prog[r].lost)
<1>1. v \in Program
  <2>1. prog[r].lost \in SUBSET Names
    BY ProgramFields DEF Inv, TypeOK
  <2> QED
    BY <2>1, EndedProgram DEF Endings
<1>2. RunInv(gitlink, tree', v)
  BY EndedInv
<1>3. prog' = [prog EXCEPT ![r] = v]
  BY DEF EndRun
<1> QED
  BY <1>1, <1>2, <1>3, Frame

\* A step in which a run changes nothing but its own variables.
LEMMA LocalInv ==
  ASSUME Inv, NEW r \in Runs, NEW v \in Program,
         prog' = [prog EXCEPT ![r] = v],
         UNCHANGED <<gitlink, tree, attic>>,
         RunInv(gitlink, tree, v)
  PROVE  Inv'
<1>1. /\ tree' \in [Names -> Content]
      /\ attic' \in [Names -> Content]
      /\ CopiesOf(gitlink, tree', attic')
      /\ RunInv(gitlink, tree', v)
  BY DEF Inv, TypeOK
<1>2. Interferes(gitlink, tree, tree')
  BY NoInterference
<1> QED
  BY <1>1, <1>2, Frame

\* A run that ends without having touched a directory.
LEMMA QuitInv ==
  ASSUME Inv, NEW r \in Runs, NEW how \in {"failed", "raised", "killed"},
         EndRun(r, how),
         UNCHANGED <<gitlink, tree, attic>>
  PROVE  Inv'
<1>1. /\ tree' \in [Names -> Content]
      /\ attic' \in [Names -> Content]
      /\ CopiesOf(gitlink, tree', attic')
  BY DEF Inv, TypeOK
<1>2. Interferes(gitlink, tree, tree')
  BY NoInterference
<1> QED
  BY <1>1, <1>2, EndRunInv

\* The module a loop is at is a wanted one, with a listed commit.
LEMMA CurrentWanted ==
  ASSUME Inv, NEW r \in Runs, Running(r),
         prog[r].i \in DOMAIN prog[r].modules
  PROVE  /\ Current(r).name \in Names
         /\ Current(r).name \in Wanted(gitlink)
         /\ gitlink[Current(r).name] \in Shas
<1>1. prog[r] \in Program /\ gitlink \in [Names -> Shas \cup {Absent}]
  BY DEF Inv, TypeOK, Gitlinks
<1>2. Current(r).name \in Names
  BY <1>1, ProgramFields DEF Current
<1>3. Current(r).name \in Wanted(gitlink)
  BY <1>2 DEF Current, Inv, RunInv, ListsWanted, Running
<1> QED
  BY <1>1, <1>2, <1>3 DEF Wanted, Listed

\* At a step of a loop the index is one of the list.
LEMMA AtIndex ==
  ASSUME Inv, NEW r \in Runs, NEW step \in Steps, At(r, step)
  PROVE  prog[r].i \in DOMAIN prog[r].modules /\ Running(r)
<1>1. prog[r] \in Program
  BY DEF Inv, TypeOK
<1> QED
  BY <1>1, ProgramFields DEF At, Running

\* Before the update loop a run knows its list, and has lost nothing.
LEMMA EarlyInv ==
  ASSUME NEW g, NEW t, NEW v,
         v.pc \in {"recover", "restore", "expose"},
         v.pc = "restore" => v.i \in DOMAIN v.modules,
         ListsWanted(g, v), UpToDateStays(g, t, v), v.lost = {}
  PROVE  RunInv(g, t, v)
<1>1. /\ v.pc \notin Merging
      /\ v.pc \notin Hiding
      /\ v.pc \notin Losing
      /\ v.pc # "ok"
      /\ v.pc # "sweep"
  BY DEF Merging, Hiding, Losing
<1>2. InLoop(v) /\ LossEnds(t, v)
  BY <1>1 DEF InLoop, LossEnds
<1> QED
  BY <1>1, <1>2
     DEF RunInv, HandledMatch, WantedAhead, Accounted, MovesUnwanted,
         OkMatches

\* What is known of a run before the update loop.
LEMMA Early ==
  ASSUME Inv, NEW r \in Runs, prog[r].pc \in {"recover", "restore", "expose"}
  PROVE  /\ prog[r] \in Program
         /\ prog[r].lost = {}
         /\ ListsWanted(gitlink, prog[r])
         /\ UpToDateStays(gitlink, tree, prog[r])
<1>1. prog[r].pc \in Steps \ Losing
  BY DEF Steps, Hiding, Losing
<1> QED
  BY <1>1 DEF Inv, TypeOK, RunInv, LossEnds

\* A run takes no notice of where it is in what it knows of its list.
LEMMA SameList ==
  ASSUME NEW g, NEW t, NEW p, NEW v,
         ListsWanted(g, p), UpToDateStays(g, t, p),
         p.pc \in Steps, v.modules = p.modules
  PROVE  ListsWanted(g, v) /\ UpToDateStays(g, t, v)
  BY DEF ListsWanted, UpToDateStays

\* Recover: the tests of fetchFromAttic.
LEMMA RecoverInv == ASSUME Inv, NEW r \in Runs, Recover(r) PROVE Inv'
<1> DEFINE p == prog[r]
           v == IF tree[Current(r).name] = Absent /\ attic[Current(r).name] # Absent
                THEN [p EXCEPT !.pc = "restore"] ELSE [p EXCEPT !.i = @ + 1]
<1>1. p \in Program
  BY DEF Inv, TypeOK
<1>2. p.i \in DOMAIN p.modules /\ p.pc = "recover"
  BY AtIndex DEF Recover, At, Steps
<1>3. prog' = [prog EXCEPT ![r] = v]
  BY <1>1 DEF Recover
<1>4. /\ v \in Program
      /\ v.pc \in {"recover", "restore"}
      /\ v.pc = "restore" => v.i = p.i
      /\ v.modules = p.modules /\ v.lost = p.lost
  <2>1. /\ [p EXCEPT !.pc = "restore"] \in Program
        /\ [p EXCEPT !.i = @ + 1] \in Program
    <3>1. p.i + 1 \in Nat \ {0} /\ "restore" \in Steps
      BY <1>1, ProgramFields DEF Steps
    <3> HIDE DEF p
    <3> QED
      BY <1>1, <3>1 DEF Program
  <2>2. CASE v = [p EXCEPT !.pc = "restore"]
    BY <1>1, <2>1, <2>2 DEF Program
  <2>3. CASE v = [p EXCEPT !.i = @ + 1]
    BY <1>1, <1>2, <2>1, <2>3 DEF Program
  <2> QED
    BY <2>2, <2>3
<1>5. /\ p.lost = {}
      /\ p.pc \in Steps
      /\ ListsWanted(gitlink, p)
      /\ UpToDateStays(gitlink, tree, p)
  BY <1>2, Early DEF Steps
<1> HIDE DEF v, p
<1>6. RunInv(gitlink, tree, v)
  <2>1. ListsWanted(gitlink, v) /\ UpToDateStays(gitlink, tree, v)
    BY <1>4, <1>5, SameList
  <2> QED
    BY <1>2, <1>4, <1>5, <2>1, EarlyInv
<1> QED
  BY <1>3, <1>4, <1>6, LocalInv DEF Recover

\* Restore: fetchFromAttic's moveDir.
LEMMA RestoreInv == ASSUME Inv, NEW r \in Runs, Restore(r) PROVE Inv'
<1> DEFINE p == prog[r]
           n == Current(r).name
           v == [p EXCEPT !.pc = "recover", !.i = @ + 1, !.dirty = TRUE]
<1>1. /\ p \in Program
      /\ p.lost = {}
      /\ p.pc = "restore"
      /\ p.pc \in Steps
      /\ RunInv(gitlink, tree, p)
  BY Early DEF Restore, Inv, Steps
<1>2. p.i \in DOMAIN p.modules
  BY <1>1 DEF RunInv, InLoop
<1>3. n \in Names /\ n \in Wanted(gitlink) /\ gitlink[n] \in Shas
  BY <1>1, <1>2, CurrentWanted DEF Running
<1>4. /\ gitlink \in Gitlinks
      /\ tree \in [Names -> Content]
      /\ attic \in [Names -> Content]
      /\ CopiesOf(gitlink, tree, attic)
  BY DEF Inv, TypeOK
<1>5. CASE CanRename(attic[n], tree[n])
  <2>1. /\ tree' = [tree EXCEPT ![n] = attic[n]]
        /\ attic' = [attic EXCEPT ![n] = Absent]
        /\ prog' = [prog EXCEPT ![r] = v]
        /\ UNCHANGED gitlink
    <3>1. prog \in [Runs -> Program]
      BY DEF Inv, TypeOK
    <3> QED
      BY <1>1, <1>5, <3>1 DEF Restore
  <2>2. tree' \in [Names -> Content] /\ attic' \in [Names -> Content]
    BY <1>3, <1>4, <2>1 DEF Content
  <2>3. Interferes(gitlink, tree, tree')
    <3>1. tree[n] # gitlink[n]
      BY <1>3, <1>5, DistTreeAssumption DEF CanRename
    <3> QED
      BY <1>3, <1>4, <2>1, <3>1 DEF Interferes
  <2>4. CopiesOf(gitlink, tree', attic')
    <3>1. n \in Listed(gitlink) /\ n \notin ShortNames
      BY <1>3 DEF Wanted
    <3>2. Absent \notin Shas
      BY DistTreeAssumption
    <3> HIDE DEF n
    <3> QED
      BY <1>3, <1>4, <2>1, <3>1, <3>2 DEF CopiesOf
  <2>5. v \in Program /\ v.pc = "recover" /\ v.modules = p.modules /\ v.lost = {}
    <3>1. p.i + 1 \in Nat \ {0} /\ "recover" \in Steps
      BY <1>1, ProgramFields DEF Steps
    <3> HIDE DEF p
    <3> QED
      BY <1>1, <3>1 DEF Program
  <2>6. RunInv(gitlink, tree', p)
    BY <1>1, <1>4, <2>2, <2>3, Stable
  <2> HIDE DEF v, p
  <2>7. RunInv(gitlink, tree', v)
    <3>1. ListsWanted(gitlink, p) /\ UpToDateStays(gitlink, tree', p)
      BY <2>6 DEF RunInv
    <3>2. ListsWanted(gitlink, v) /\ UpToDateStays(gitlink, tree', v)
      BY <1>1, <2>5, <3>1, SameList
    <3> QED
      BY <2>5, <3>2, EarlyInv
  <2> QED
    BY <2>1, <2>2, <2>3, <2>4, <2>5, <2>7, Frame
<1>6. CASE ~CanRename(attic[n], tree[n])
  BY <1>6, QuitInv DEF Restore
<1> QED
  BY <1>5, <1>6

\* A list just made is right.
LEMMA FreshList ==
  ASSUME Inv, NEW ms \in ParseModules, NEW v, v.modules = ms
  PROVE  /\ ms \in Seq(Module)
         /\ ListsWanted(gitlink, v)
         /\ UpToDateStays(gitlink, tree, v)
<1>1. gitlink \in Gitlinks
  BY DEF Inv, TypeOK
<1> QED
  BY <1>1, ParseModulesSeq DEF ListsWanted, UpToDateStays

\* Relist: the modules are listed again, where that is needed.
LEMMA RelistInv == ASSUME Inv, NEW r \in Runs, Relist(r) PROVE Inv'
<1> DEFINE p == prog[r]
<1>1. PICK ms \in IF p.dirty THEN ParseModules ELSE {p.modules} :
        prog' = [prog EXCEPT ![r].pc = "expose", ![r].modules = ms]
  BY DEF Relist
<1> DEFINE v == [p EXCEPT !.pc = "expose", !.modules = ms]
<1>2. /\ p \in Program
      /\ p.lost = {}
      /\ p.pc \in Steps
      /\ ListsWanted(gitlink, p)
      /\ UpToDateStays(gitlink, tree, p)
  BY Early DEF Relist, After, Steps
<1>3. prog' = [prog EXCEPT ![r] = v]
  BY <1>1, <1>2
<1>4. v.pc = "expose" /\ v.modules = ms /\ v.lost = {}
  BY <1>2 DEF Program
<1>5. /\ ms \in Seq(Module)
      /\ ListsWanted(gitlink, v)
      /\ UpToDateStays(gitlink, tree, v)
  <2> HIDE DEF v
  <2>1. CASE ms \in ParseModules
    BY <1>4, <2>1, FreshList
  <2>2. CASE ms = p.modules
    <3>1. p.modules \in Seq(Module)
      BY <1>2, ProgramFields
    <3> HIDE DEF p
    <3> QED
      BY <1>2, <1>4, <2>2, <3>1, SameList
  <2> QED
    BY <1>1, <2>1, <2>2
<1>6. v \in Program
  <2>1. "expose" \in Steps
    BY DEF Steps
  <2> HIDE DEF p
  <2> QED
    BY <1>2, <1>5, <2>1 DEF Program
<1> HIDE DEF v
<1>7. RunInv(gitlink, tree, v)
  BY <1>4, <1>5, EarlyInv
<1> QED
  BY <1>3, <1>6, <1>7, LocalInv DEF Relist

\* Begin: a run starts.
LEMMA BeginInv == ASSUME Inv, NEW r \in Runs, Begin(r) PROVE Inv'
<1>1. PICK ms \in ParseModules :
        prog' = [prog EXCEPT ![r] =
                   [Ended("recover", {}) EXCEPT !.modules = ms]]
  BY DEF Begin
<1> DEFINE v == [Ended("recover", {}) EXCEPT !.modules = ms]
<1>2. v.pc = "recover" /\ v.modules = ms /\ v.lost = {}
  BY DEF Ended
<1>3. v \in Program
  <2>1. ms \in Seq(Module)
    BY <1>2, FreshList
  <2>2. Ended("recover", {}) \in Program
    BY EndedProgram DEF Steps
  <2> QED
    BY <2>1, <2>2 DEF Program
<1>4. prog' = [prog EXCEPT ![r] = v]
  BY <1>1
<1> HIDE DEF v
<1>5. ListsWanted(gitlink, v) /\ UpToDateStays(gitlink, tree, v)
  BY <1>2, FreshList
<1>6. RunInv(gitlink, tree, v)
  BY <1>2, <1>5, EarlyInv
<1> QED
  BY <1>3, <1>4, <1>6, LocalInv DEF Begin

\* Expose: exposedModules lists the directories.
LEMMA ExposeInv == ASSUME Inv, NEW r \in Runs, Expose(r) PROVE Inv'
<1> DEFINE p == prog[r]
<1>1. PICK ds \in Ascending(Dirs(tree)) :
        prog' = [prog EXCEPT ![r].pc = "update", ![r].i = 1, ![r].exposed = ds]
  BY DEF Expose
<1> DEFINE v == [p EXCEPT !.pc = "update", !.i = 1, !.exposed = ds]
<1>2. /\ p \in Program
      /\ p.lost = {}
      /\ p.pc \in Steps
      /\ ListsWanted(gitlink, p)
      /\ UpToDateStays(gitlink, tree, p)
  BY Early DEF Expose, Steps
<1>3. prog' = [prog EXCEPT ![r] = v]
  BY <1>1, <1>2
<1>4. /\ ds \in Seq(Names)
      /\ \A n \in Dirs(tree) : \E j \in DOMAIN ds : ds[j] = n
      /\ \A j, k \in DOMAIN ds : j < k => ds[j] < ds[k]
  <2>1. Dirs(tree) \in SUBSET Names
    BY DEF Dirs
  <2> QED
    BY <2>1, AscendingSeq
<1>5. /\ v.pc = "update"
      /\ v.i = 1
      /\ v.modules = p.modules
      /\ v.exposed = ds
      /\ v.lost = {}
  BY <1>2 DEF Program
<1>6. v \in Program
  <2>1. "update" \in Steps /\ 1 \in Nat \ {0}
    BY DEF Steps
  <2> HIDE DEF p
  <2> QED
    BY <1>2, <1>4, <2>1 DEF Program
<1> HIDE DEF v, p
<1>7. RunInv(gitlink, tree, v)
  <2>1. ListsWanted(gitlink, v) /\ UpToDateStays(gitlink, tree, v)
    BY <1>2, <1>5, SameList
  <2>2. WantedAhead(gitlink, v)
    <3>1. \A k \in DOMAIN p.modules : k >= 1
      BY <1>2, ProgramFields
    <3>2. \A n \in Wanted(gitlink) :
            \E k \in DOMAIN p.modules : p.modules[k].name = n
      BY <1>2 DEF ListsWanted, Wanted, Listed
    <3> QED
      BY <1>4, <1>5, <3>1, <3>2 DEF WantedAhead
  <2>3. Accounted(gitlink, tree, v)
    BY <1>4, <1>5 DEF Accounted
  <2>4. HandledMatch(gitlink, tree, v)
    <3>1. \A k \in DOMAIN p.modules : ~Handled(v, k)
      BY <1>2, <1>5, ProgramFields DEF Handled
    <3> QED
      BY <1>5, <3>1 DEF HandledMatch
  <2>5. v.pc \notin Hiding /\ v.pc \notin Losing
    BY <1>5 DEF Hiding, Losing
  <2>6. InLoop(v) /\ MovesUnwanted(gitlink, v) /\ LossEnds(tree, v)
    BY <1>5, <2>5 DEF InLoop, MovesUnwanted, LossEnds
  <2> QED
    BY <1>5, <2>1, <2>2, <2>3, <2>4, <2>6 DEF RunInv, OkMatches
<1> QED
  BY <1>3, <1>6, <1>7, LocalInv DEF Expose

\* Where a run changes neither its list nor its deque nor its place in them.
LEMMA SameLoop ==
  ASSUME NEW g, NEW t, NEW p, NEW v, RunInv(g, t, p),
         p.pc \in Merging, v.pc \in Merging,
         v.modules = p.modules, v.i = p.i, v.exposed = p.exposed
  PROVE  /\ ListsWanted(g, v)
         /\ UpToDateStays(g, t, v)
         /\ WantedAhead(g, v)
         /\ Accounted(g, t, v)
         /\ p.pc # "update" => HandledMatch(g, t, v)
<1>1. p.pc \in Steps
  BY DEF Merging, Steps
<1>2. ListsWanted(g, v) /\ UpToDateStays(g, t, v)
  BY <1>1, SameList DEF RunInv
<1>3. WantedAhead(g, v) /\ Accounted(g, t, v)
  BY DEF RunInv, WantedAhead, Accounted
<1>4. p.pc # "update" => HandledMatch(g, t, v)
  BY DEF RunInv, HandledMatch, Handled
<1> QED
  BY <1>2, <1>3, <1>4

\* Update: the module is brought to its commit where its status asks for it.
LEMMA UpdateInv == ASSUME Inv, NEW r \in Runs, Update(r) PROVE Inv'
<1> DEFINE p == prog[r]
           n == Current(r).name
           v == [p EXCEPT !.pc = "sweep"]
<1>1. p.i \in DOMAIN p.modules /\ Running(r) /\ p.pc = "update"
  BY AtIndex DEF Update, At, Steps
<1>2. /\ p \in Program
      /\ RunInv(gitlink, tree, p)
      /\ gitlink \in Gitlinks
      /\ tree \in [Names -> Content]
      /\ attic \in [Names -> Content]
      /\ CopiesOf(gitlink, tree, attic)
  BY DEF Inv, TypeOK
<1>3. n \in Names /\ n \in Wanted(gitlink) /\ gitlink[n] \in Shas
  BY <1>1, CurrentWanted
<1>4. prog' = [prog EXCEPT ![r] = v]
  BY <1>2 DEF Update
<1>5. /\ v \in Program
      /\ v.pc = "sweep"
      /\ v.modules = p.modules
      /\ v.i = p.i
      /\ v.exposed = p.exposed
      /\ v.lost = p.lost
  <2>1. "sweep" \in Steps
    BY DEF Steps
  <2> HIDE DEF p
  <2> QED
    BY <1>2, <2>1 DEF Program
<1>6. tree' = [tree EXCEPT ![n] = gitlink[n]]
  <2>1. CASE Current(r).status = "UpToDate"
    <3>1. tree[n] = gitlink[n]
      <4>1. p.pc \in Steps
        BY <1>1 DEF Steps
      <4> QED
        BY <1>1, <1>2, <2>1, <4>1 DEF RunInv, UpToDateStays, Current
    <3>2. tree' = tree
      BY <2>1 DEF Update
    <3> QED
      BY <1>2, <1>3, <3>1, <3>2
  <2>2. CASE Current(r).status # "UpToDate"
    BY <2>2 DEF Update
  <2> QED
    BY <2>1, <2>2
<1>7. tree' \in [Names -> Content] /\ tree'[n] = gitlink[n]
  BY <1>2, <1>3, <1>6 DEF Content
<1>8. Interferes(gitlink, tree, tree')
  BY <1>2, <1>3, <1>6 DEF Interferes
<1>9. UNCHANGED <<gitlink, attic>>
  BY DEF Update
<1>10. CopiesOf(gitlink, tree', attic')
  <2>1. n \notin ShortNames
    BY <1>3 DEF Wanted
  <2>2. gitlink[n] # Bare /\ gitlink[n] # Plain
    BY <1>3, DistTreeAssumption
  <2> HIDE DEF n
  <2> QED
    BY <1>2, <1>3, <1>6, <1>9, <2>1, <2>2 DEF CopiesOf
<1>11. RunInv(gitlink, tree', p)
  BY <1>2, <1>7, <1>8, Stable
<1>12. n = p.modules[p.i].name
  BY DEF Current
<1> HIDE DEF v, p, n
<1>13. RunInv(gitlink, tree', v)
  <2>1. p.pc \in Merging /\ v.pc \in Merging
    BY <1>1, <1>5 DEF Merging
  <2>2. /\ ListsWanted(gitlink, v)
        /\ UpToDateStays(gitlink, tree', v)
        /\ WantedAhead(gitlink, v)
        /\ Accounted(gitlink, tree', v)
    BY <1>5, <1>11, <2>1, SameLoop
  <2>3. HandledMatch(gitlink, tree', v)
    <3>1. ASSUME NEW k \in DOMAIN p.modules, Handled(v, k)
          PROVE  tree'[p.modules[k].name] = gitlink[p.modules[k].name]
      <4>1. CASE k = p.i
        BY <1>7, <1>12, <4>1
      <4>2. CASE k < p.i
        BY <1>11, <2>1, <4>2 DEF RunInv, HandledMatch, Handled
      <4> QED
        BY <1>5, <3>1, <4>1, <4>2 DEF Handled
    <3> QED
      BY <1>5, <3>1 DEF HandledMatch
  <2>4. v.pc \notin Hiding /\ v.pc \notin Losing /\ p.pc \in Steps \ Losing
    BY <1>1, <1>5 DEF Hiding, Losing, Steps
  <2>5. v.lost = {}
    BY <1>5, <1>11, <2>4 DEF RunInv, LossEnds
  <2>6. InLoop(v) /\ MovesUnwanted(gitlink, v) /\ LossEnds(tree', v)
    BY <1>1, <1>5, <2>4, <2>5 DEF InLoop, MovesUnwanted, LossEnds
  <2> QED
    BY <1>5, <2>2, <2>3, <2>6 DEF RunInv, OkMatches
<1> QED
  BY <1>2, <1>4, <1>5, <1>7, <1>8, <1>9, <1>10, <1>13, Frame

\* The directory the loops stash is an unwanted one.
LEMMA HeadUnwanted ==
  ASSUME Inv, NEW r \in Runs, Stashing(r)
  PROVE  Head(prog[r].exposed) \notin Wanted(gitlink)
<1> DEFINE p == prog[r]
           h == Head(p.exposed)
<1>1. p \in Program /\ p.exposed # <<>> /\ RunInv(gitlink, tree, p)
  BY DEF Inv, TypeOK, Stashing
<1>2. h \in Names /\ h = p.exposed[1] /\ 1 \in DOMAIN p.exposed
  BY <1>1, ProgramFields, HeadAndTail
<1>3. p.pc \in Merging
  BY DEF Stashing, After, Merging
<1> SUFFICES ASSUME h \in Wanted(gitlink) PROVE FALSE
  OBVIOUS
<1>4. PICK k \in DOMAIN p.modules : k >= p.i /\ p.modules[k].name = h
  BY <1>1, <1>2, <1>3 DEF RunInv, WantedAhead
<1>5. CASE p.pc = "sweep" /\ h < Current(r).name
  <2>1. p.i \in DOMAIN p.modules /\ p.pc \in Steps
    BY <1>1, <1>5 DEF RunInv, InLoop, Steps
  <2>2. Current(r).name = p.modules[p.i].name
    BY DEF Current
  <2>3. Current(r).name \in Names
    BY <1>1, <2>1, <2>2, ProgramFields
  <2> HIDE DEF p, h
  <2>4. k # p.i
    BY <1>2, <1>4, <1>5, <2>2, <2>3, DistTreeAssumption
  <2>5. p.i < k
    BY <1>1, <1>4, <2>1, <2>4, ProgramFields
  <2>6. p.modules[p.i].name < p.modules[k].name
    BY <1>1, <2>1, <2>5 DEF RunInv, ListsWanted
  <2> QED
    BY <1>2, <1>4, <1>5, <2>2, <2>3, <2>6, DistTreeAssumption
<1>6. CASE After(r, "update")
  BY <1>1, <1>4, <1>6, ProgramFields DEF After
<1> QED
  BY <1>5, <1>6 DEF Stashing

\* A run that stashes has changed no more than where it is.
LEMMA HidingInv ==
  ASSUME NEW g, NEW u, NEW p, NEW v, RunInv(g, u, p),
         p.pc \in Merging, v.pc \in Hiding,
         v.modules = p.modules, v.i = p.i, v.exposed = p.exposed,
         HandledMatch(g, u, v),
         v.exposed # <<>>, Head(v.exposed) \notin Wanted(g),
         \A n \in v.lost : n = Head(v.exposed) /\ u[n] = Absent,
         v.pc = "clear" => v.lost = {}
  PROVE  RunInv(g, u, v)
<1>1. v.pc \in Merging
  BY DEF Hiding, Merging
<1>2. /\ ListsWanted(g, v)
      /\ UpToDateStays(g, u, v)
      /\ WantedAhead(g, v)
      /\ Accounted(g, u, v)
  BY <1>1, SameLoop
<1>3. InLoop(v) /\ v.pc # "ok" /\ v.pc # "none"
  BY DEF InLoop, Hiding
<1>4. LossEnds(u, v)
  <2>1. CASE v.pc = "clear"
    BY <2>1 DEF LossEnds
  <2>2. CASE v.pc # "clear"
    <3>1. v.pc \in Losing
      BY <2>2 DEF Losing
    <3> QED
      BY <1>3, <3>1 DEF LossEnds
  <2> QED
    BY <2>1, <2>2
<1> QED
  BY <1>2, <1>3, <1>4 DEF RunInv, MovesUnwanted, OkMatches

\* Stash: stashInAttic's test.
LEMMA StashInv == ASSUME Inv, NEW r \in Runs, Stash(r) PROVE Inv'
<1> DEFINE p == prog[r]
           c == IF attic[Head(p.exposed)] # Absent THEN "clear" ELSE "stash"
           v == [p EXCEPT !.pc = c]
<1>1. Stashing(r) /\ p.exposed # <<>>
  BY DEF Stash, Stashing
<1>2. p \in Program /\ RunInv(gitlink, tree, p)
  BY DEF Inv, TypeOK
<1>3. Head(p.exposed) \notin Wanted(gitlink)
  BY <1>1, HeadUnwanted
<1>4. prog' = [prog EXCEPT ![r] = v]
  BY <1>2 DEF Stash
<1>5. /\ p.pc \in {"sweep", "update"}
      /\ p.pc = "update" => p.i > Len(p.modules)
  BY <1>1 DEF Stashing, After
<1>6. c \in {"clear", "stash"}
  OBVIOUS
<1> HIDE DEF c, p
<1>7. /\ v \in Program
      /\ v.pc = c
      /\ v.modules = p.modules
      /\ v.i = p.i
      /\ v.exposed = p.exposed
      /\ v.lost = p.lost
  <2>1. c \in Steps
    BY <1>6 DEF Steps
  <2> QED
    BY <1>2, <2>1 DEF Program
<1> HIDE DEF v
<1>8. RunInv(gitlink, tree, v)
  <2>1. p.pc \in Merging /\ v.pc \in Hiding /\ p.pc \in Steps \ Losing
    BY <1>5, <1>6, <1>7 DEF Merging, Hiding, Losing, Steps
  <2>2. HandledMatch(gitlink, tree, v)
    <3>1. \A k \in DOMAIN p.modules : Handled(v, k) => Handled(p, k)
      BY <1>2, <1>5, <1>7, ProgramFields DEF Handled
    <3> QED
      BY <1>2, <1>7, <2>1, <3>1 DEF RunInv, HandledMatch
  <2>3. v.lost = {}
    BY <1>2, <1>7, <2>1 DEF RunInv, LossEnds
  <2> QED
    BY <1>1, <1>2, <1>3, <1>7, <2>1, <2>2, <2>3, HidingInv
<1> QED
  BY <1>4, <1>7, <1>8, LocalInv DEF Stash

\* What is known of a run that stashes.
LEMMA HidingFacts ==
  ASSUME Inv, NEW r \in Runs, prog[r].pc \in Hiding
  PROVE  /\ prog[r] \in Program
         /\ prog[r].exposed # <<>>
         /\ Head(prog[r].exposed) \in Names \ Wanted(gitlink)
         /\ prog[r].pc \in Merging
         /\ RunInv(gitlink, tree, prog[r])
         /\ HandledMatch(gitlink, tree, prog[r])
         /\ \A n \in prog[r].lost :
              n = Head(prog[r].exposed) /\ tree[n] = Absent
<1>1. prog[r] \in Program /\ RunInv(gitlink, tree, prog[r])
  BY DEF Inv, TypeOK
<1>2. /\ prog[r].exposed # <<>>
      /\ Head(prog[r].exposed) \notin Wanted(gitlink)
      /\ HandledMatch(gitlink, tree, prog[r])
  BY <1>1 DEF RunInv, MovesUnwanted
<1>3. Head(prog[r].exposed) \in Names
  BY <1>1, <1>2, ProgramFields, HeadAndTail
<1>4. prog[r].pc \in Merging
  BY DEF Hiding, Merging
<1>5. \A n \in prog[r].lost : n = Head(prog[r].exposed) /\ tree[n] = Absent
  <2>1. CASE prog[r].pc = "clear"
    <3>1. prog[r].pc \in Steps \ Losing
      BY <2>1 DEF Steps, Losing
    <3> QED
      BY <1>1, <3>1 DEF RunInv, LossEnds
  <2>2. CASE prog[r].pc # "clear"
    <3>1. prog[r].pc \in Losing
      BY <2>2 DEF Losing
    <3> QED
      BY <1>1, <3>1 DEF RunInv, LossEnds
  <2> QED
    BY <2>1, <2>2
<1> QED
  BY <1>1, <1>2, <1>3, <1>4, <1>5

\* An unwanted directory whose populated copy is in the attic is gone.
LEMMA LostIsGone ==
  ASSUME Inv, NEW n \in Names \ Wanted(gitlink),
         tree[n] \notin Shas, attic[n] \in Shas
  PROVE  tree[n] = Absent
<1>1. tree[n] \in {Absent, Bare, Plain} /\ CopiesOf(gitlink, tree, attic)
  BY DEF Inv, TypeOK, Content
<1>2. n \notin ShortNames /\ tree[n] # Plain
  BY <1>1 DEF CopiesOf
<1>3. n \notin Listed(gitlink)
  BY <1>2 DEF Wanted
<1>4. tree[n] # Bare
  BY <1>1, <1>3 DEF CopiesOf
<1> QED
  BY <1>1, <1>2, <1>4

\* Put: a step of removeDir.
LEMMA PutInv ==
  ASSUME Inv, NEW r \in Runs, prog[r].pc \in {"clear", "empty"},
         NEW c \in Content, c \in Shas => c = attic[Head(prog[r].exposed)],
         Put(r, Head(prog[r].exposed), c),
         UNCHANGED <<gitlink, tree>>
  PROVE  Inv'
<1> DEFINE p == prog[r]
           n == Head(p.exposed)
           L == IF tree[n] \notin Shas /\ attic[n] \in Shas /\ c \notin Shas
                THEN p.lost \cup {n} ELSE p.lost
           q == IF p.pc = "clear" THEN "empty" ELSE "rmdir"
           v == [p EXCEPT !.pc = q, !.lost = L]
<1>1. p.pc \in Hiding
  BY DEF Hiding
<1>2. /\ p \in Program
      /\ p.exposed # <<>>
      /\ n \in Names \ Wanted(gitlink)
      /\ p.pc \in Merging
      /\ RunInv(gitlink, tree, p)
      /\ HandledMatch(gitlink, tree, p)
      /\ \A m \in p.lost : m = n /\ tree[m] = Absent
  BY <1>1, HidingFacts
<1>3. /\ tree \in [Names -> Content]
      /\ attic \in [Names -> Content]
      /\ CopiesOf(gitlink, tree, attic)
  BY DEF Inv, TypeOK
<1>4. prog' = [prog EXCEPT ![r] = v]
  BY <1>2 DEF Put
<1>5. attic' = [attic EXCEPT ![n] = c]
  BY DEF Put
<1>6. p.pc # "update"
  OBVIOUS
<1>7. q \in {"empty", "rmdir"}
  OBVIOUS
<1>8. L \in SUBSET Names /\ \A m \in L : m = n /\ tree[m] = Absent
  <2>1. p.lost \in SUBSET Names
    BY <1>2, ProgramFields
  <2>2. tree[n] \notin Shas /\ attic[n] \in Shas => tree[n] = Absent
    BY <1>2, LostIsGone
  <2> QED
    BY <1>2, <2>1, <2>2
<1>9. CopiesOf(gitlink, tree, attic')
  <2>1. c \in Shas => c = attic[n]
    OBVIOUS
  <2> HIDE DEF n
  <2> QED
    BY <1>2, <1>3, <1>5, <2>1 DEF CopiesOf
<1>10. attic' \in [Names -> Content]
  BY <1>2, <1>3, <1>5
<1> HIDE DEF L, q, p, n
<1>11. /\ v \in Program
       /\ v.pc = q
       /\ v.modules = p.modules
       /\ v.i = p.i
       /\ v.exposed = p.exposed
       /\ v.lost = L
  <2>1. q \in Steps
    BY <1>7 DEF Steps
  <2> QED
    BY <1>2, <1>8, <2>1 DEF Program
<1> HIDE DEF v
<1>12. RunInv(gitlink, tree, v)
  <2>1. v.pc \in Hiding /\ v.pc \in Merging /\ v.pc # "clear"
    BY <1>7, <1>11 DEF Hiding, Merging
  <2>2. HandledMatch(gitlink, tree, v)
    BY <1>2, <1>6, <1>11, <2>1, SameLoop
  <2>3. n = Head(v.exposed)
    BY <1>11 DEF n
  <2> QED
    BY <1>2, <1>8, <1>11, <2>1, <2>2, <2>3, HidingInv
<1>13. Interferes(gitlink, tree, tree)
  BY NoInterference
<1> QED
  BY <1>3, <1>4, <1>9, <1>10, <1>11, <1>12, <1>13, Frame

LEMMA ClearInv == ASSUME Inv, NEW r \in Runs, Clear(r) PROVE Inv'
<1> DEFINE n == Head(prog[r].exposed)
           c == IF attic[n] \in Shas THEN Plain ELSE attic[n]
<1>1. prog[r].pc = "clear"
  BY DEF Clear
<1>2. n \in Names
  BY <1>1, HidingFacts DEF Hiding
<1>3. attic[n] \in Content /\ Plain \in Content /\ Plain \notin Shas
  BY <1>2, DistTreeAssumption DEF Inv, TypeOK, Content
<1>4. c \in Content /\ (c \in Shas => c = attic[n])
  BY <1>3
<1> QED
  BY <1>1, <1>4, PutInv DEF Clear

LEMMA EmptyInv == ASSUME Inv, NEW r \in Runs, Empty(r) PROVE Inv'
<1> DEFINE n == Head(prog[r].exposed)
<1>1. PICK c \in IF attic[n] \in Shas THEN {attic[n], Plain, Bare}
                 ELSE IF attic[n] = Absent THEN {Absent} ELSE {Bare} :
        Put(r, n, c)
  BY DEF Empty
<1>2. c \in Content
  BY <1>1 DEF Content
<1>3. c \in Shas => c = attic[n]
  BY <1>1, DistTreeAssumption
<1>4. prog[r].pc = "empty" /\ UNCHANGED <<gitlink, tree>>
  BY DEF Empty
<1> QED
  BY <1>1, <1>2, <1>3, <1>4, PutInv

LEMMA RmdirInv == ASSUME Inv, NEW r \in Runs, Rmdir(r) PROVE Inv'
<1> DEFINE p == prog[r]
           n == Head(p.exposed)
           v == [p EXCEPT !.pc = "stash"]
<1>1. p.pc = "rmdir" /\ p.pc \in Hiding
  BY DEF Rmdir, Hiding
<1>2. /\ p \in Program
      /\ p.exposed # <<>>
      /\ n \in Names \ Wanted(gitlink)
      /\ p.pc \in Merging
      /\ RunInv(gitlink, tree, p)
      /\ \A m \in p.lost : m = n /\ tree[m] = Absent
  BY <1>1, HidingFacts
<1>3. /\ tree \in [Names -> Content]
      /\ attic \in [Names -> Content]
      /\ CopiesOf(gitlink, tree, attic)
  BY DEF Inv, TypeOK
<1>4. CASE attic[n] \in {Absent, Bare}
  <2>1. /\ attic' = [attic EXCEPT ![n] = Absent]
        /\ UNCHANGED <<gitlink, tree>>
        /\ prog' = [prog EXCEPT ![r] = v]
    BY <1>2, <1>4 DEF Rmdir
  <2>2. attic' \in [Names -> Content]
    BY <1>2, <1>3, <2>1 DEF Content
  <2>3. CopiesOf(gitlink, tree, attic')
    <3>1. Absent \notin Shas
      BY DistTreeAssumption
    <3> HIDE DEF n
    <3> QED
      BY <1>2, <1>3, <2>1, <3>1 DEF CopiesOf
  <2> HIDE DEF p, n
  <2>4. /\ v \in Program
        /\ v.pc = "stash"
        /\ v.modules = p.modules
        /\ v.i = p.i
        /\ v.exposed = p.exposed
        /\ v.lost = p.lost
    <3>1. "stash" \in Steps
      BY DEF Steps
    <3> QED
      BY <1>2, <3>1 DEF Program
  <2> HIDE DEF v
  <2>5. RunInv(gitlink, tree, v)
    <3>1. v.pc \in Hiding /\ v.pc \in Merging /\ v.pc # "clear"
      BY <2>4 DEF Hiding, Merging
    <3>2. HandledMatch(gitlink, tree, v)
      BY <1>1, <1>2, <2>4, <3>1, SameLoop
    <3>3. n = Head(v.exposed)
      BY <2>4 DEF n
    <3> QED
      BY <1>2, <2>4, <3>1, <3>2, <3>3, HidingInv
  <2>6. Interferes(gitlink, tree, tree)
    BY NoInterference
  <2> QED
    BY <1>3, <2>1, <2>2, <2>3, <2>4, <2>5, <2>6, Frame
<1>5. CASE attic[n] \notin {Absent, Bare}
  BY <1>5, QuitInv DEF Rmdir
<1> QED
  BY <1>4, <1>5

\* MoveToAttic: stashInAttic's moveDir, which raises if the module was lost.
LEMMA MoveToAtticInv == ASSUME Inv, NEW r \in Runs, MoveToAttic(r) PROVE Inv'
<1> DEFINE p == prog[r]
           n == Head(p.exposed)
           c == IF p.i <= Len(p.modules) THEN "sweep" ELSE "update"
           v == [p EXCEPT !.pc = c, !.exposed = Tail(@)]
<1>1. p.pc = "stash" /\ p.pc \in Hiding
  BY DEF MoveToAttic, Hiding
<1>2. /\ p \in Program
      /\ p.exposed # <<>>
      /\ n \in Names \ Wanted(gitlink)
      /\ p.pc \in Merging
      /\ RunInv(gitlink, tree, p)
      /\ \A m \in p.lost : m = n /\ tree[m] = Absent
  BY <1>1, HidingFacts
<1>3. /\ gitlink \in Gitlinks
      /\ tree \in [Names -> Content]
      /\ attic \in [Names -> Content]
      /\ CopiesOf(gitlink, tree, attic)
  BY DEF Inv, TypeOK
<1>4. CASE CanRename(tree[n], attic[n])
  <2>1. /\ attic' = [attic EXCEPT ![n] = tree[n]]
        /\ tree' = [tree EXCEPT ![n] = Absent]
        /\ UNCHANGED gitlink
        /\ prog' = [prog EXCEPT ![r] = v]
    BY <1>2, <1>4 DEF MoveToAttic
  <2>2. attic' \in [Names -> Content] /\ tree' \in [Names -> Content]
    BY <1>2, <1>3, <2>1 DEF Content
  <2>3. Interferes(gitlink, tree, tree')
    <3> HIDE DEF n
    <3> QED
      BY <1>2, <1>3, <2>1 DEF Interferes
  <2>4. CopiesOf(gitlink, tree', attic')
    <3>1. Absent \notin Shas /\ Absent # Bare /\ Absent # Plain
      BY DistTreeAssumption
    <3> HIDE DEF n
    <3> QED
      BY <1>2, <1>3, <2>1, <3>1 DEF CopiesOf
  <2>5. p.lost = {}
    BY <1>2, <1>4 DEF CanRename
  <2>6. /\ p.exposed \in Seq(Names)
        /\ n = p.exposed[1]
        /\ Tail(p.exposed) \in Seq(Names)
        /\ DOMAIN Tail(p.exposed) = 1..(Len(p.exposed) - 1)
        /\ DOMAIN p.exposed = 1..Len(p.exposed)
        /\ Len(p.exposed) \in Nat \ {0}
        /\ \A k \in 1..(Len(p.exposed) - 1) :
             Tail(p.exposed)[k] = p.exposed[k + 1]
    BY <1>2, ProgramFields, HeadAndTail
  <2>7. c \in {"sweep", "update"} /\ (c = "update" <=> ~(p.i <= Len(p.modules)))
    OBVIOUS
  <2>8. RunInv(gitlink, tree', p)
    BY <1>2, <1>3, <2>2, <2>3, Stable
  <2>9. tree'[n] = Absent
    BY <1>2, <1>3, <2>1
  <2> HIDE DEF p, n, c
  <2>10. /\ v \in Program
         /\ v.pc = c
         /\ v.modules = p.modules
         /\ v.i = p.i
         /\ v.exposed = Tail(p.exposed)
         /\ v.lost = {}
    <3>1. c \in Steps
      BY <2>7 DEF Steps
    <3> QED
      BY <1>2, <2>5, <2>6, <3>1 DEF Program
  <2> HIDE DEF v
  <2>11. RunInv(gitlink, tree', v)
    <3>1. /\ p.pc \in Merging /\ p.pc \in Steps /\ v.pc \in Merging
          /\ v.pc \notin Hiding /\ v.pc \notin Losing
      BY <1>1, <2>7, <2>10 DEF Merging, Hiding, Losing, Steps
    <3>2. ListsWanted(gitlink, v) /\ UpToDateStays(gitlink, tree', v)
      BY <2>8, <2>10, <3>1, SameList DEF RunInv
    <3>3. HandledMatch(gitlink, tree', v)
      <4>1. \A k \in DOMAIN p.modules : Handled(v, k) => Handled(p, k)
        BY <1>1, <2>10 DEF Handled
      <4> QED
        BY <2>8, <2>10, <3>1, <4>1 DEF RunInv, HandledMatch
    <3>4. WantedAhead(gitlink, v)
      <4>1. /\ \A j, k \in DOMAIN p.exposed :
                 j < k => p.exposed[j] < p.exposed[k]
            /\ \A j \in DOMAIN p.exposed :
                 p.exposed[j] \in Wanted(gitlink) =>
                   \E k \in DOMAIN p.modules :
                     k >= p.i /\ p.modules[k].name = p.exposed[j]
        BY <2>8, <3>1 DEF RunInv, WantedAhead
      <4>2. /\ \A j \in DOMAIN v.exposed :
                 j + 1 \in DOMAIN p.exposed /\ v.exposed[j] = p.exposed[j + 1]
            /\ \A j, k \in DOMAIN v.exposed :
                 j < k => v.exposed[j] < v.exposed[k]
        BY <1>2, <2>6, <2>10, <4>1, TailAscends
      <4> QED
        BY <2>10, <4>1, <4>2 DEF WantedAhead
    <3>5. Accounted(gitlink, tree', v)
      <4>1. ASSUME NEW m \in Dirs(tree') \ Wanted(gitlink)
            PROVE  \E j \in DOMAIN v.exposed : v.exposed[j] = m
        <5>1. m # n
          BY <2>9, <4>1 DEF Dirs
        <5>2. PICK j \in DOMAIN p.exposed : p.exposed[j] = m
          BY <2>8, <3>1, <4>1 DEF RunInv, Accounted
        <5>3. j - 1 \in 1..(Len(p.exposed) - 1)
          BY <2>6, <5>1, <5>2
        <5>4. Tail(p.exposed)[j - 1] = p.exposed[(j - 1) + 1]
          BY <2>6, <5>3
        <5>5. (j - 1) + 1 = j
          BY <2>6, <5>2
        <5>6. j - 1 \in DOMAIN v.exposed /\ v.exposed[j - 1] = m
          BY <2>6, <2>10, <5>2, <5>3, <5>4, <5>5
        <5> QED
          BY <5>6
      <4> QED
        BY <4>1 DEF Accounted
    <3>6. InLoop(v)
      BY <1>2, <2>7, <2>10, ProgramFields DEF InLoop
    <3>7. MovesUnwanted(gitlink, v) /\ LossEnds(tree', v) /\ v.pc # "ok"
      BY <2>7, <2>10, <3>1 DEF MovesUnwanted, LossEnds
    <3> QED
      BY <3>2, <3>3, <3>4, <3>5, <3>6, <3>7 DEF RunInv, OkMatches
  <2> QED
    BY <2>1, <2>2, <2>3, <2>4, <2>10, <2>11, Frame
<1>5. CASE ~CanRename(tree[n], attic[n])
  BY <1>5, QuitInv DEF MoveToAttic
<1> QED
  BY <1>4, <1>5

\* NextModule: the while loop ends.
LEMMA NextModuleInv == ASSUME Inv, NEW r \in Runs, NextModule(r) PROVE Inv'
<1> DEFINE p == prog[r]
           m == Current(r).name
           e == IF p.exposed # <<>> /\ Head(p.exposed) = m
                THEN Tail(p.exposed) ELSE p.exposed
           v == [p EXCEPT !.pc = "update", !.i = @ + 1, !.exposed = e]
<1>1. p.pc = "sweep" /\ (p.exposed # <<>> => ~(Head(p.exposed) < m))
  BY DEF NextModule, Stashing
<1>2. p \in Program /\ RunInv(gitlink, tree, p)
  BY DEF Inv, TypeOK
<1>3. prog' = [prog EXCEPT ![r] = v]
  BY <1>2 DEF NextModule
<1>4. p.i \in DOMAIN p.modules
  BY <1>1, <1>2 DEF RunInv, InLoop
<1>5. m = p.modules[p.i].name /\ m \in Names
  BY <1>2, <1>4, ProgramFields DEF Current
<1>6. \/ p.exposed # <<>> /\ Head(p.exposed) = m /\ e = Tail(p.exposed)
      \/ p.exposed = <<>> /\ e = p.exposed
      \/ p.exposed # <<>> /\ Head(p.exposed) # m /\ e = p.exposed
  OBVIOUS
<1>7. p.exposed # <<>> => ~(Head(p.exposed) < m)
  BY <1>1
<1> HIDE DEF p, m, e
<1>8. e \in Seq(Names)
  BY <1>2, <1>6, ProgramFields, HeadAndTail
<1>9. /\ v \in Program
      /\ v.pc = "update"
      /\ v.modules = p.modules
      /\ v.i = p.i + 1
      /\ v.exposed = e
      /\ v.lost = p.lost
  <2>1. "update" \in Steps /\ p.i + 1 \in Nat \ {0}
    BY <1>2, ProgramFields DEF Steps
  <2> QED
    BY <1>2, <1>8, <2>1 DEF Program
<1> HIDE DEF v
<1>10. RunInv(gitlink, tree, v)
  <2>1. /\ p.pc \in Merging /\ p.pc \in Steps \ Losing /\ v.pc \in Merging
        /\ v.pc \notin Hiding /\ v.pc \notin Losing
    BY <1>1, <1>9 DEF Merging, Hiding, Losing, Steps
  <2>2. ListsWanted(gitlink, v) /\ UpToDateStays(gitlink, tree, v)
    BY <1>2, <1>9, <2>1, SameList DEF RunInv
  <2>3. HandledMatch(gitlink, tree, v)
    <3>1. \A k \in DOMAIN p.modules : Handled(v, k) => Handled(p, k)
      BY <1>1, <1>2, <1>9, ProgramFields DEF Handled
    <3> QED
      BY <1>2, <1>9, <2>1, <3>1 DEF RunInv, HandledMatch
  <2>4. /\ \A j, k \in DOMAIN p.exposed : j < k => p.exposed[j] < p.exposed[k]
        /\ \A j \in DOMAIN p.exposed :
             p.exposed[j] \in Wanted(gitlink) =>
               \E k \in DOMAIN p.modules :
                 k >= p.i /\ p.modules[k].name = p.exposed[j]
    BY <1>2, <2>1 DEF RunInv, WantedAhead
  <2>5. /\ \A j \in DOMAIN e : e[j] # m /\ \E k \in DOMAIN p.exposed : p.exposed[k] = e[j]
        /\ \A j, k \in DOMAIN e : j < k => e[j] < e[k]
    <3>1. CASE e = Tail(p.exposed) /\ Head(p.exposed) = m /\ p.exposed # <<>>
      <4>1. \A j \in DOMAIN e : e[j] \in Names /\ m < e[j]
        BY <1>2, <1>8, <2>4, <3>1, ProgramFields, TailAscends
      <4>2. \A j \in DOMAIN e : e[j] # m
        BY <1>5, <4>1, DistTreeAssumption
      <4> QED
        BY <1>2, <2>4, <3>1, <4>2, ProgramFields, TailAscends
    <3>2. CASE e = p.exposed /\ p.exposed = <<>>
      BY <3>2
    <3>3. CASE e = p.exposed /\ p.exposed # <<>> /\ Head(p.exposed) # m
      <4>1. /\ Head(p.exposed) = p.exposed[1] /\ Head(p.exposed) \in Names
            /\ 1 \in DOMAIN p.exposed
            /\ \A j \in DOMAIN p.exposed : j \in Nat /\ (j = 1 \/ 1 < j) /\ p.exposed[j] \in Names
        BY <1>2, <3>3, ProgramFields, HeadAndTail
      <4>2. /\ m \in Nat
            /\ Head(p.exposed) \in Nat
            /\ \A j \in DOMAIN p.exposed : p.exposed[j] \in Nat
        BY <1>5, <4>1, DistTreeAssumption
      <4>3. m < Head(p.exposed)
        BY <1>7, <3>3, <4>2
      <4>4. \A j \in DOMAIN p.exposed : p.exposed[j] # m
        <5>1. ASSUME NEW j \in DOMAIN p.exposed
              PROVE  p.exposed[j] # m
          <6>1. CASE j = 1
            BY <3>3, <4>1, <6>1
          <6>2. CASE 1 < j
            <7>1. p.exposed[1] < p.exposed[j]
              BY <2>4, <4>1, <6>2
            <7> QED
              BY <4>1, <4>2, <4>3, <7>1
          <6> QED
            BY <4>1, <6>1, <6>2
        <5> QED
          BY <5>1
      <4> QED
        BY <2>4, <3>3, <4>4
    <3> QED
      BY <1>6, <3>1, <3>2, <3>3
  <2>6. WantedAhead(gitlink, v)
    <3>1. ASSUME NEW j \in DOMAIN e, e[j] \in Wanted(gitlink)
          PROVE  \E k \in DOMAIN p.modules :
                   k >= p.i + 1 /\ p.modules[k].name = e[j]
      <4>1. PICK k \in DOMAIN p.modules :
              k >= p.i /\ p.modules[k].name = e[j]
        BY <2>4, <2>5, <3>1
      <4>2. k # p.i
        BY <1>5, <2>5, <4>1
      <4>3. k >= p.i + 1
        BY <1>2, <4>1, <4>2, ProgramFields
      <4> QED
        BY <4>1, <4>3
    <3> QED
      BY <1>9, <2>5, <3>1 DEF WantedAhead
  <2>7. Accounted(gitlink, tree, v)
    <3>1. ASSUME NEW n \in Dirs(tree) \ Wanted(gitlink)
          PROVE  \E j \in DOMAIN e : e[j] = n
      <4>1. PICK j \in DOMAIN p.exposed : p.exposed[j] = n
        BY <1>2, <2>1, <3>1 DEF RunInv, Accounted
      <4>2. m \in Wanted(gitlink)
        BY <1>2, <1>4, <1>5, <2>1 DEF RunInv, ListsWanted
      <4>3. CASE e = p.exposed
        BY <4>1, <4>3
      <4>4. CASE e = Tail(p.exposed) /\ Head(p.exposed) = m /\ p.exposed # <<>>
        <5>1. j # 1
          BY <1>2, <3>1, <4>1, <4>2, <4>4, ProgramFields, HeadAndTail
        <5>2. /\ j - 1 \in DOMAIN Tail(p.exposed)
              /\ Tail(p.exposed)[j - 1] = p.exposed[(j - 1) + 1]
              /\ (j - 1) + 1 = j
          BY <1>2, <4>4, <5>1, ProgramFields, HeadAndTail
        <5>3. e[j - 1] = n
          BY <4>1, <4>4, <5>2
        <5> QED
          BY <4>4, <5>2, <5>3
      <4> QED
        BY <1>6, <4>3, <4>4
    <3> QED
      BY <1>9, <3>1 DEF Accounted
  <2>8. v.lost = {}
    BY <1>2, <1>9, <2>1 DEF RunInv, LossEnds
  <2>9. InLoop(v) /\ MovesUnwanted(gitlink, v) /\ LossEnds(tree, v)
    BY <1>9, <2>1, <2>8 DEF InLoop, MovesUnwanted, LossEnds
  <2> QED
    BY <1>9, <2>2, <2>3, <2>6, <2>7, <2>9 DEF RunInv, OkMatches
<1> QED
  BY <1>3, <1>9, <1>10, LocalInv DEF NextModule

\* Finish: the run returns, and dist/ is as the listing asks.
LEMMA FinishInv == ASSUME Inv, NEW r \in Runs, Finish(r) PROVE Inv'
<1> DEFINE p == prog[r]
           v == Ended("ok", p.lost)
<1>1. p.pc = "update" /\ p.i > Len(p.modules) /\ p.exposed = <<>>
  BY DEF Finish, After
<1>2. p \in Program /\ RunInv(gitlink, tree, p) /\ gitlink \in Gitlinks
  BY DEF Inv, TypeOK
<1>3. prog' = [prog EXCEPT ![r] = v]
  BY DEF Finish, EndRun
<1>4. p.pc \in Merging /\ p.pc \in Steps \ Losing
  BY <1>1 DEF Merging, Hiding, Losing, Steps
<1>5. p.lost = {}
  BY <1>2, <1>4 DEF RunInv, LossEnds
<1>6. \A n \in Wanted(gitlink) : n \in Names /\ gitlink[n] # Absent
  BY DEF Wanted, Listed
<1>7. \A n \in Wanted(gitlink) : tree[n] = gitlink[n]
  <2>1. \A k \in DOMAIN p.modules : Handled(p, k)
    BY <1>1, <1>2, ProgramFields DEF Handled
  <2>2. \A n \in Wanted(gitlink) : \E k \in DOMAIN p.modules : p.modules[k].name = n
    BY <1>2, <1>4, <1>6 DEF RunInv, ListsWanted
  <2> QED
    BY <1>2, <1>4, <2>1, <2>2 DEF RunInv, HandledMatch
<1>8. Dirs(tree) = Wanted(gitlink)
  <2>1. DOMAIN p.exposed = {}
    BY <1>1
  <2>2. Dirs(tree) \ Wanted(gitlink) = {}
    BY <1>2, <1>4, <2>1 DEF RunInv, Accounted
  <2>3. Wanted(gitlink) \subseteq Dirs(tree)
    BY <1>6, <1>7 DEF Dirs
  <2> QED
    BY <2>2, <2>3
<1>9. v \in Program /\ v.pc = "ok" /\ v.lost = {} /\ v.modules = <<>>
  <2>1. Ended("ok", {}) \in Program
    BY EndedProgram DEF Endings
  <2> QED
    BY <1>5, <2>1 DEF Ended
<1> HIDE DEF v
<1>10. RunInv(gitlink, tree, v)
  <2>1. /\ v.pc \notin Steps
        /\ v.pc \notin Merging
        /\ v.pc \notin Hiding
        /\ v.pc \notin Losing
    BY <1>9 DEF Steps, Merging, Hiding, Losing
  <2>2. ListsWanted(gitlink, v) /\ UpToDateStays(gitlink, tree, v) /\ InLoop(v)
    BY <1>9, <2>1 DEF ListsWanted, UpToDateStays, InLoop
  <2>3. LossEnds(tree, v) /\ OkMatches(gitlink, tree, v)
    BY <1>7, <1>8, <1>9, <2>1 DEF LossEnds, OkMatches, Matches
  <2> QED
    BY <2>1, <2>2, <2>3
       DEF RunInv, HandledMatch, WantedAhead, Accounted, MovesUnwanted
<1> QED
  BY <1>3, <1>9, <1>10, LocalInv DEF Finish

\* KillInUpdate: a wanted module is left populated at any commit.
LEMMA KillInUpdateInv == ASSUME Inv, NEW r \in Runs, KillInUpdate(r) PROVE Inv'
<1> DEFINE n == Current(r).name
<1>1. prog[r].i \in DOMAIN prog[r].modules /\ Running(r)
  BY AtIndex DEF KillInUpdate, Steps
<1>2. n \in Names /\ n \in Wanted(gitlink) /\ gitlink[n] \in Shas
  BY <1>1, CurrentWanted
<1>3. PICK c \in Shas : tree' = [tree EXCEPT ![n] = c]
  BY DEF KillInUpdate
<1>4. /\ tree \in [Names -> Content]
      /\ attic \in [Names -> Content]
      /\ CopiesOf(gitlink, tree, attic)
  BY DEF Inv, TypeOK
<1>5. tree[n] \notin Shas /\ EndRun(r, "killed") /\ UNCHANGED <<gitlink, attic>>
  BY DEF KillInUpdate
<1>6. tree' \in [Names -> Content]
  BY <1>2, <1>3, <1>4 DEF Content
<1>7. n \notin ShortNames /\ c # Bare /\ c # Plain
  BY <1>2, DistTreeAssumption DEF Wanted
<1> HIDE DEF n
<1>8. Interferes(gitlink, tree, tree')
  BY <1>2, <1>3, <1>4, <1>5 DEF Interferes
<1>9. CopiesOf(gitlink, tree', attic')
  BY <1>2, <1>3, <1>4, <1>5, <1>7 DEF CopiesOf
<1> QED
  BY <1>4, <1>5, <1>6, <1>8, <1>9, EndRunInv

\* A run that has not started knows nothing.
LEMMA IdleInv ==
  ASSUME NEW g, NEW t
  PROVE  RunInv(g, t, Ended("none", {})) /\ Ended("none", {}) \in Program
<1> DEFINE p == Ended("none", {})
<1>1. p.pc = "none" /\ p.lost = {}
  BY DEF Ended
<1>2. p \in Program
  BY EndedProgram DEF Endings
<1>3. /\ p.pc \notin Steps
      /\ p.pc \notin Merging
      /\ p.pc \notin Hiding
      /\ p.pc \notin Losing
      /\ p.pc \notin {"restore", "sweep"}
      /\ p.pc # "ok"
  BY <1>1 DEF Steps, Merging, Hiding, Losing
<1> HIDE DEF p
<1>4. RunInv(g, t, p)
  BY <1>1, <1>3, Zenon
     DEF RunInv, ListsWanted, InLoop, UpToDateStays, HandledMatch,
         WantedAhead, Accounted, MovesUnwanted, LossEnds, OkMatches
<1> QED
  BY <1>2, <1>4 DEF p

\* The environment starts all over with the runs.
LEMMA ResetInv ==
  ASSUME gitlink' \in Gitlinks,
         tree' \in [Names -> Content],
         attic' \in [Names -> Content],
         CopiesOf(gitlink', tree', attic'),
         prog' = [r \in Runs |-> Ended("none", {})]
  PROVE  Inv'
<1>1. TypeOK'
  BY IdleInv DEF TypeOK
<1>2. \A r \in Runs : RunInv(gitlink', tree', prog'[r])
  BY IdleInv
<1> QED
  BY <1>1, <1>2 DEF Inv

LEMMA CheckoutInv == Inv /\ Checkout => Inv'
<1> SUFFICES ASSUME Inv, Checkout PROVE Inv'
  OBVIOUS
<1>1. PICK h \in Releases : gitlink' = h /\ tree' = CheckedOut(gitlink, h, tree)
  BY DEF Checkout
<1>2. /\ gitlink \in Gitlinks
      /\ tree \in [Names -> Content]
      /\ attic \in [Names -> Content]
      /\ CopiesOf(gitlink, tree, attic)
      /\ attic' = attic
      /\ prog' = [r \in Runs |-> Ended("none", {})]
  BY DEF Inv, TypeOK, Checkout
<1>3. h \in Gitlinks
  BY <1>1, DistTreeAssumption
<1>4. tree' \in [Names -> Content]
  BY <1>1, <1>2 DEF CheckedOut, Content
<1>5. CopiesOf(h, tree', attic)
  <2>1. ASSUME NEW n \in Names
        PROVE  /\ tree'[n] = Bare => n \in Listed(h)
               /\ tree'[n] = Plain => attic[n] \notin Shas
               /\ n \in ShortNames => tree'[n] \notin Shas /\ attic[n] \notin Shas
    <3>1. /\ tree[n] = Bare => n \in Listed(gitlink)
          /\ tree[n] = Plain => attic[n] \notin Shas
          /\ n \in ShortNames => tree[n] \notin Shas /\ attic[n] \notin Shas
      BY <1>2 DEF CopiesOf
    <3>2. CASE h[n] # Absent /\ h[n] # gitlink[n] /\ tree[n] = Absent
      <4>1. tree'[n] = Bare
        BY <1>1, <3>2 DEF CheckedOut
      <4>2. Bare # Plain /\ Bare \notin Shas /\ n \in Listed(h)
        BY <3>2, DistTreeAssumption DEF Listed
      <4> QED
        BY <3>1, <4>1, <4>2
    <3>3. CASE h[n] = Absent /\ gitlink[n] # Absent /\ tree[n] = Bare
      <4>1. tree'[n] = Absent
        BY <1>1, <3>3 DEF CheckedOut
      <4>2. Absent # Bare /\ Absent # Plain /\ Absent \notin Shas
        BY DistTreeAssumption
      <4> QED
        BY <3>1, <4>1, <4>2
    <3>4. CASE /\ ~(h[n] # Absent /\ h[n] # gitlink[n] /\ tree[n] = Absent)
               /\ ~(h[n] = Absent /\ gitlink[n] # Absent /\ tree[n] = Bare)
      <4>1. tree'[n] = tree[n]
        BY <1>1, <3>4 DEF CheckedOut
      <4>2. tree[n] = Bare => n \in Listed(h)
        BY <3>1, <3>4 DEF Listed
      <4> QED
        BY <3>1, <4>1, <4>2
    <3> QED
      BY <3>2, <3>3, <3>4
  <2> QED
    BY <2>1 DEF CopiesOf
<1> QED
  BY <1>1, <1>2, <1>3, <1>4, <1>5, ResetInv

LEMMA RemoveInv == ASSUME Inv, NEW n \in Names, Remove(n) PROVE Inv'
<1>1. /\ gitlink \in Gitlinks
      /\ tree \in [Names -> Content]
      /\ attic \in [Names -> Content]
      /\ CopiesOf(gitlink, tree, attic)
      /\ tree' = [tree EXCEPT ![n] = Absent]
      /\ UNCHANGED <<gitlink, attic>>
      /\ prog' = [r \in Runs |-> Ended("none", {})]
  BY DEF Inv, TypeOK, Remove
<1>2. tree' \in [Names -> Content]
  BY <1>1 DEF Content
<1>3. CopiesOf(gitlink, tree', attic)
  <2>1. Absent # Bare /\ Absent # Plain /\ Absent \notin Shas
    BY DistTreeAssumption
  <2> QED
    BY <1>1, <2>1 DEF CopiesOf
<1> QED
  BY <1>1, <1>2, <1>3, ResetInv

LEMMA InitInv == Init => Inv
<1> SUFFICES ASSUME Init PROVE Inv
  OBVIOUS
<1>1. /\ gitlink \in Gitlinks
      /\ tree = Cloned(gitlink)
      /\ attic = [n \in Names |-> Absent]
      /\ prog = [r \in Runs |-> Ended("none", {})]
  BY DistTreeAssumption DEF Init
<1>2. TypeOK
  BY <1>1, IdleInv DEF TypeOK, Cloned, Content
<1>3. CopiesOf(gitlink, tree, attic)
  <2>1. \A n \in Names :
          /\ tree[n] \in {Absent, Bare}
          /\ tree[n] = Bare => n \in Listed(gitlink)
          /\ attic[n] = Absent
    BY <1>1, DistTreeAssumption DEF Cloned, Listed
  <2>2. {Absent, Bare, Plain} \cap Shas = {} /\ Absent # Plain /\ Bare # Plain
    BY DistTreeAssumption
  <2> QED
    BY <2>1, <2>2 DEF CopiesOf
<1>4. \A r \in Runs : RunInv(gitlink, tree, prog[r])
  BY <1>1, IdleInv
<1> QED
  BY <1>2, <1>3, <1>4 DEF Inv

\* Every step of every run keeps the invariant.
LEMMA NextInv == Inv /\ [Next]_vars => Inv'
<1> SUFFICES ASSUME Inv, [Next]_vars PROVE Inv'
  OBVIOUS
<1>1. CASE Checkout
  BY <1>1, CheckoutInv
<1>2. CASE \E n \in Names : Remove(n)
  BY <1>2, RemoveInv
<1>3. ASSUME NEW r \in Runs,
             Begin(r) \/ ToggleModules(r) \/ Kill(r) \/ KillInUpdate(r)
      PROVE  Inv'
  <2>1. CASE Begin(r)
    BY <2>1, BeginInv
  <2>2. CASE Kill(r)
    BY <2>2, QuitInv DEF Kill
  <2>3. CASE KillInUpdate(r)
    BY <2>3, KillInUpdateInv
  <2>4. CASE UpdateFails(r)
    BY <2>4, QuitInv DEF UpdateFails
  <2>5. CASE EmptyRaises(r)
    BY <2>5, QuitInv DEF EmptyRaises
  <2>6. CASE Recover(r) \/ Restore(r) \/ Relist(r) \/ Expose(r)
    BY <2>6, RecoverInv, RestoreInv, RelistInv, ExposeInv
  <2>7. CASE Update(r) \/ NextModule(r) \/ Finish(r)
    BY <2>7, UpdateInv, NextModuleInv, FinishInv
  <2>8. CASE Stash(r) \/ Clear(r) \/ Empty(r) \/ Rmdir(r) \/ MoveToAttic(r)
    BY <2>8, StashInv, ClearInv, EmptyInv, RmdirInv, MoveToAtticInv
  <2> QED
    BY <1>3, <2>1, <2>2, <2>3, <2>4, <2>5, <2>6, <2>7, <2>8 DEF ToggleModules
<1>4. CASE UNCHANGED vars
  BY <1>4 DEF vars, Inv, TypeOK
<1> QED
  BY <1>1, <1>2, <1>3, <1>4 DEF Next

LEMMA SpecInv == Spec => []Inv
<1> QED
  BY InitInv, NextInv, PTL DEF Spec

-----------------------------------------------------------------------------
(* Theorems. *)

\* Every variable of every run, and every directory, keeps its type.
THEOREM TypeCorrect == Spec => []TypeOK
<1>1. Inv => TypeOK
  BY DEF Inv
<1> QED
  BY <1>1, SpecInv, PTL

\* However many runs share the distribution: once one has returned, exactly
\* the wanted modules are exposed, each at its listed commit, and whatever
\* the others still do leaves it so.
THEOREM DoneMatchesAlways == Spec => []DoneMatches
<1>1. Inv => DoneMatches
  BY DEF Inv, RunInv, OkMatches, Matches, DoneMatches
<1> QED
  BY <1>1, SpecInv, PTL

\* A run that has deleted the last populated copy of a module, which another
\* run had just moved to the attic, does not return.
THEOREM LossIsReportedAlways == Spec => []LossIsReported
<1>1. Inv => LossIsReported
  <2>1. ASSUME Inv, NEW r \in Runs, prog[r].pc = "ok"
        PROVE  prog[r].lost = {}
    BY <2>1 DEF Inv, RunInv, LossEnds
  <2> QED
    BY <2>1 DEF LossIsReported
<1> QED
  BY <1>1, SpecInv, PTL

\* What one step of one run does to the copies of wanted modules.
LEMMA StepKeepsWanted ==
  ASSUME Inv, NEW r \in Runs,
         Begin(r) \/ ToggleModules(r) \/ Kill(r) \/ KillInUpdate(r),
         NEW n \in Wanted(gitlink), Populated(n)
  PROVE  Populated(n)'
<1>1. /\ n \in Names
      /\ tree \in [Names -> Content]
      /\ attic \in [Names -> Content]
  BY DEF Inv, TypeOK, Wanted, Listed
<1>2. CASE UNCHANGED <<tree, attic>>
  BY <1>2 DEF Populated
<1>3. CASE Restore(r)
  <2> DEFINE m == Current(r).name
  <2>1. CASE CanRename(attic[m], tree[m])
    <3>1. prog[r].i \in DOMAIN prog[r].modules /\ Running(r)
      BY <1>3 DEF Restore, Inv, RunInv, InLoop, Running, Steps
    <3>2. m \in Names
      BY <3>1, CurrentWanted
    <3>3. /\ tree' = [tree EXCEPT ![m] = attic[m]]
          /\ attic' = [attic EXCEPT ![m] = Absent]
          /\ tree[m] \in {Absent, Bare}
      BY <1>3, <2>1 DEF Restore, CanRename
    <3>4. tree[m] \notin Shas
      BY <3>3, DistTreeAssumption
    <3> HIDE DEF m
    <3> QED
      BY <1>1, <3>2, <3>3, <3>4 DEF Populated
  <2>2. CASE ~CanRename(attic[m], tree[m])
    BY <1>2, <1>3, <2>2 DEF Restore
  <2> QED
    BY <2>1, <2>2
<1>4. CASE Update(r)
  <2> DEFINE m == Current(r).name
  <2>1. prog[r].i \in DOMAIN prog[r].modules /\ Running(r)
    BY <1>4, AtIndex DEF Update, Steps
  <2>2. m \in Names /\ gitlink[m] \in Shas
    BY <2>1, CurrentWanted
  <2>3. attic' = attic /\ (tree' = tree \/ tree' = [tree EXCEPT ![m] = gitlink[m]])
    BY <1>4 DEF Update
  <2> HIDE DEF m
  <2> QED
    BY <1>1, <2>2, <2>3 DEF Populated
<1>5. CASE KillInUpdate(r)
  <2> DEFINE m == Current(r).name
  <2>1. prog[r].i \in DOMAIN prog[r].modules /\ Running(r)
    BY <1>5, AtIndex DEF KillInUpdate, Steps
  <2>2. m \in Names
    BY <2>1, CurrentWanted
  <2>3. PICK c \in Shas : attic' = attic /\ tree' = [tree EXCEPT ![m] = c]
    BY <1>5 DEF KillInUpdate
  <2> HIDE DEF m
  <2> QED
    BY <1>1, <2>2, <2>3 DEF Populated
<1>6. CASE Clear(r) \/ Empty(r) \/ Rmdir(r) \/ MoveToAttic(r)
  <2> DEFINE m == Head(prog[r].exposed)
  <2>1. prog[r].pc \in Hiding
    BY <1>6 DEF Clear, Empty, Rmdir, MoveToAttic, Hiding
  <2>2. m \in Names /\ m # n
    BY <2>1, HidingFacts
  <2>3. /\ \/ UNCHANGED tree
           \/ tree' = [tree EXCEPT ![m] = Absent]
        /\ \/ UNCHANGED attic
           \/ \E c : attic' = [attic EXCEPT ![m] = c]
    BY <1>6 DEF Clear, Empty, Rmdir, MoveToAttic, Put
  <2> HIDE DEF m
  <2>4. tree'[n] = tree[n] /\ attic'[n] = attic[n]
    BY <1>1, <2>2, <2>3
  <2> QED
    BY <2>4 DEF Populated
<1> QED
  BY <1>2, <1>3, <1>4, <1>5, <1>6
     DEF ToggleModules, Begin, Kill, Recover, Relist, Expose, UpdateFails,
         NextModule, Finish, Stash, EmptyRaises

\* However many runs share the distribution, none of their steps destroys the
\* last populated copy of a wanted module.
THEOREM WantedSurviveAlways == Spec => WantedSurvive
<1> DEFINE Keeps ==
             ~Quiet => \A n \in Wanted(gitlink) : Populated(n) => Populated(n)'
<1>1. Inv /\ [Next]_vars => [Keeps]_vars
  <2> SUFFICES ASSUME Inv, Next, ~Quiet,
                      NEW n \in Wanted(gitlink), Populated(n)
               PROVE  Populated(n)'
    BY DEF vars
  <2>1. PICK r \in Runs :
          Begin(r) \/ ToggleModules(r) \/ Kill(r) \/ KillInUpdate(r)
    BY DEF Next, Checkout, Remove
  <2> QED
    BY <2>1, StepKeepsWanted
<1> QED
  BY <1>1, SpecInv, PTL DEF Spec, WantedSurvive

-----------------------------------------------------------------------------
(***************************************************************************)
(* Not all runs raise.  What the steps of the others add to RunInv is an   *)
(* order: every run stashes the unwanted directories in the order of their *)
(* names, so that whichever has just moved one has all that are after it   *)
(* still before it.                                                        *)
(***************************************************************************)

\* fetchFromAttic is done with a module.
Passed(t, a, n) == t[n] # Absent \/ a[n] = Absent

Recovered(g, t, a, p) ==
  /\ p.pc \in {"recover", "restore"} =>
       \A k \in DOMAIN p.modules : k < p.i => Passed(t, a, p.modules[k].name)
  /\ p.pc \in {"expose"} \cup Merging => \A n \in Wanted(g) : Passed(t, a, n)

\* A directory of the deque that is there has all those after it there.
GoneInOrder(g, t, p) ==
  p.pc \in Merging =>
    \A j, k \in DOMAIN p.exposed :
      (/\ p.exposed[j] \notin Wanted(g) /\ p.exposed[k] \notin Wanted(g)
       /\ j < k /\ t[p.exposed[j]] # Absent)
      => t[p.exposed[k]] # Absent

\* How far removeDir is with the copy in the attic, unless another run has
\* moved the directory there meanwhile.
AtticReady(t, a, p) ==
  p.pc \in Losing /\ t[Head(p.exposed)] # Absent =>
    /\ a[Head(p.exposed)] \notin Shas
    /\ p.pc # "empty" => a[Head(p.exposed)] \in {Absent, Bare}

OrderInv(g, t, a, p) ==
  Recovered(g, t, a, p) /\ GoneInOrder(g, t, p) /\ AtticReady(t, a, p)

\* Nothing has yet got in this run's way.
Fit(g, t, a, p) ==
  /\ p.pc # "raised"
  /\ p.pc = "restore" => /\ t[p.modules[p.i].name] = Absent
                         /\ a[p.modules[p.i].name] # Absent
  /\ p.pc \in Merging =>
       \A j \in DOMAIN p.exposed : p.exposed[j] \notin Wanted(g) => t[p.exposed[j]] # Absent

FitInv ==
  /\ Inv
  /\ \A r \in Runs : OrderInv(gitlink, tree, attic, prog[r])
  /\ \E r \in Runs : Fit(gitlink, tree, attic, prog[r])

\* What a step may do to the directories: no module must be recovered again,
\* an unwanted directory goes after all that sort before it, and the copy in
\* the attic of one that stays is not put back.
Yields(g, t, a, u, b) ==
  /\ \A n \in Wanted(g) : Passed(t, a, n) => Passed(u, b, n)
  /\ \A n \in Names \ Wanted(g) :
       u[n] # Absent =>
         /\ t[n] # Absent
         /\ a[n] \notin Shas => b[n] \notin Shas
         /\ a[n] \in {Absent, Bare} => b[n] \in {Absent, Bare}
         /\ \A m \in Names \ Wanted(g) : n < m /\ t[m] # Absent => u[m] # Absent

\* What leaves a run fit: no directory goes, none is recovered.
Spares(g, t, a, u, b) ==
  /\ \A n \in Wanted(g) : t[n] = Absent /\ a[n] # Absent => u[n] = Absent /\ b[n] # Absent
  /\ \A n \in Names \ Wanted(g) : t[n] # Absent => u[n] # Absent

\* The modules of a run's list are wanted ones.
LEMMA ListedWanted ==
  ASSUME NEW g, NEW t, NEW p \in Program, RunInv(g, t, p), p.pc \in Steps,
         NEW k \in DOMAIN p.modules
  PROVE  p.modules[k].name \in Wanted(g)
BY ProgramFields DEF RunInv, ListsWanted

\* What is in the deque, once there is one.
LEMMA Exposed ==
  ASSUME NEW g, NEW t, NEW p \in Program, RunInv(g, t, p), p.pc \in Merging
  PROVE  /\ \A j \in DOMAIN p.exposed : p.exposed[j] \in Names
         /\ \A j, k \in DOMAIN p.exposed : j < k => p.exposed[j] < p.exposed[k]
         /\ \A n \in Dirs(t) \ Wanted(g) : \E j \in DOMAIN p.exposed : p.exposed[j] = n
<1>1. \A j \in DOMAIN p.exposed : p.exposed[j] \in Names
  BY ProgramFields
<1> QED
  BY <1>1 DEF RunInv, WantedAhead, Accounted

\* The step of another run keeps the order.
LEMMA OrderStable ==
  ASSUME NEW g, NEW t, NEW a, NEW u, NEW b,
         NEW p \in Program, RunInv(g, t, p), OrderInv(g, t, a, p), Yields(g, t, a, u, b)
  PROVE  OrderInv(g, u, b, p)
<1>1. Recovered(g, u, b, p)
  <2>1. ASSUME p.pc \in {"recover", "restore"}, NEW k \in DOMAIN p.modules, k < p.i
        PROVE  Passed(u, b, p.modules[k].name)
    <3>1. p.pc \in Steps
      BY <2>1 DEF Steps
    <3>2. p.modules[k].name \in Wanted(g)
      BY <2>1, <3>1, ListedWanted
    <3> QED
      BY <2>1, <3>2 DEF OrderInv, Recovered, Yields
  <2>2. ASSUME p.pc \in {"expose"} \cup Merging, NEW n \in Wanted(g)
        PROVE  Passed(u, b, n)
    BY <2>2 DEF OrderInv, Recovered, Yields
  <2> QED
    BY <2>1, <2>2 DEF Recovered
<1>2. GoneInOrder(g, u, p)
  <2> SUFFICES ASSUME p.pc \in Merging, NEW j \in DOMAIN p.exposed, NEW k \in DOMAIN p.exposed,
                      p.exposed[j] \notin Wanted(g), p.exposed[k] \notin Wanted(g),
                      j < k, u[p.exposed[j]] # Absent
               PROVE  u[p.exposed[k]] # Absent
    BY DEF GoneInOrder
  <2>1. /\ p.exposed[j] \in Names \ Wanted(g) /\ p.exposed[k] \in Names \ Wanted(g)
        /\ p.exposed[j] < p.exposed[k]
    BY Exposed
  <2>2. t[p.exposed[j]] # Absent
    BY <2>1 DEF Yields
  <2>3. t[p.exposed[k]] # Absent
    BY <2>2 DEF OrderInv, GoneInOrder
  <2> QED
    BY <2>1, <2>3 DEF Yields
<1>3. AtticReady(u, b, p)
  <2> DEFINE h == Head(p.exposed)
  <2> SUFFICES ASSUME p.pc \in Losing, u[h] # Absent
               PROVE  b[h] \notin Shas /\ (p.pc # "empty" => b[h] \in {Absent, Bare})
    BY DEF AtticReady
  <2>1. p.exposed # <<>> /\ h \notin Wanted(g)
    BY DEF RunInv, MovesUnwanted, Losing
  <2>2. h \in Names
    BY <2>1, ProgramFields, HeadAndTail
  <2>3. t[h] # Absent
    BY <2>1, <2>2 DEF Yields
  <2>4. a[h] \notin Shas /\ (p.pc # "empty" => a[h] \in {Absent, Bare})
    BY <2>3 DEF OrderInv, AtticReady
  <2> QED
    BY <2>1, <2>2, <2>4 DEF Yields
<1> QED
  BY <1>1, <1>2, <1>3 DEF OrderInv

\* A run that is spared stays fit.
LEMMA FitStable ==
  ASSUME NEW g, NEW t, NEW a, NEW u, NEW b,
         NEW p \in Program, RunInv(g, t, p), Fit(g, t, a, p), Spares(g, t, a, u, b)
  PROVE  Fit(g, u, b, p)
<1>1. ASSUME p.pc = "restore"
      PROVE  u[p.modules[p.i].name] = Absent /\ b[p.modules[p.i].name] # Absent
  <2>1. p.pc \in Steps /\ p.i \in DOMAIN p.modules
    BY <1>1 DEF Steps, RunInv, InLoop
  <2>2. p.modules[p.i].name \in Wanted(g)
    BY <2>1, ListedWanted
  <2> QED
    BY <1>1, <2>2 DEF Fit, Spares
<1>2. ASSUME p.pc \in Merging, NEW j \in DOMAIN p.exposed, p.exposed[j] \notin Wanted(g)
      PROVE  u[p.exposed[j]] # Absent
  BY <1>2, Exposed DEF Fit, Spares
<1> QED
  BY <1>1, <1>2 DEF Fit

\* A step of r: what it does to the directories, and to itself, keeps the
\* invariant, if it stays fit or leaves another one fit.
LEMMA FitFrame ==
  ASSUME FitInv, Inv', NEW r \in Runs, UNCHANGED gitlink,
         \A q \in Runs \ {r} : prog'[q] = prog[q],
         Yields(gitlink, tree, attic, tree', attic'),
         OrderInv(gitlink, tree', attic', prog'[r]),
         \/ Fit(gitlink, tree', attic', prog'[r])
         \/ /\ Spares(gitlink, tree, attic, tree', attic')
            /\ Fit(gitlink, tree, attic, prog[r]) =>
                 \E q \in Runs \ {r} : Fit(gitlink, tree, attic, prog[q])
  PROVE  FitInv'
<1>1. ASSUME NEW q \in Runs PROVE OrderInv(gitlink, tree', attic', prog'[q])
  <2>1. CASE q = r
    BY <2>1
  <2>2. CASE q # r
    <3>1. prog[q] \in Program /\ RunInv(gitlink, tree, prog[q])
          /\ OrderInv(gitlink, tree, attic, prog[q])
      BY DEF FitInv, Inv, TypeOK
    <3> QED
      BY <2>2, <3>1, OrderStable
  <2> QED
    BY <2>1, <2>2
<1>2. \E q \in Runs : Fit(gitlink, tree', attic', prog'[q])
  <2>1. CASE Fit(gitlink, tree', attic', prog'[r])
    BY <2>1
  <2>2. CASE ~Fit(gitlink, tree', attic', prog'[r])
    <3>1. PICK q \in Runs \ {r} : Fit(gitlink, tree, attic, prog[q])
      BY <2>2 DEF FitInv
    <3>2. prog[q] \in Program /\ RunInv(gitlink, tree, prog[q])
      BY DEF FitInv, Inv, TypeOK
    <3>3. Fit(gitlink, tree', attic', prog[q])
      BY <2>2, <3>1, <3>2, FitStable
    <3> QED
      BY <3>1, <3>3
  <2> QED
    BY <2>1, <2>2
<1> QED
  BY <1>1, <1>2 DEF FitInv

\* A step that changes no directory.
LEMMA Peaceful ==
  ASSUME NEW g, NEW t, NEW a
  PROVE  Yields(g, t, a, t, a) /\ Spares(g, t, a, t, a)
BY DEF Yields, Spares

\* A run that ends leaves the order as it is, and is fit unless it raises.
LEMMA QuitFit ==
  ASSUME FitInv, Inv', NEW r \in Runs, NEW how \in Endings, EndRun(r, how), UNCHANGED gitlink,
         Yields(gitlink, tree, attic, tree', attic'),
         how = "raised" =>
           /\ Spares(gitlink, tree, attic, tree', attic')
           /\ Fit(gitlink, tree, attic, prog[r]) =>
                \E q \in Runs \ {r} : Fit(gitlink, tree, attic, prog[q])
  PROVE  FitInv'
<1>1. /\ prog'[r].pc = how
      /\ \A q \in Runs \ {r} : prog'[q] = prog[q]
  BY DEF FitInv, Inv, TypeOK, EndRun, Ended
<1>2. how \notin Steps /\ how \notin Merging /\ how \notin Losing
  BY DEF Endings, Steps, Merging, Hiding, Losing
<1>3. OrderInv(gitlink, tree', attic', prog'[r])
  BY <1>1, <1>2 DEF OrderInv, Recovered, GoneInOrder, AtticReady, Steps
<1>4. how # "raised" => Fit(gitlink, tree', attic', prog'[r])
  BY <1>1, <1>2 DEF Fit, Steps
<1> QED
  BY <1>1, <1>3, <1>4, FitFrame

\* What is known of a run and of the directories.
LEMMA RunFacts ==
  ASSUME FitInv, NEW r \in Runs
  PROVE  /\ prog \in [Runs -> Program] /\ prog[r] \in Program
         /\ tree \in [Names -> Content] /\ attic \in [Names -> Content]
         /\ gitlink \in Gitlinks /\ Inv
         /\ RunInv(gitlink, tree, prog[r])
         /\ OrderInv(gitlink, tree, attic, prog[r])
BY DEF FitInv, Inv, TypeOK

\* Before the update loop the order is that of recovering.
LEMMA EarlyFit ==
  ASSUME NEW g, NEW t, NEW a, NEW v, v.pc \in {"recover", "restore", "expose"},
         Recovered(g, t, a, v)
  PROVE  /\ OrderInv(g, t, a, v)
         /\ v.pc # "restore" => Fit(g, t, a, v)
<1>1. v.pc \notin Merging /\ v.pc \notin Losing /\ v.pc # "raised"
  BY DEF Merging, Losing, Hiding
<1> QED
  BY <1>1 DEF OrderInv, GoneInOrder, AtticReady, Fit

LEMMA BeginFit == ASSUME FitInv, Inv', NEW r \in Runs, Begin(r) PROVE FitInv'
<1>1. PICK ms \in ParseModules :
        prog' = [prog EXCEPT ![r] = [Ended("recover", {}) EXCEPT !.modules = ms]]
  BY DEF Begin
<1>2. /\ prog'[r].pc = "recover" /\ prog'[r].i = 1
      /\ \A q \in Runs \ {r} : prog'[q] = prog[q]
      /\ UNCHANGED <<gitlink, tree, attic>>
  BY <1>1, RunFacts DEF Begin, Ended
<1>3. prog'[r] \in Program
  BY DEF Inv, TypeOK
<1>4. \A k \in DOMAIN prog'[r].modules : ~(k < 1)
  BY <1>3, ProgramFields
<1>5. Recovered(gitlink, tree, attic, prog'[r])
  BY <1>2, <1>4 DEF Recovered, Merging
<1> QED
  BY <1>2, <1>5, EarlyFit, Peaceful, FitFrame

\* A module that need not be recovered is passed.
LEMMA RecoverFit == ASSUME FitInv, Inv', NEW r \in Runs, Recover(r) PROVE FitInv'
<1> DEFINE p == prog[r]
           n == Current(r).name
           missing == tree[n] = Absent /\ attic[n] # Absent
<1>1. /\ p \in Program /\ p.pc = "recover" /\ OrderInv(gitlink, tree, attic, p)
      /\ UNCHANGED <<gitlink, tree, attic>>
      /\ prog' = IF missing THEN [prog EXCEPT ![r].pc = "restore"]
                            ELSE [prog EXCEPT ![r].i = @ + 1]
  BY RunFacts DEF Recover, At
<1>2. /\ \A q \in Runs \ {r} : prog'[q] = prog[q]
      /\ prog'[r].modules = p.modules
      /\ missing => prog'[r].pc = "restore" /\ prog'[r].i = p.i
      /\ ~missing => prog'[r].pc = "recover" /\ prog'[r].i = p.i + 1
  BY <1>1, RunFacts DEF Program
<1>3. n = p.modules[p.i].name
  BY DEF Current
<1> HIDE DEF p, n
<1>4. \A k \in DOMAIN p.modules :
        k < p.i \/ (~missing /\ k < p.i + 1) => Passed(tree, attic, p.modules[k].name)
  <2> SUFFICES ASSUME NEW k \in DOMAIN p.modules, k < p.i \/ (~missing /\ k < p.i + 1)
               PROVE  Passed(tree, attic, p.modules[k].name)
    OBVIOUS
  <2>1. k < p.i \/ (~missing /\ k = p.i)
    BY <1>1, ProgramFields
  <2> QED
    BY <1>1, <1>3, <2>1 DEF OrderInv, Recovered, Passed
<1>5. Recovered(gitlink, tree, attic, prog'[r])
  BY <1>2, <1>4 DEF Recovered, Merging
<1>6. OrderInv(gitlink, tree, attic, prog'[r])
  BY <1>2, <1>5, EarlyFit
<1>7. Fit(gitlink, tree, attic, prog'[r])
  <2>1. CASE missing
    BY <1>2, <1>3, <2>1 DEF Fit, Merging
  <2>2. CASE ~missing
    BY <1>2, <1>5, <2>2, EarlyFit
  <2> QED
    BY <2>1, <2>2
<1> QED
  BY <1>1, <1>2, <1>6, <1>7, Peaceful, FitFrame

\* A run that recovers a module takes it from the others, and goes on; what
\* raises has been overtaken.
LEMMA RestoreFit == ASSUME FitInv, Inv', NEW r \in Runs, Restore(r) PROVE FitInv'
<1> DEFINE p == prog[r]
           n == Current(r).name
<1>1. /\ p \in Program /\ p.pc = "restore" /\ RunInv(gitlink, tree, p) /\ UNCHANGED gitlink
      /\ OrderInv(gitlink, tree, attic, p)
      /\ tree \in [Names -> Content] /\ attic \in [Names -> Content]
  BY RunFacts DEF Restore
<1>2. p.i \in DOMAIN p.modules /\ p.pc \in Steps
  BY <1>1 DEF RunInv, InLoop, Steps
<1>3. n = p.modules[p.i].name
  BY DEF Current
<1>4. n \in Names /\ n \in Wanted(gitlink)
  BY <1>1, <1>2, <1>3, ProgramFields, ListedWanted
<1>5. CASE CanRename(attic[n], tree[n])
  <2>1. /\ tree' = [tree EXCEPT ![n] = attic[n]]
        /\ attic' = [attic EXCEPT ![n] = Absent]
        /\ prog' = [prog EXCEPT ![r].pc = "recover", ![r].i = @ + 1, ![r].dirty = TRUE]
    BY <1>5 DEF Restore
  <2>2. /\ prog'[r].pc = "recover" /\ prog'[r].i = p.i + 1 /\ prog'[r].modules = p.modules
        /\ \A q \in Runs \ {r} : prog'[q] = prog[q]
    BY <1>1, <2>1, RunFacts DEF Program
  <2>3. attic[n] # Absent
    BY <1>5 DEF CanRename
  <2> HIDE DEF p, n
  <2>4. /\ tree'[n] # Absent
        /\ \A m \in Names \ {n} : tree'[m] = tree[m] /\ attic'[m] = attic[m]
    BY <1>1, <1>4, <2>1, <2>3
  <2>5. Yields(gitlink, tree, attic, tree', attic')
    <3>1. Wanted(gitlink) \subseteq Names
      BY DEF Wanted, Listed
    <3> QED
      BY <1>4, <2>4, <3>1 DEF Yields, Passed
  <2>6. OrderInv(gitlink, tree', attic', p)
    BY <1>1, <2>5, OrderStable
  <2>7. \A k \in DOMAIN p.modules : k < p.i + 1 => Passed(tree', attic', p.modules[k].name)
    <3> SUFFICES ASSUME NEW k \in DOMAIN p.modules, k < p.i + 1
                 PROVE  Passed(tree', attic', p.modules[k].name)
      OBVIOUS
    <3>1. k < p.i \/ k = p.i
      BY <1>1, ProgramFields
    <3> QED
      BY <1>1, <1>3, <2>4, <2>6, <3>1 DEF OrderInv, Recovered, Passed
  <2>8. Recovered(gitlink, tree', attic', prog'[r])
    BY <2>2, <2>7 DEF Recovered, Merging
  <2> QED
    BY <1>1, <2>2, <2>5, <2>8, EarlyFit, FitFrame
<1>6. CASE ~CanRename(attic[n], tree[n])
  <2>1. ~Fit(gitlink, tree, attic, p)
    BY <1>1, <1>3, <1>6 DEF Fit, CanRename
  <2>2. EndRun(r, "raised") /\ UNCHANGED <<tree, attic>>
    BY <1>6 DEF Restore
  <2> QED
    BY <1>1, <2>1, <2>2, Peaceful, QuitFit DEF Endings
<1> QED
  BY <1>5, <1>6

LEMMA RelistFit == ASSUME FitInv, Inv', NEW r \in Runs, Relist(r) PROVE FitInv'
<1> DEFINE p == prog[r]
<1>1. /\ p \in Program /\ p.pc = "recover" /\ p.i > Len(p.modules) /\ RunInv(gitlink, tree, p)
      /\ UNCHANGED <<gitlink, tree, attic>> /\ OrderInv(gitlink, tree, attic, p)
  BY RunFacts DEF Relist, After
<1>2. /\ prog'[r].pc = "expose"
      /\ \A q \in Runs \ {r} : prog'[q] = prog[q]
  BY RunFacts DEF Relist, Program
<1> HIDE DEF p
<1>3. ASSUME NEW n \in Wanted(gitlink) PROVE Passed(tree, attic, n)
  <2>1. n \in Names /\ p.pc \in Steps
    BY <1>1 DEF Wanted, Listed, Steps
  <2>2. PICK k \in DOMAIN p.modules : p.modules[k].name = n
    BY <1>1, <2>1 DEF RunInv, ListsWanted
  <2>3. k < p.i
    BY <1>1, ProgramFields
  <2> QED
    BY <1>1, <2>2, <2>3 DEF OrderInv, Recovered
<1>4. Recovered(gitlink, tree, attic, prog'[r])
  BY <1>2, <1>3 DEF Recovered
<1> QED
  BY <1>1, <1>2, <1>4, EarlyFit, Peaceful, FitFrame

\* A new list of the directories has nothing that is gone.
LEMMA ExposeFit == ASSUME FitInv, Inv', NEW r \in Runs, Expose(r) PROVE FitInv'
<1>1. PICK ds \in Ascending(Dirs(tree)) :
        prog' = [prog EXCEPT ![r].pc = "update", ![r].i = 1, ![r].exposed = ds]
  BY DEF Expose
<1>2. /\ prog'[r].pc = "update" /\ prog'[r].exposed = ds
      /\ \A q \in Runs \ {r} : prog'[q] = prog[q]
      /\ UNCHANGED <<gitlink, tree, attic>> /\ prog[r].pc = "expose"
      /\ OrderInv(gitlink, tree, attic, prog[r])
  BY <1>1, RunFacts DEF Expose, Program
<1>3. \A k \in DOMAIN ds : tree[ds[k]] # Absent
  <2>1. Dirs(tree) \in SUBSET Names
    BY DEF Dirs
  <2> QED
    BY <2>1, AscendingSeq DEF Dirs
<1>4. prog'[r].pc \notin Losing
  BY <1>2 DEF Losing, Hiding
<1>5. OrderInv(gitlink, tree, attic, prog'[r])
  BY <1>2, <1>3, <1>4 DEF OrderInv, Recovered, GoneInOrder, AtticReady, Merging
<1>6. Fit(gitlink, tree, attic, prog'[r])
  BY <1>2, <1>3 DEF Fit
<1> QED
  BY <1>2, <1>5, <1>6, Peaceful, FitFrame

\* git brings a wanted module there that no run has still to recover.
LEMMA Populates ==
  ASSUME FitInv, NEW r \in Runs, At(r, "update"),
         NEW c \in Shas, tree' = [tree EXCEPT ![Current(r).name] = c], UNCHANGED attic
  PROVE  /\ Yields(gitlink, tree, attic, tree', attic')
         /\ Spares(gitlink, tree, attic, tree', attic')
<1> DEFINE n == Current(r).name
<1>1. /\ OrderInv(gitlink, tree, attic, prog[r]) /\ tree \in [Names -> Content]
      /\ prog[r].pc = "update"
  BY RunFacts DEF At
<1>2. prog[r].i \in DOMAIN prog[r].modules /\ Running(r)
  BY RunFacts, AtIndex DEF Steps
<1>3. n \in Names /\ n \in Wanted(gitlink)
  BY <1>2, RunFacts, CurrentWanted
<1>4. Passed(tree, attic, n)
  BY <1>1, <1>3 DEF OrderInv, Recovered, Merging
<1>5. c # Absent
  BY DistTreeAssumption
<1>6. Wanted(gitlink) \subseteq Names
  BY DEF Wanted, Listed
<1> HIDE DEF n
<1>7. tree'[n] # Absent /\ \A m \in Names \ {n} : tree'[m] = tree[m]
  BY <1>1, <1>3, <1>5 DEF n
<1> QED
  BY <1>3, <1>4, <1>6, <1>7 DEF Yields, Spares, Passed

\* A step of the update loop that leaves the deque as it is.
LEMMA LoopFit ==
  ASSUME FitInv, Inv', NEW r \in Runs, UNCHANGED gitlink,
         \A q \in Runs \ {r} : prog'[q] = prog[q],
         prog[r].pc \in Merging, prog'[r].pc \in Merging,
         prog'[r].exposed = prog[r].exposed,
         Yields(gitlink, tree, attic, tree', attic'),
         Spares(gitlink, tree, attic, tree', attic'),
         AtticReady(tree', attic', prog'[r])
  PROVE  FitInv'
<1> DEFINE p == prog[r]
           v == prog'[r]
<1>1. /\ p \in Program /\ RunInv(gitlink, tree, p) /\ OrderInv(gitlink, tree, attic, p)
  BY RunFacts
<1> HIDE DEF p, v
<1>2. p.pc \in Merging /\ v.pc \in Merging /\ v.exposed = p.exposed
  BY DEF p, v
<1>3. v.pc \notin {"recover", "restore"} /\ v.pc # "raised"
  BY <1>2 DEF Merging
<1>4. OrderInv(gitlink, tree', attic', p)
  BY <1>1, OrderStable
<1>5. Recovered(gitlink, tree', attic', v) /\ GoneInOrder(gitlink, tree', v)
  BY <1>2, <1>3, <1>4 DEF OrderInv, Recovered, GoneInOrder
<1>6. OrderInv(gitlink, tree', attic', v)
  BY <1>5 DEF OrderInv, v
<1>7. Fit(gitlink, tree, attic, p) => Fit(gitlink, tree', attic', v)
  <2> SUFFICES ASSUME Fit(gitlink, tree, attic, p) PROVE Fit(gitlink, tree', attic', v)
    OBVIOUS
  <2>1. Fit(gitlink, tree', attic', p)
    BY <1>1, FitStable
  <2> QED
    BY <1>2, <1>3, <2>1 DEF Fit
<1> QED
  BY <1>6, <1>7, FitFrame DEF p, v

LEMMA UpdateFit == ASSUME FitInv, Inv', NEW r \in Runs, Update(r) PROVE FitInv'
<1>1. /\ At(r, "update") /\ prog[r].pc = "update" /\ UNCHANGED <<gitlink, attic>>
      /\ prog' = [prog EXCEPT ![r].pc = "sweep"]
  BY DEF Update, At
<1>2. /\ prog'[r].pc = "sweep" /\ prog'[r].exposed = prog[r].exposed
      /\ \A q \in Runs \ {r} : prog'[q] = prog[q]
  BY <1>1, RunFacts DEF Program
<1>3. /\ Yields(gitlink, tree, attic, tree', attic')
      /\ Spares(gitlink, tree, attic, tree', attic')
  <2>1. CASE tree' = tree
    BY <1>1, <2>1, Peaceful
  <2>2. CASE tree' = [tree EXCEPT ![Current(r).name] = gitlink[Current(r).name]]
    <3>1. gitlink[Current(r).name] \in Shas
      BY <1>1, RunFacts, AtIndex, CurrentWanted DEF Steps
    <3> QED
      BY <1>1, <2>2, <3>1, Populates
  <2> QED
    BY <2>1, <2>2 DEF Update
<1>4. AtticReady(tree', attic', prog'[r])
  BY <1>2 DEF AtticReady, Losing, Hiding
<1>5. prog[r].pc \in Merging /\ prog'[r].pc \in Merging
  BY <1>1, <1>2 DEF Merging
<1> QED
  BY <1>1, <1>2, <1>3, <1>4, <1>5, LoopFit

LEMMA KillInUpdateFit == ASSUME FitInv, Inv', NEW r \in Runs, KillInUpdate(r) PROVE FitInv'
<1>1. PICK c \in Shas : tree' = [tree EXCEPT ![Current(r).name] = c]
  BY DEF KillInUpdate
<1>2. At(r, "update") /\ EndRun(r, "killed") /\ UNCHANGED <<gitlink, attic>>
  BY DEF KillInUpdate
<1>3. Yields(gitlink, tree, attic, tree', attic')
  BY <1>1, <1>2, Populates
<1> QED
  BY <1>2, <1>3, QuitFit DEF Endings

LEMMA StashFit == ASSUME FitInv, Inv', NEW r \in Runs, Stash(r) PROVE FitInv'
<1>1. /\ prog[r].pc \in Merging /\ UNCHANGED <<gitlink, tree, attic>>
  BY DEF Stash, Stashing, After, Merging
<1>2. /\ \/ prog'[r].pc = "clear"
         \/ prog'[r].pc = "stash" /\ attic[Head(prog[r].exposed)] = Absent
      /\ prog'[r].exposed = prog[r].exposed
      /\ \A q \in Runs \ {r} : prog'[q] = prog[q]
  BY RunFacts DEF Stash, Program
<1>3. AtticReady(tree', attic', prog'[r])
  BY <1>1, <1>2, DistTreeAssumption DEF AtticReady, Losing, Hiding
<1>4. prog'[r].pc \in Merging
  BY <1>2 DEF Merging
<1> QED
  BY <1>1, <1>2, <1>3, <1>4, Peaceful, LoopFit

\* A step of removeDir, on the copy of the directory h that is being stashed.
LEMMA PutFit ==
  ASSUME FitInv, Inv', NEW r \in Runs, prog[r].pc \in Hiding, prog'[r].pc \in Losing,
         UNCHANGED <<gitlink, tree>>, prog'[r].exposed = prog[r].exposed,
         \A q \in Runs \ {r} : prog'[q] = prog[q],
         NEW c, attic' = [attic EXCEPT ![Head(prog[r].exposed)] = c],
         tree[Head(prog[r].exposed)] # Absent =>
           /\ c \notin Shas
           /\ attic[Head(prog[r].exposed)] \in {Absent, Bare} \/ prog'[r].pc # "empty"
                => c \in {Absent, Bare}
  PROVE  FitInv'
<1> DEFINE h == Head(prog[r].exposed)
<1>1. h \in Names \ Wanted(gitlink)
  BY RunFacts, HidingFacts
<1>2. attic \in [Names -> Content]
  BY RunFacts
<1>3. h = Head(prog'[r].exposed)
  OBVIOUS
<1> HIDE DEF h
<1>4. attic'[h] = c /\ \A n \in Names \ {h} : attic'[n] = attic[n]
  BY <1>1, <1>2 DEF h
<1>5. tree[h] # Absent => /\ c \notin Shas
                          /\ attic[h] \in {Absent, Bare} \/ prog'[r].pc # "empty"
                               => c \in {Absent, Bare}
  BY DEF h
<1>6. Yields(gitlink, tree, attic, tree', attic')
  <2>1. Wanted(gitlink) \subseteq Names \ {h}
    BY <1>1 DEF Wanted, Listed
  <2> QED
    BY <1>1, <1>4, <1>5, <2>1 DEF Yields, Passed
<1>7. Spares(gitlink, tree, attic, tree', attic')
  <2>1. Wanted(gitlink) \subseteq Names \ {h}
    BY <1>1 DEF Wanted, Listed
  <2> QED
    BY <1>4, <2>1 DEF Spares
<1>8. AtticReady(tree', attic', prog'[r])
  BY <1>3, <1>4, <1>5 DEF AtticReady
<1>9. prog[r].pc \in Merging /\ prog'[r].pc \in Merging
  BY DEF Hiding, Losing, Merging
<1> QED
  BY <1>6, <1>7, <1>8, <1>9, LoopFit

LEMMA ClearFit == ASSUME FitInv, Inv', NEW r \in Runs, Clear(r) PROVE FitInv'
<1> DEFINE h == Head(prog[r].exposed)
           c == IF attic[h] \in Shas THEN Plain ELSE attic[h]
<1>1. /\ prog[r].pc = "clear" /\ UNCHANGED <<gitlink, tree>> /\ attic' = [attic EXCEPT ![h] = c]
  BY DEF Clear, Put
<1>2. /\ prog'[r].pc = "empty" /\ prog'[r].exposed = prog[r].exposed
      /\ \A q \in Runs \ {r} : prog'[q] = prog[q]
  BY RunFacts DEF Clear, Put, Program
<1>3. prog[r].pc \in Hiding /\ prog'[r].pc \in Losing
  BY <1>1, <1>2 DEF Hiding, Losing
<1>4. c \notin Shas /\ (attic[h] \in {Absent, Bare} => c \in {Absent, Bare})
  BY DistTreeAssumption
<1> HIDE DEF c
<1> QED
  BY <1>1, <1>2, <1>3, <1>4, PutFit

LEMMA EmptyFit == ASSUME FitInv, Inv', NEW r \in Runs, Empty(r) PROVE FitInv'
<1> DEFINE h == Head(prog[r].exposed)
<1>1. PICK c \in IF attic[h] \in Shas THEN {attic[h], Plain, Bare}
                 ELSE IF attic[h] = Absent THEN {Absent} ELSE {Bare} : Put(r, h, c)
  BY DEF Empty
<1>2. prog[r].pc = "empty" /\ UNCHANGED <<gitlink, tree>> /\ attic' = [attic EXCEPT ![h] = c]
  BY <1>1 DEF Empty, Put
<1>3. /\ prog'[r].pc = "rmdir" /\ prog'[r].exposed = prog[r].exposed
      /\ \A q \in Runs \ {r} : prog'[q] = prog[q]
  BY <1>1, <1>2, RunFacts DEF Put, Program
<1>4. prog[r].pc \in Hiding /\ prog[r].pc \in Losing /\ prog'[r].pc \in Losing
  BY <1>2, <1>3 DEF Hiding, Losing
<1>5. tree[h] # Absent => attic[h] \notin Shas
  BY <1>4, RunFacts DEF OrderInv, AtticReady
<1>6. tree[h] # Absent => c \notin Shas /\ c \in {Absent, Bare}
  BY <1>1, <1>5, DistTreeAssumption
<1> QED
  BY <1>2, <1>3, <1>4, <1>6, PutFit

\* What cannot be removed, or moved, has been moved by another run.
LEMMA OvertakenUnfit ==
  ASSUME FitInv, NEW r \in Runs, prog[r].pc \in Hiding,
         tree[Head(prog[r].exposed)] = Absent
  PROVE  ~Fit(gitlink, tree, attic, prog[r])
<1>1. /\ prog[r] \in Program /\ prog[r].exposed # <<>> /\ prog[r].pc \in Merging
      /\ Head(prog[r].exposed) \in Names \ Wanted(gitlink)
  BY RunFacts, HidingFacts
<1>2. Head(prog[r].exposed) = prog[r].exposed[1] /\ 1 \in DOMAIN prog[r].exposed
  BY <1>1, ProgramFields, HeadAndTail
<1> QED
  BY <1>1, <1>2 DEF Fit

LEMMA RmdirFit == ASSUME FitInv, Inv', NEW r \in Runs, Rmdir(r) PROVE FitInv'
<1> DEFINE h == Head(prog[r].exposed)
<1>1. prog[r].pc = "rmdir" /\ UNCHANGED <<gitlink, tree>> /\ prog[r].pc \in Hiding
      /\ prog[r].pc \in Losing
  BY DEF Rmdir, Hiding, Losing
<1>2. CASE attic[h] \in {Absent, Bare}
  <2>1. attic' = [attic EXCEPT ![h] = Absent] /\ prog' = [prog EXCEPT ![r].pc = "stash"]
    BY <1>2 DEF Rmdir
  <2>2. /\ prog'[r].pc = "stash" /\ prog'[r].exposed = prog[r].exposed
        /\ \A q \in Runs \ {r} : prog'[q] = prog[q]
    BY <2>1, RunFacts DEF Program
  <2>3. prog'[r].pc \in Losing /\ Absent \notin Shas
    BY <2>2, DistTreeAssumption DEF Losing, Hiding
  <2> QED
    BY <1>1, <2>1, <2>2, <2>3, PutFit
<1>3. CASE attic[h] \notin {Absent, Bare}
  <2>1. tree[h] = Absent
    BY <1>1, <1>3, RunFacts DEF OrderInv, AtticReady
  <2>2. EndRun(r, "raised") /\ UNCHANGED attic
    BY <1>3 DEF Rmdir
  <2> QED
    BY <1>1, <2>1, <2>2, OvertakenUnfit, Peaceful, QuitFit DEF Endings
<1> QED
  BY <1>2, <1>3

\* Where two runs remove one copy, and one of them is fit, so is the other.
LEMMA EmptyRaisesFit == ASSUME FitInv, Inv', NEW r \in Runs, EmptyRaises(r) PROVE FitInv'
<1>1. PICK q \in Runs \ {r} : /\ prog[q].pc \in {"empty", "rmdir"}
                              /\ Head(prog[q].exposed) = Head(prog[r].exposed)
  BY DEF EmptyRaises
<1>2. prog[r].pc = "empty" /\ EndRun(r, "raised") /\ UNCHANGED <<gitlink, tree, attic>>
  BY DEF EmptyRaises
<1>3. prog[r].pc \in Hiding /\ prog[q].pc \in Hiding
  BY <1>1, <1>2 DEF Hiding
<1>4. ASSUME Fit(gitlink, tree, attic, prog[r]) PROVE Fit(gitlink, tree, attic, prog[q])
  <2> DEFINE e == prog[q].exposed
  <2>1. /\ prog[q] \in Program /\ e # <<>> /\ prog[q].pc \in Merging
        /\ Head(e) \in Names \ Wanted(gitlink) /\ OrderInv(gitlink, tree, attic, prog[q])
    BY <1>3, RunFacts, HidingFacts
  <2>2. tree[Head(e)] # Absent
    BY <1>1, <1>3, <1>4, OvertakenUnfit
  <2>3. e \in Seq(Names)
    BY <2>1, ProgramFields
  <2> HIDE DEF e
  <2>4. /\ Head(e) = e[1] /\ 1 \in DOMAIN e
        /\ \A j \in DOMAIN e : j = 1 \/ 1 < j
    BY <2>1, <2>3, HeadAndTail
  <2>5. ASSUME NEW j \in DOMAIN e, e[j] \notin Wanted(gitlink) PROVE tree[e[j]] # Absent
    BY <2>1, <2>2, <2>4, <2>5 DEF OrderInv, GoneInOrder, e
  <2> QED
    BY <1>1, <2>5 DEF Fit, e
<1> QED
  BY <1>2, <1>4, Peaceful, QuitFit DEF Endings

\* The first to move a directory has all those that are after it before it.
LEMMA MoveToAtticFit == ASSUME FitInv, Inv', NEW r \in Runs, MoveToAttic(r) PROVE FitInv'
<1> DEFINE p == prog[r]
           h == Head(p.exposed)
<1>1. /\ p.pc = "stash" /\ UNCHANGED gitlink /\ p.pc \in Hiding /\ p.pc \in Losing
  BY DEF MoveToAttic, Hiding, Losing
<1>2. /\ p \in Program /\ p.exposed # <<>> /\ p.pc \in Merging
      /\ RunInv(gitlink, tree, p) /\ OrderInv(gitlink, tree, attic, p)
      /\ h \in Names \ Wanted(gitlink)
      /\ tree \in [Names -> Content] /\ attic \in [Names -> Content]
  BY <1>1, RunFacts, HidingFacts
<1>3. CASE ~CanRename(tree[h], attic[h])
  <2>1. tree[h] = Absent
    BY <1>1, <1>2, <1>3 DEF CanRename, OrderInv, AtticReady
  <2>2. EndRun(r, "raised") /\ UNCHANGED <<tree, attic>>
    BY <1>3 DEF MoveToAttic
  <2> QED
    BY <1>1, <2>1, <2>2, OvertakenUnfit, Peaceful, QuitFit DEF Endings
<1>4. CASE CanRename(tree[h], attic[h])
  <2>1. /\ attic' = [attic EXCEPT ![h] = tree[h]]
        /\ tree' = [tree EXCEPT ![h] = Absent]
        /\ prog' = [prog EXCEPT ![r].pc = IF p.i <= Len(p.modules) THEN "sweep" ELSE "update",
                                ![r].exposed = Tail(@)]
    BY <1>4 DEF MoveToAttic
  <2>2. /\ prog'[r].pc \in {"sweep", "update"} /\ prog'[r].exposed = Tail(p.exposed)
        /\ \A q \in Runs \ {r} : prog'[q] = prog[q]
    BY <2>1, RunFacts DEF Program
  <2>3. tree[h] # Absent
    BY <1>4 DEF CanRename
  <2>4. /\ p.exposed \in Seq(Names) /\ h = p.exposed[1] /\ 1 \in DOMAIN p.exposed
        /\ \A j \in DOMAIN p.exposed : p.exposed[j] \in Names /\ j \in Nat /\ (j = 1 \/ 1 < j)
        /\ \A j, k \in DOMAIN p.exposed : j < k => p.exposed[j] < p.exposed[k]
        /\ \A n \in Dirs(tree) \ Wanted(gitlink) : \E j \in DOMAIN p.exposed : p.exposed[j] = n
    BY <1>2, ProgramFields, HeadAndTail, Exposed
  <2> HIDE DEF p, h
  <2>5. /\ tree'[h] = Absent
        /\ \A n \in Names \ {h} : tree'[n] = tree[n] /\ attic'[n] = attic[n]
    BY <1>2, <2>1
  <2>6. Yields(gitlink, tree, attic, tree', attic')
    <3>1. Wanted(gitlink) \subseteq Names \ {h}
      BY <1>2 DEF Wanted, Listed
    <3>2. ASSUME NEW n \in Names \ Wanted(gitlink), tree'[n] # Absent,
                 NEW m \in Names \ Wanted(gitlink), n < m, tree[m] # Absent
          PROVE  tree'[m] # Absent
      <4>1. n # h /\ n \in Dirs(tree) \ Wanted(gitlink)
        BY <2>5, <3>2 DEF Dirs
      <4>2. PICK j \in DOMAIN p.exposed : p.exposed[j] = n
        BY <2>4, <4>1
      <4>3. h < n
        BY <2>4, <4>1, <4>2
      <4>4. m # h
        BY <1>2, <3>2, <4>3, DistTreeAssumption
      <4> QED
        BY <2>5, <3>2, <4>4
    <3> QED
      BY <2>5, <3>1, <3>2 DEF Yields, Passed
  <2>7. OrderInv(gitlink, tree', attic', p)
    BY <1>2, <2>6, OrderStable
  <2>8. \A j \in DOMAIN Tail(p.exposed) :
          /\ j + 1 \in DOMAIN p.exposed /\ Tail(p.exposed)[j] = p.exposed[j + 1]
          /\ h < Tail(p.exposed)[j] /\ j \in Nat
    <3>1. \A j \in DOMAIN Tail(p.exposed) : j \in Nat
      BY <1>2, <2>4, HeadAndTail
    <3> QED
      BY <1>2, <2>4, <3>1, TailAscends DEF h
  <2>9. prog'[r].pc \in Merging /\ prog'[r].pc \notin Losing
    BY <2>2 DEF Merging, Losing, Hiding
  <2>10. OrderInv(gitlink, tree', attic', prog'[r])
    <3>1. Recovered(gitlink, tree', attic', prog'[r])
      BY <1>2, <2>2, <2>7 DEF OrderInv, Recovered, Merging
    <3>2. GoneInOrder(gitlink, tree', prog'[r])
      <4>1. \A j, k \in DOMAIN Tail(p.exposed) : j < k => j + 1 < k + 1
        BY <2>8
      <4> QED
        BY <1>2, <2>2, <2>7, <2>8, <4>1 DEF OrderInv, GoneInOrder
    <3>3. AtticReady(tree', attic', prog'[r])
      BY <2>9 DEF AtticReady
    <3> QED
      BY <3>1, <3>2, <3>3 DEF OrderInv
  <2>11. Fit(gitlink, tree', attic', prog'[r])
    <3>1. ASSUME NEW j \in DOMAIN Tail(p.exposed), Tail(p.exposed)[j] \notin Wanted(gitlink)
          PROVE  tree'[Tail(p.exposed)[j]] # Absent
      <4>1. /\ j + 1 \in DOMAIN p.exposed /\ Tail(p.exposed)[j] = p.exposed[j + 1]
            /\ h < p.exposed[j + 1] /\ 1 < j + 1
        BY <2>4, <2>8
      <4>2. tree[p.exposed[j + 1]] # Absent
        BY <1>2, <2>3, <2>4, <3>1, <4>1 DEF OrderInv, GoneInOrder
      <4>3. p.exposed[j + 1] \in Names \ {h}
        <5>1. p.exposed[j + 1] \in Names
          BY <2>4, <4>1
        <5>2. p.exposed[j + 1] \in Nat /\ h \in Nat
          BY <2>4, <5>1, DistTreeAssumption
        <5>3. p.exposed[j + 1] # h
          BY <4>1, <5>2
        <5> QED
          BY <5>1, <5>3
      <4> QED
        BY <2>5, <4>1, <4>2, <4>3
    <3> QED
      BY <2>2, <3>1 DEF Fit
  <2> QED
    BY <1>1, <2>2, <2>6, <2>10, <2>11, FitFrame
<1> QED
  BY <1>3, <1>4

\* The deque loses no more than the module that the loop has met.
LEMMA NextModuleFit == ASSUME FitInv, Inv', NEW r \in Runs, NextModule(r) PROVE FitInv'
<1> DEFINE p == prog[r]
           e == prog'[r].exposed
<1>1. /\ p.pc = "sweep" /\ UNCHANGED <<gitlink, tree, attic>> /\ p.pc \in Merging
      /\ p \in Program /\ OrderInv(gitlink, tree, attic, p)
  BY RunFacts DEF NextModule, Merging
<1>2. /\ prog'[r].pc = "update" /\ (e = p.exposed \/ (p.exposed # <<>> /\ e = Tail(p.exposed)))
      /\ \A q \in Runs \ {r} : prog'[q] = prog[q]
  BY RunFacts DEF NextModule, Program
<1>3. /\ prog'[r] \in Program /\ p.exposed \in Seq(Names) /\ e \in Seq(Names)
  BY <1>1, ProgramFields DEF Inv, TypeOK
<1> HIDE DEF p, e
<1>4. \/ e = p.exposed
      \/ \A j \in DOMAIN e : j \in Nat /\ j + 1 \in DOMAIN p.exposed /\ e[j] = p.exposed[j + 1]
  <2>1. CASE p.exposed # <<>> /\ e = Tail(p.exposed)
    <3>1. /\ DOMAIN e = 1..(Len(p.exposed) - 1) /\ DOMAIN p.exposed = 1..Len(p.exposed)
          /\ Len(p.exposed) \in Nat \ {0}
          /\ \A k \in 1..(Len(p.exposed) - 1) : e[k] = p.exposed[k + 1]
      BY <1>3, <2>1, HeadAndTail
    <3>2. \A j \in 1..(Len(p.exposed) - 1) : j \in Nat /\ j + 1 \in 1..Len(p.exposed)
      BY <3>1
    <3> QED
      BY <3>1, <3>2
  <2> QED
    BY <1>2, <2>1
<1>5. \A j, k \in DOMAIN e : j < k => j + 1 < k + 1
  BY <1>3
<1>6. GoneInOrder(gitlink, tree, prog'[r])
  BY <1>1, <1>4, <1>5 DEF OrderInv, GoneInOrder, e
<1>7. OrderInv(gitlink, tree, attic, prog'[r])
  BY <1>1, <1>2, <1>6
  DEF OrderInv, Recovered, AtticReady, Merging, Losing, Hiding
<1>8. Fit(gitlink, tree, attic, p) => Fit(gitlink, tree, attic, prog'[r])
  BY <1>1, <1>2, <1>4 DEF Fit, e
<1> QED
  BY <1>1, <1>2, <1>7, <1>8, Peaceful, FitFrame DEF p

\* Where no run has begun since the user changed something, each is fit.
LEMMA ResetFit ==
  ASSUME Inv', prog' = [r \in Runs |-> Ended("none", {})]
  PROVE  FitInv'
<1>1. \A r \in Runs : prog'[r].pc = "none"
  BY DEF Ended
<1>2. "none" \notin Steps /\ "none" \notin Merging /\ "none" \notin Losing
  BY DEF Steps, Merging, Losing, Hiding
<1>3. \A r \in Runs : OrderInv(gitlink', tree', attic', prog'[r])
  BY <1>1, <1>2 DEF OrderInv, Recovered, GoneInOrder, AtticReady, Steps
<1>4. \A r \in Runs : Fit(gitlink', tree', attic', prog'[r])
  BY <1>1, <1>2 DEF Fit, Steps
<1> QED
  BY <1>3, <1>4, TwoRunsAssumption DEF FitInv

LEMMA InitFit == Init => FitInv
<1> SUFFICES ASSUME Init PROVE FitInv
  OBVIOUS
<1>1. Inv /\ \A r \in Runs : prog[r].pc = "none"
  BY InitInv DEF Init, Ended
<1>2. "none" \notin Steps /\ "none" \notin Merging /\ "none" \notin Losing
  BY DEF Steps, Merging, Losing, Hiding
<1>3. \A r \in Runs : OrderInv(gitlink, tree, attic, prog[r])
  BY <1>1, <1>2 DEF OrderInv, Recovered, GoneInOrder, AtticReady, Steps
<1>4. \A r \in Runs : Fit(gitlink, tree, attic, prog[r])
  BY <1>1, <1>2 DEF Fit, Steps
<1> QED
  BY <1>1, <1>3, <1>4, TwoRunsAssumption DEF FitInv

LEMMA NextFit == FitInv /\ [Next]_vars => FitInv'
<1> SUFFICES ASSUME FitInv, [Next]_vars PROVE FitInv'
  OBVIOUS
<1>1. Inv'
  BY NextInv DEF FitInv
<1>2. CASE Checkout \/ \E n \in Names : Remove(n)
  BY <1>1, <1>2, ResetFit DEF Checkout, Remove
<1>3. ASSUME NEW r \in Runs,
             Begin(r) \/ ToggleModules(r) \/ Kill(r) \/ KillInUpdate(r)
      PROVE  FitInv'
  <2>1. CASE Begin(r) \/ KillInUpdate(r)
    BY <1>1, <2>1, BeginFit, KillInUpdateFit
  <2>2. CASE Kill(r) \/ UpdateFails(r) \/ Finish(r)
    BY <1>1, <2>2, Peaceful, QuitFit DEF Kill, UpdateFails, Finish, Endings
  <2>3. CASE Recover(r) \/ Restore(r) \/ Relist(r) \/ Expose(r)
    BY <1>1, <2>3, RecoverFit, RestoreFit, RelistFit, ExposeFit
  <2>4. CASE Update(r) \/ NextModule(r)
    BY <1>1, <2>4, UpdateFit, NextModuleFit
  <2>5. CASE Stash(r) \/ Clear(r) \/ Empty(r) \/ EmptyRaises(r) \/ Rmdir(r) \/ MoveToAttic(r)
    BY <1>1, <2>5, StashFit, ClearFit, EmptyFit, EmptyRaisesFit, RmdirFit, MoveToAtticFit
  <2> QED
    BY <1>3, <2>1, <2>2, <2>3, <2>4, <2>5 DEF ToggleModules
<1>4. CASE UNCHANGED vars
  BY <1>1, <1>4 DEF vars, FitInv
<1> QED
  BY <1>2, <1>3, <1>4 DEF Next

(***************************************************************************)
(* However many runs share the distribution and in whatever order they     *)
(* test, rename and remove, they never all end with an OSError: moveDir    *)
(* and removeDir raise in one only after another has moved the directory.  *)
(***************************************************************************)
THEOREM OneGetsThroughAlways == Spec => []OneGetsThrough
<1>1. FitInv => OneGetsThrough
  BY DEF FitInv, Fit, OneGetsThrough
<1> QED
  BY <1>1, InitFit, NextFit, PTL DEF Spec

-----------------------------------------------------------------------------
(* The two stages of a run, install and toggleModules, together. *)

\* A behaviour of the two is one of each, in which it moves or stays.
LEMMA StagesImplement == MCSpec => Spec /\ InstallSpec
<1>1. MCInit => Init /\ InstallInit
  BY DEF MCInit
<1>2. [MCNext]_runVars => [Next]_vars /\ [InstallNext]_installVars
  BY DEF MCNext, InstallStep, ToggleStep, runVars, vars, installVars
<1> QED
  BY <1>1, <1>2, PTL DEF MCSpec, Spec, InstallSpec

(***************************************************************************)
(* Every variable keeps its type while runs install the program and toggle *)
(* modules, and a copy is open only while it is written.                   *)
(***************************************************************************)
THEOREM StagesTyped == MCSpec => []MCTypeOK
<1> QED
  BY StagesImplement, TypeCorrect, InstallTypeAlways, PTL DEF MCTypeOK

(***************************************************************************)
(* The safety of both stages holds of the composition that is checked.     *)
(***************************************************************************)
THEOREM StagesSafe ==
  MCSpec => /\ [](DoneMatches /\ LossIsReported /\ OneGetsThrough)
            /\ [](ProgramSurvives /\ OneIsInstalled)
            /\ WantedSurvive
<1> QED
  BY StagesImplement, DoneMatchesAlways, LossIsReportedAlways, OneGetsThroughAlways,
     ProgramSurvivesAlways, OneIsInstalledAlways, WantedSurviveAlways, PTL
=============================================================================
