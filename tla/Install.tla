------------------------------- MODULE Install -------------------------------
(***************************************************************************)
(* install: a `git nim` that runs from elsewhere, where nimble or the user *)
(* has put it (outside), moves itself next to the compiler that is first   *)
(* in PATH (beside), replacing the program that may be there, starts that  *)
(* and waits for it.  A command is the process git starts, and the child   *)
(* that takes over from it; commands run at once and are killed at any     *)
(* time.  moveFile renames, or copies and removes where outside and beside *)
(* are on different file systems; each system call is a step.              *)
(***************************************************************************)
EXTENDS Naturals, FiniteSets

CONSTANTS
  Commands,   \* the commands that may run at once
  Inodes,     \* bound: files that exist or are executed
  None        \* no file

\* A program's file: its inode, whether it has all its bytes, the x permission.
File == [inode : Inodes, whole : BOOLEAN, exec : BOOLEAN]

ASSUME InstallAssumption ==
  /\ Commands # {}
  /\ None \notin Inodes \cup File
  /\ \E i, j \in Inodes : i # j

VARIABLES
  entry,      \* how PATH leads to nim: "none", "real", "alias" or "relative"
  device,     \* beside is on "same" device as outside, on "other", or on
              \* another while outside's directory cannot be "written"
  place,      \* the program's files: outside and beside
  cmd,        \* the commands
  torn        \* a run was killed while it copied what another was moving or
              \* had moved (an observation that the code does not make)

installVars == <<entry, device, place, cmd, torn>>

Places == {"outside", "beside"}

\* A command: its step or ending, the inode its process executes, the one its
\* waiting parent executes, the place that was its process's name, the inode
\* it copies to, and whether it was the last to truncate that.
Command == [pc : {"none", "look", "test", "rename", "open", "truncate", "write",
                  "chmod", "remove", "start", "main", "done", "failed", "killed"},
            exe : Inodes \cup {None}, parent : Inodes \cup {None},
            app : Places \cup {"gone", None}, dest : Inodes \cup {None}, last : BOOLEAN]

EndedCommand(how) ==
  [pc |-> how, exe |-> None, parent |-> None, app |-> None, dest |-> None, last |-> FALSE]

CommandRuns(c) == cmd[c].pc \notin {"none", "done", "failed", "killed"}

Copying(c) == cmd[c].pc \in {"truncate", "write"}

Moving(c) == cmd[c].pc \in {"truncate", "write", "chmod", "remove"}

NoCommandRuns == \A c \in Commands : ~CommandRuns(c)

Executed(i) == \E c \in Commands : i \in {cmd[c].exe, cmd[c].parent}

OpenForWriting(i) == \E c \in Commands : cmd[c].dest = i

NamesOf(i) == {p \in Places : place[p] # None /\ place[p].inode = i}

\* A new file gets a free inode; which one does not matter.
Free == {i \in Inodes : ~Executed(i) /\ ~OpenForWriting(i) /\ NamesOf(i) = {}}

NewInode == CHOOSE i \in Free : TRUE

WholeProgram(i) == [inode |-> i, whole |-> TRUE, exec |-> TRUE]

\* Beside is no program, an older one, or a hard link to the one outside.
InstallInit ==
  /\ entry \in {"none", "real", "alias", "relative"}
  /\ device \in {"same", "other", "readonly"}
  /\ LET i == CHOOSE i \in Inodes : TRUE
         j == CHOOSE j \in Inodes : j # i
     IN \E k \in {i, j} :
          /\ k = i => device = "same"
          /\ place \in [outside : {WholeProgram(i)}, beside : {None, WholeProgram(k)}]
  /\ cmd = [c \in Commands |-> EndedCommand("none")]
  /\ torn = FALSE

Step(c, from, to) ==
  cmd[c].pc = from /\ cmd' = [cmd EXCEPT ![c].pc = to]

End(c, how) == cmd' = [cmd EXCEPT ![c] = EndedCommand(how)]

-----------------------------------------------------------------------------
\* git finds the program in PATH and executes it.
Start(c) ==
  /\ ~CommandRuns(c)
  /\ \E p \in Places :
       /\ place[p] # None /\ place[p].whole /\ place[p].exec
       /\ ~OpenForWriting(place[p].inode)
       /\ cmd' = [cmd EXCEPT ![c] = [EndedCommand("look") EXCEPT !.exe = place[p].inode]]
  /\ UNCHANGED <<entry, device, place, torn>>

\* getAppFilename: the present name of the file that is executed.
GetAppFilename(c) ==
  /\ cmd[c].pc = "look"
  /\ LET names == NamesOf(cmd[c].exe) IN
     \E app \in IF names = {} THEN {"gone"} ELSE names :
       cmd' = [cmd EXCEPT ![c].pc = "test", ![c].app = app]
  /\ UNCHANGED <<entry, device, place, torn>>

\* Where `bin` leads from within nimbin: a relative entry is applied twice,
\* and the name of a file that is gone ends in " (deleted)".
BinExists(c) == entry # "relative" /\ cmd[c].app # "gone" /\ place.beside # None

SameFile(c) ==
  LET app == place[cmd[c].app] IN app # None /\ app.inode = place.beside.inode

\* Fault: names are compared, files are not.
InPlaceByName(c) ==
  entry = "none" \/ (entry = "real" /\ cmd[c].app = "beside")

\* The program is where it belongs: nim cannot be found, or the names are
\* equal, or they are of one file.
InPlace(c) ==
  \/ entry = "none"
  \/ entry = "real" /\ cmd[c].app = "beside"
  \/ BinExists(c) /\ SameFile(c)

GoOn(c) ==
  /\ Step(c, "test", "main")
  /\ InPlace(c)
  /\ UNCHANGED <<entry, device, place, torn>>

\* sameFile raises when the program's file has been moved away meanwhile.
SameFileRaises(c) ==
  /\ cmd[c].pc = "test" /\ ~InPlace(c)
  /\ BinExists(c) /\ place[cmd[c].app] = None
  /\ End(c, "failed")
  /\ UNCHANGED <<entry, device, place, torn>>

Move(c) ==
  /\ Step(c, "test", "rename")
  /\ ~InPlace(c)
  /\ BinExists(c) => place[cmd[c].app] # None
  /\ UNCHANGED <<entry, device, place, torn>>

\* By another name for its directory the program may be told to move to where
\* it is.
SameDevice(c) == device = "same" \/ cmd[c].app = "beside"

\* tryMoveFSObject: rename(2) fails for a source that is gone or a
\* destination in a directory that does not exist, and then raises.
Rename(c) ==
  /\ cmd[c].pc = "rename" /\ SameDevice(c)
  /\ IF entry = "relative" \/ cmd[c].app = "gone" \/ place[cmd[c].app] = None
     THEN End(c, "failed") /\ UNCHANGED place
     ELSE /\ place' = IF cmd[c].app = "beside" THEN place
                      ELSE [outside |-> None, beside |-> place.outside]
          /\ cmd' = [cmd EXCEPT ![c].pc = "start"]
  /\ UNCHANGED <<entry, device, torn>>

-----------------------------------------------------------------------------
(***************************************************************************)
(* Between two file systems moveFile copies, gives the copy the source's   *)
(* permissions, which fails silently, and removes the source; when that    *)
(* fails it removes the copy.                                              *)
(***************************************************************************)
OpenSource(c) ==
  /\ cmd[c].pc = "rename" /\ ~SameDevice(c)
  /\ IF entry = "relative" \/ cmd[c].app = "gone" \/ place.outside = None
     THEN End(c, "failed")
     ELSE cmd' = [cmd EXCEPT ![c].pc = "truncate"]
  /\ UNCHANGED <<entry, device, place, torn>>

\* A file that is executed cannot be opened for writing.
OpenDest(c) ==
  /\ cmd[c].pc = "truncate"
  /\ place.beside = None => Free # {}
  /\ LET old == place.beside
         i == IF old = None THEN NewInode ELSE old.inode
     IN IF Executed(i) THEN End(c, "failed") /\ UNCHANGED place
        ELSE /\ place' = [place EXCEPT !.beside =
                            IF old = None THEN [inode |-> i, whole |-> FALSE, exec |-> FALSE]
                            ELSE [old EXCEPT !.whole = FALSE]]
             /\ cmd' = [d \in Commands |->
                          IF d = c THEN [cmd[c] EXCEPT !.pc = "write", !.dest = i, !.last = TRUE]
                          ELSE IF cmd[d].dest = i THEN [cmd[d] EXCEPT !.last = FALSE]
                          ELSE cmd[d]]
  /\ UNCHANGED <<entry, device, torn>>

\* Fault: the copy is not closed.
WriteWithoutClose(c) ==
  /\ Step(c, "write", "chmod")
  /\ place' = IF cmd[c].last /\ "beside" \in NamesOf(cmd[c].dest)
              THEN [place EXCEPT !.beside.whole = TRUE] ELSE place
  /\ UNCHANGED <<entry, device, torn>>

\* Fault: the source is removed before its permissions are copied.
WriteAndRemove(c) ==
  /\ cmd[c].pc = "write"
  /\ place' = [outside |-> None,
               beside |-> IF "beside" \in NamesOf(cmd[c].dest)
                          THEN [place.beside EXCEPT !.whole = TRUE] ELSE place.beside]
  /\ cmd' = [cmd EXCEPT ![c].pc = "chmod", ![c].dest = None, ![c].last = FALSE]
  /\ UNCHANGED <<entry, device, torn>>

\* The bytes written before another run truncated the file are lost.
Write(c) ==
  /\ cmd[c].pc = "write"
  /\ place' = IF cmd[c].last /\ "beside" \in NamesOf(cmd[c].dest)
              THEN [place EXCEPT !.beside.whole = TRUE] ELSE place
  /\ cmd' = [cmd EXCEPT ![c].pc = "chmod", ![c].dest = None, ![c].last = FALSE]
  /\ UNCHANGED <<entry, device, torn>>

SetFilePermissions(c) ==
  /\ Step(c, "chmod", "remove")
  /\ place' = IF place.outside # None /\ place.beside # None
              THEN [place EXCEPT !.beside.exec = place.outside.exec] ELSE place
  /\ UNCHANGED <<entry, device, torn>>

\* Fault: removing what is gone fails too.
RemoveSourceOnce(c) ==
  /\ cmd[c].pc = "remove"
  /\ IF device = "readonly" \/ place.outside = None
     THEN End(c, "failed") /\ place' = [place EXCEPT !.beside = None]
     ELSE /\ cmd' = [cmd EXCEPT ![c].pc = "start"]
          /\ place' = [place EXCEPT !.outside = None]
  /\ UNCHANGED <<entry, device, torn>>

\* removeFile, which a source that is gone does not trouble.
RemoveSource(c) ==
  /\ cmd[c].pc = "remove"
  /\ IF device = "readonly"
     THEN End(c, "failed") /\ place' = [place EXCEPT !.beside = None]
     ELSE /\ cmd' = [cmd EXCEPT ![c].pc = "start"]
          /\ place' = [place EXCEPT !.outside = None]
  /\ UNCHANGED <<entry, device, torn>>

-----------------------------------------------------------------------------
\* startProcess: the child takes over, the parent waits.  A file that is not
\* whole, not executable or open for writing cannot be executed.
StartProcess(c) ==
  /\ cmd[c].pc = "start"
  /\ IF \/ place.beside = None \/ OpenForWriting(place.beside.inode)
        \/ ~place.beside.whole \/ ~place.beside.exec
     THEN End(c, "failed")
     ELSE cmd' = [cmd EXCEPT ![c] = [EndedCommand("look") EXCEPT !.exe = place.beside.inode,
                                                         !.parent = cmd[c].exe]]
  /\ UNCHANGED <<entry, device, place, torn>>

\* The rest of the command, and with it the waiting parent.
RunMain(c) ==
  /\ cmd[c].pc = "main" /\ End(c, "done")
  /\ UNCHANGED <<entry, device, place, torn>>

Proceed(c) ==
  \/ GetAppFilename(c) \/ GoOn(c) \/ SameFileRaises(c) \/ Move(c) \/ Rename(c)
  \/ OpenSource(c) \/ OpenDest(c) \/ Write(c) \/ SetFilePermissions(c) \/ RemoveSource(c)
  \/ StartProcess(c) \/ RunMain(c)

Tears(c) ==
  Copying(c) /\ (place.outside = None \/ \E d \in Commands \ {c} : Moving(d))

KillCommand(c) ==
  /\ CommandRuns(c) /\ End(c, "killed")
  /\ torn' = (torn \/ Tears(c))
  /\ UNCHANGED <<entry, device, place>>

\* nimble installs a new program outside; what was before is forgotten.
Build ==
  /\ NoCommandRuns /\ Free # {}
  /\ place' = [place EXCEPT !.outside = WholeProgram(NewInode)]
  /\ cmd' = [c \in Commands |-> EndedCommand("none")] /\ torn' = FALSE
  /\ UNCHANGED <<entry, device>>

InstallNext ==
  \/ \E c \in Commands : Start(c) \/ Proceed(c) \/ KillCommand(c)
  \/ Build

InstallSpec == InstallInit /\ [][InstallNext]_installVars

\* The commands are processes that wait for nothing but system calls.
InstallFairSpec == InstallSpec /\ \A c \in Commands : WF_installVars(Proceed(c))

-----------------------------------------------------------------------------
\* Variables keep their types, and a copy is open only while it is written.
InstallTypeOK ==
  /\ place \in [outside : File \cup {None}, beside : File \cup {None}]
  /\ cmd \in [Commands -> Command]
  /\ \A c \in Commands : /\ cmd[c].dest # None <=> cmd[c].pc = "write"
                         /\ cmd[c].last => cmd[c].dest # None

(***************************************************************************)
(* Moving never loses the program: there is a whole copy of it, or a       *)
(* process that is writing one, wherever a command is killed, unless that  *)
(* was while it copied what another one moved too.                         *)
(***************************************************************************)
ProgramSurvives ==
  \/ \E p \in Places : place[p] # None /\ place[p].whole /\ place[p].exec
  \/ \E c \in Commands : Copying(c)
  \/ torn

(***************************************************************************)
(* Where the program can be moved, commands that get into each other's way *)
(* do not all fail, and one that runs alone does not fail: the child of    *)
(* one of them reaches the file that is in place.                          *)
(***************************************************************************)
OneIsInstalled ==
  (entry # "relative" /\ device # "readonly" /\ ~torn)
  => \E c \in Commands : cmd[c].pc # "failed"

\* A command that cannot remove the program's old file takes back the new one.
TakesBack(c) == cmd[c].pc = "remove" /\ device = "readonly"

\* A command ends: a program that was moved is not moved again by its child,
\* unless another command takes back what the child was started from.
CommandsEnd ==
  \A c \in Commands :
    CommandRuns(c) ~> ~CommandRuns(c) \/ \E d \in Commands \ {c} : TakesBack(d)
=============================================================================
