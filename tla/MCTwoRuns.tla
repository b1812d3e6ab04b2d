----------------------------- MODULE MCTwoRuns -----------------------------
(***************************************************************************)
(* Two runs of `git nim` at once: their toggleModules in one distribution  *)
(* and, before that, their install.  The two share no variable, so that a  *)
(* behaviour shows one of them, the stage, while the other stays as it     *)
(* starts; their states add up instead of multiplying.                     *)
(***************************************************************************)
EXTENDS TwoRuns, Install

CONSTANTS s1, s2

VARIABLE stage

runVars == <<stage, vars, installVars>>

\* One branch lists both names, one lists the second at another commit, and
\* one lists neither: both modules can be hidden, or recovered, by one run.
MCReleases ==
  { [n \in Names |-> s1],
    [n \in Names |-> IF n = 2 THEN s2 ELSE Absent],
    [n \in Names |-> Absent] }

\* A file has a name, of two, or is executed, by a waiting parent or a child.
MCInodes == 1 .. 2 + 2 * Cardinality(Commands)

\* What the stage is not about is fixed.
MCInit ==
  /\ Init /\ InstallInit
  /\ stage \in {"install", "toggle"}
  /\ stage = "install" => gitlink = [n \in Names |-> s1]
  /\ stage = "toggle" => entry = "none" /\ device = "other" /\ place.beside = None

InstallStep(A) == stage = "install" /\ A /\ UNCHANGED <<stage, vars>>
ToggleStep(A) == stage = "toggle" /\ A /\ UNCHANGED <<stage, installVars>>

MCNext == InstallStep(InstallNext) \/ ToggleStep(Next)

\* The steps a run takes by itself, and whether it has any left.
OwnStep(r) == InstallStep(Proceed(r)) \/ ToggleStep(ToggleModules(r))
UnderWay(r) == CommandRuns(r) \/ Running(r)

\* The fairness of both stages.
MCSpec ==
  /\ MCInit /\ [][MCNext]_runVars
  /\ \A r \in Runs : WF_runVars(OwnStep(r))

-----------------------------------------------------------------------------
\* The variables of both stages keep their types.
MCTypeOK == TypeOK /\ InstallTypeOK

\* Each stage of every run ends: the loops of toggleModules make progress, and
\* a program that was moved is not moved again by its child, unless another
\* command takes it back, as one after the other might for ever.
RunsEnd ==
  \A r \in Runs :
    UnderWay(r) ~> ~UnderWay(r) \/ \E q \in Runs \ {r} : TakesBack(q)
=============================================================================
