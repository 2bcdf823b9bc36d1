---------------------------- MODULE MCRiepilogo ----------------------------
(***************************************************************************)
(* Instances for TLC of the three programs that log accesses: a behaviour  *)
(* is one of Lab05's or of Lab07's, which share the specification of       *)
(* module Riepilogo, or one of Lab04's, as program says.  They are         *)
(* versions of one program and share the variables that they all have;     *)
(* those of the other version keep their initial values.                   *)
(***************************************************************************)
EXTENDS Riepilogo

CONSTANT PolledChildren   \* the children of Lab04's program

VARIABLES program, linked, ready_sem, start_sem, halt_sem, file_sem

Lab04 == INSTANCE RiepilogoLab04 WITH Children <- PolledChildren

ASSUME Lab04Assumption == Lab04!ParametersAssumption

flagVars == <<by_name, names, data, sems, failures>>
polledVars == <<linked, ready_sem, start_sem, halt_sem, file_sem>>
allVars == <<program, vars, polledVars>>

FlagInit == /\ program = "flag"
            /\ Init
            /\ linked = FALSE /\ file_sem = [c \in PolledChildren |-> 1]
            /\ ready_sem = 0 /\ start_sem = 0 /\ halt_sem = 0

PolledInit == /\ program = "polled"
              /\ Lab04!Init
              /\ by_name = FALSE /\ names = {} /\ data = 0 /\ failures = 0
              /\ main_waits_for_children = 0 /\ children_wait_for_main = 0
              /\ critical_section = 0

ProgramsInit == FlagInit \/ PolledInit

Flag   == program = "flag" /\ UNCHANGED <<program, polledVars>>
Polled == program = "polled" /\ UNCHANGED <<program, flagVars>>

ProgramsNext == \/ Flag /\ Next
                \/ Polled /\ Lab04!Next

\* The fairness of the two specifications, each for its own program.
ProgramsFairness ==
  /\ WF_allVars(Flag /\ MainStep)
  /\ \A c \in Children : /\ WF_allVars(Flag /\ ChildStep(c))
                         /\ \A w \in Workers : WF_allVars(Flag /\ ThreadStep(c, w))
  /\ WF_allVars(Polled /\ Lab04!MainStep)
  /\ \A c \in PolledChildren :
        /\ WF_allVars(Polled /\ Lab04!ChildStep(c))
        /\ \A w \in Workers : WF_allVars(Polled /\ Lab04!ThreadStep(c, w))

ProgramsSpec == ProgramsInit /\ [][ProgramsNext]_allVars /\ ProgramsFairness

\* Every version keeps the types of its variables.
TypesOK == IF program = "flag" THEN TypeOK ELSE Lab04!TypeOK

\* At most one thread has the log open: of all the processes, or in Lab04 of
\* each process.
OneWriterAtATime == IF program = "flag" THEN OneWriter ELSE Lab04!OneThreadPerProcess

\* Nothing that is logged is lost: main counts all of it, or in Lab04, where
\* main does not wait, all of a child's is in the log once it has ended.
LogsComplete == IF program = "flag" THEN ParsesEverything ELSE Lab04!LogComplete

\* No child begins before all are ready (Lab05 and Lab07).
StartsTogether == program = "flag" => StartTogether

\* main ends, with its names removed, unless a child has failed; in Lab04 the
\* children end as well.
EndsWellOrFails == /\ program = "flag" => EndsWell
                   /\ program = "polled" => Lab04!EverybodyEnds
=============================================================================
