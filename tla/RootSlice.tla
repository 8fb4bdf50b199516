----------------------------- MODULE RootSlice -----------------------------
(***************************************************************************)
(* How task_executor's constructor claims its root cgroup                  *)
(* (src/ivl/build_system/task_executor.hpp): every program that wants one  *)
(* enters parent.slice and asserts from pids.current that it is alone.     *)
(* There is no lock: the reads, the mkdir and the write of several         *)
(* programs interleave.  What follows a successful claim is TaskExecutor.  *)
(***************************************************************************)
EXTENDS Naturals, FiniteSets

CONSTANT Program  \* single-threaded programs that may construct an executor

ASSUME ProgramIsFinite == IsFiniteSet(Program)

VARIABLES at,      \* [Program -> what the constructor does next]
          exists,  \* parent.slice has been made
          members  \* processes charged to parent.slice, zombies included

vars == <<at, exists, members>>

Stages == {"stat", "mkdir", "check_empty", "join", "check_alone", "built", "ended"}

pids_current == Cardinality(members)

Goto(p, stage) == at' = [at EXCEPT ![p] = stage]

Stat(p) ==
    /\ at[p] = "stat"
    /\ Goto(p, IF exists THEN "check_empty" ELSE "mkdir")
    /\ UNCHANGED <<exists, members>>

\* mkdir throws when another program was faster.
Mkdir(p) ==
    /\ at[p] = "mkdir"
    /\ Goto(p, IF exists THEN "ended" ELSE "check_empty")
    /\ exists' = TRUE
    /\ UNCHANGED members

\* A failed contract_assert ends the program.
CheckEmpty(p) ==
    /\ at[p] = "check_empty"
    /\ Goto(p, IF pids_current = 0 THEN "join" ELSE "ended")
    /\ UNCHANGED <<exists, members>>

\* Faulty: the write to cgroup.procs is lost.
JoinLost(p) ==
    /\ at[p] = "join"
    /\ Goto(p, "check_alone")
    /\ UNCHANGED <<exists, members>>

Join(p) ==
    /\ at[p] = "join"
    /\ members' = members \cup {p}
    /\ Goto(p, "check_alone")
    /\ UNCHANGED exists

\* Faulty: only asserts that it joined.
CheckJoined(p) ==
    /\ at[p] = "check_alone"
    /\ Goto(p, IF pids_current >= 1 THEN "built" ELSE "ended")
    /\ UNCHANGED <<exists, members>>

CheckAlone(p) ==
    /\ at[p] = "check_alone"
    /\ Goto(p, IF pids_current = 1 THEN "built" ELSE "ended")
    /\ UNCHANGED <<exists, members>>

\* The program returns or dies, at any point.
End(p) ==
    /\ at[p] # "ended"
    /\ Goto(p, "ended")
    /\ UNCHANGED <<exists, members>>

\* Its parent waits for it, which uncharges it; it may be run again.
WaitedFor(p) ==
    /\ at[p] = "ended"
    /\ members' = members \ {p}
    /\ Goto(p, "stat")
    /\ UNCHANGED exists

Init ==
    /\ at = [p \in Program |-> "stat"]
    /\ exists = FALSE
    /\ members = {}

Next == \E p \in Program :
    \/ Stat(p) \/ Mkdir(p) \/ CheckEmpty(p) \/ Join(p) \/ CheckAlone(p)
    \/ End(p) \/ WaitedFor(p)

Spec == Init /\ [][Next]_vars

-----------------------------------------------------------------------------
\* Types of all variables.
TypeOK ==
    /\ at \in [Program -> Stages]
    /\ exists \in BOOLEAN
    /\ members \subseteq Program

\* At most one executor is constructed for a root, so none kills or removes the
\* cgroups of another while it cleans up or collides with a name.
OneExecutor ==
    \A p, q \in Program : (at[p] = "built" /\ at[q] = "built") => p = q

\* Inductive strengthening: whoever passed the join is still counted.
JoinedAreMembers == \A p \in Program : at[p] \in {"check_alone", "built"} => p \in members

IInv == TypeOK /\ JoinedAreMembers /\ OneExecutor
=============================================================================
