------------------------------ MODULE TaskPool ------------------------------
(***************************************************************************)
(* What a task executor promises its caller, with no slots, descriptors,   *)
(* cgroups or signals: a task is launched at most once, at most MaxActive  *)
(* run at a time, and every launched task either has its outcome handed to *)
(* the caller exactly once or is lost, together with all that run when the *)
(* executor goes away, or alone to an exception thrown while it is reaped. *)
(***************************************************************************)
EXTENDS Naturals, Sequences, FiniteSets

CONSTANTS Task,      \* the task configurations the caller has
          MaxActive, \* how many the caller lets run at once
          MayThrow   \* whether reaping a task may throw

VARIABLES state,     \* [Task -> what became of the task]
          reported   \* the outcomes handed out, in order

poolVars == <<state, reported>>

Running == {t \in Task : state[t] = "running"}

Init ==
    /\ state = [t \in Task |-> "pending"]
    /\ reported = <<>>

Launch(t) ==
    /\ state[t] = "pending"
    /\ Cardinality(Running) < MaxActive
    /\ state' = [state EXCEPT ![t] = "running"]
    /\ UNCHANGED reported

Report(t) ==
    /\ state[t] = "running"
    /\ state' = [state EXCEPT ![t] = "reported"]
    /\ reported' = Append(reported, t)

Lose(S) ==
    /\ state' = [t \in Task |-> IF t \in S THEN "lost" ELSE state[t]]
    /\ UNCHANGED reported

\* Reaping the task threw.
Drop(t) ==
    /\ MayThrow
    /\ state[t] = "running"
    /\ Lose({t})

\* The executor goes away.
End ==
    /\ Running # {}
    /\ Lose(Running)

Next ==
    \/ \E t \in Task : Launch(t) \/ Report(t) \/ Drop(t)
    \/ End

Spec == Init /\ [][Next]_poolVars
=============================================================================
