---------------------------- MODULE TaskExecutor ----------------------------
(***************************************************************************)
(* ivl::build_system::task_executor (src/ivl/build_system/                 *)
(* task_executor.hpp): runs processes in cgroups of their own under a      *)
(* memory and a time limit, watches a pidfd and a timerfd of each with     *)
(* epoll, and kills and reaps the one that an event arrives for.           *)
(*                                                                         *)
(* The executor is single threaded.  A handler is split only where it      *)
(* blocks or loops on state that other processes change (create_new_cgroup *)
(* and waitid), so that the kernel, the tasks and a crash interleave there.*)
(***************************************************************************)
EXTENDS Integers, Sequences, FiniteSets

CONSTANTS Task,       \* task_configs, each launched at most once; also names its process
          Name,       \* the child.XXXXXXXX.slice names rand() can produce
          Tiny,       \* tasks whose memory limit is under one page
          MaxActive,  \* the caller's bound on active_task_count
          Fault       \* which system calls may fail, and whether the executor may die

ASSUME TaskIsFinite == IsFiniteSet(Task)
ASSUME TinyIsTask == Tiny \subseteq Task
ASSUME MaxActiveIsPositive == MaxActive \in Nat \ {0}
ASSUME FaultIsKnown == Fault \subseteq {"crash", "clone", "epoll", "kill", "collect"}

VARIABLES
  pc,                  \* where the executor process is
  cur,                 \* locals of the running call
  tasks,               \* one running_task_state per slot
  unused_slots,        \* stack of reusable slots
  task_index_to_slot,  \* task index |-> slot, active tasks only
  active_task_count,
  seen_task_count,
  epoll,               \* registrations of efd
  timer,               \* [Task -> its timerfd]
  proc,                \* [Task -> the process cloned for it]
  home,                \* [Task -> cgroup directory it was cloned into]
  strays,              \* [Name -> its descendants in that cgroup]
  cgroup,              \* [Name -> the directory, by the content of memory.max]
  listing,             \* directories the constructor still has to clean
  outcomes             \* tasks whose outcome the caller got (history)

slotVars == <<tasks, unused_slots, task_index_to_slot, active_task_count, seen_task_count>>
procVars == <<proc, home, strays>>
vars == <<pc, cur, slotVars, epoll, timer, procVars, cgroup, listing, outcomes>>

NoTask == "no_task"
NoDir == "no_directory"
NoCall == [task |-> NoTask, dir |-> NoDir, slot |-> 0]

\* The value (size_t)-1 that terminate_and_reap stores in task_index.
Reaped == -1

\* pidfd and timerfd are opened and closed together, so one flag stands for both.
SlotState == [index : Nat \cup {Reaped}, task : Task, dir : Name, open : BOOLEAN]

Slots == 1 .. Len(tasks)
SlotOf(i) == task_index_to_slot[i]
ActiveIndices == DOMAIN task_index_to_slot

\* Faulty: asks the map, which the destructor has destroyed by then.
IsReapedByMap(s) == s.index \notin ActiveIndices

IsReaped(s) == s.index = Reaped \/ ~s.open

-----------------------------------------------------------------------------
(* The kernel.                                                             *)

\* cgroup.procs is not empty: rmdir answers EBUSY.  A zombie does not count.
Populated(n) ==
    \/ strays[n] # "none"
    \/ \E t \in Task : home[t] = n /\ proc[t] \in {"live", "doomed"}

\* Faulty: memory.max is not written first.
RmdirUnmarked(n, otherwise) == IF Populated(n) THEN cgroup[n] ELSE "absent"

RmdirOutcome(n, otherwise) == IF Populated(n) THEN otherwise ELSE "absent"

\* Faulty: signals the leader alone.
KillLeader(n) ==
    /\ proc' = [t \in Task |-> IF home[t] = n /\ proc[t] = "live" THEN "doomed" ELSE proc[t]]
    /\ UNCHANGED <<home, strays>>

\* Faulty: kills the whole root instead of the child cgroup.
KillRoot(n) ==
    /\ proc' = [t \in Task |-> IF proc[t] = "live" THEN "doomed" ELSE proc[t]]
    /\ strays' = [m \in Name |-> IF strays[m] = "live" THEN "doomed" ELSE strays[m]]
    /\ UNCHANGED home

\* Faulty: the write is lost.
KillNothing(n) == UNCHANGED procVars

\* Writing 1 to cgroup.kill: SIGKILL becomes pending for all members.
KillCgroup(n) ==
    /\ cgroup[n] # "absent"
    /\ proc' = [t \in Task |-> IF home[t] = n /\ proc[t] = "live" THEN "doomed" ELSE proc[t]]
    /\ strays' = [strays EXCEPT ![n] = IF @ = "live" THEN "doomed" ELSE @]
    /\ UNCHANGED home

\* The write fails: the file of a directory that was removed cannot be opened.
KillThrows(n) == "kill" \in Fault \/ cgroup[n] = "absent"

\* So fails what terminate_and_reap reads and writes there after waitid.
CollectThrows(n) == "collect" \in Fault \/ cgroup[n] = "absent"

\* Parent death: PR_SET_PDEATHSIG reaches the children, not their descendants.
ParentDies ==
    /\ proc' = [t \in Task |-> IF proc[t] = "live" THEN "doomed" ELSE proc[t]]
    /\ UNCHANGED <<home, strays>>

\* Faulty: every limit rounds down to nothing.
LimitMarkZero(t) == "zero"

\* What memory.max reads as after the limit was written: whole pages.
LimitMark(t) == IF t \in Tiny THEN "zero" ELSE "limit"

Watch(t, k, i) == [task |-> t, kind |-> k, index |-> i]

\* Faulty: nobody looks at the timer.
ReadyByPidfd(w) == w.kind = "pidfd" /\ proc[w.task] \in {"zombie", "reaped"}

\* A pidfd stays readable after the process was waited for.
Ready(w) ==
    CASE w.kind = "pidfd"   -> proc[w.task] \in {"zombie", "reaped"}
      [] w.kind = "timerfd" -> timer[w.task] = "expired"

\* Faulty: the pidfd is not closed.
EvictedTimer(s) == {w \in epoll : s.open /\ w.task = s.task /\ w.kind = "timerfd"}

\* Closing the last descriptor evicts its registration.
EvictedBy(s) == {w \in epoll : s.open /\ w.task = s.task}

LeaderExits(t) ==
    /\ proc[t] = "live"
    /\ proc' = [proc EXCEPT ![t] = "zombie"]
    /\ UNCHANGED <<pc, cur, slotVars, epoll, timer, home, strays, cgroup, listing, outcomes>>

LeaderForks(t) ==
    /\ proc[t] = "live"
    /\ strays' = [strays EXCEPT ![home[t]] = "live"]
    /\ UNCHANGED <<pc, cur, slotVars, epoll, timer, proc, home, cgroup, listing, outcomes>>

LeaderKilled(t) ==
    /\ proc[t] = "doomed"
    /\ proc' = [proc EXCEPT ![t] = "zombie"]
    /\ UNCHANGED <<pc, cur, slotVars, epoll, timer, home, strays, cgroup, listing, outcomes>>

StraysGone(n) ==
    /\ strays[n] # "none"
    /\ strays' = [strays EXCEPT ![n] = "none"]
    /\ UNCHANGED <<pc, cur, slotVars, epoll, timer, proc, home, cgroup, listing, outcomes>>

TimerExpires(t) ==
    /\ timer[t] = "armed"
    /\ timer' = [timer EXCEPT ![t] = "expired"]
    /\ UNCHANGED <<pc, cur, slotVars, epoll, procVars, cgroup, listing, outcomes>>

-----------------------------------------------------------------------------
(* Construction, destruction and death of the executor.                    *)

NoSlots ==
    /\ tasks' = <<>>
    /\ unused_slots' = <<>>
    /\ task_index_to_slot' = <<>>
    /\ active_task_count' = 0
    /\ seen_task_count' = 0

AfterCleaning(rest) == IF rest = {} THEN "idle" ELSE "constructing"

\* The parent.slice checks are module RootSlice.
Construct ==
    /\ pc = "down"
    /\ listing' = {n \in Name : cgroup[n] # "absent"}
    /\ pc' = AfterCleaning(listing')
    /\ UNCHANGED <<cur, slotVars, epoll, timer, procVars, cgroup, outcomes>>

CleanLeftover(n) ==
    /\ pc = "constructing"
    /\ n \in listing
    /\ KillCgroup(n)
    /\ cgroup' = [cgroup EXCEPT ![n] = RmdirOutcome(n, "zero")]
    /\ listing' = listing \ {n}
    /\ pc' = AfterCleaning(listing')
    /\ UNCHANGED <<cur, slotVars, epoll, timer, outcomes>>

\* Descriptors close, memory is gone, PDEATHSIG fires.
ProcessEnds ==
    /\ pc' = "down"
    /\ cur' = NoCall
    /\ NoSlots
    /\ epoll' = {}
    /\ timer' = [t \in Task |-> "none"]
    /\ listing' = {}
    /\ ParentDies
    /\ UNCHANGED <<cgroup, outcomes>>

Crash ==
    /\ pc # "down"
    /\ "crash" \in Fault \/ pc \in {"aborted", "terminated"}
    /\ ProcessEnds

-----------------------------------------------------------------------------
(* launch_task.                                                            *)

\* The timer is armed before the cgroup is named and the process exists.
launch_task(t) ==
    /\ pc = "idle"
    /\ active_task_count < MaxActive
    /\ proc[t] = "none"
    /\ timer' = [timer EXCEPT ![t] = "armed"]
    /\ cur' = [NoCall EXCEPT !.task = t]
    /\ pc' = "create_new_cgroup"
    /\ UNCHANGED <<slotVars, epoll, procVars, cgroup, listing, outcomes>>

\* Faulty: removes any directory it can.
NameTakenUnchecked(n) ==
    /\ pc = "create_new_cgroup"
    /\ cgroup[n] # "absent"
    /\ cgroup' = [cgroup EXCEPT ![n] = RmdirOutcome(n, @)]
    /\ UNCHANGED <<pc, cur, slotVars, epoll, timer, procVars, listing, outcomes>>

\* rand() hit an existing directory: drop it if it is a dead one, draw again.
NameTaken(n) ==
    /\ pc = "create_new_cgroup"
    /\ cgroup[n] # "absent"
    /\ cgroup' = [cgroup EXCEPT ![n] = IF @ = "zero" THEN RmdirOutcome(n, "zero") ELSE @]
    /\ UNCHANGED <<pc, cur, slotVars, epoll, timer, procVars, listing, outcomes>>

NameFresh(n) ==
    /\ pc = "create_new_cgroup"
    /\ cgroup[n] = "absent"
    /\ cgroup' = [cgroup EXCEPT ![n] = "max"]
    /\ cur' = [cur EXCEPT !.dir = n]
    /\ pc' = "clone"
    /\ UNCHANGED <<slotVars, epoll, timer, procVars, listing, outcomes>>

\* Faulty: keeps the last slot in reserve.
ReusingTwo == Len(unused_slots) > 1

Reusing == unused_slots # <<>>

\* Faulty: takes the bottom of the stack, pops the top.
TakenBottom == IF Reusing THEN unused_slots[1] ELSE Len(tasks) + 1

\* Faulty: off by one.
TakenLast == IF Reusing THEN unused_slots[Len(unused_slots)] ELSE Len(tasks)

\* The slot the new state goes to: the top of unused_slots, or a new last one.
TakenSlot == IF Reusing THEN unused_slots[Len(unused_slots)] ELSE Len(tasks) + 1

\* The state moved over closes the descriptors it still held.
Overwritten == IF Reusing THEN EvictedBy(tasks[TakenSlot]) ELSE {}

\* kinds: the registrations that succeed.  ctl_add throws at the first failure,
\* which the bookkeeping above it does not undo.
Spawn(kinds) ==
    LET t == cur.task
        i == seen_task_count
        new == [index |-> i, task |-> t, dir |-> cur.dir, open |-> TRUE]
    IN
    /\ pc = "clone"
    /\ kinds = {"pidfd", "timerfd"} \/ ("epoll" \in Fault /\ kinds \in {{}, {"pidfd"}})
    /\ cgroup' = [cgroup EXCEPT ![cur.dir] = LimitMark(t)]
    /\ proc' = [proc EXCEPT ![t] = "live"]
    /\ home' = [home EXCEPT ![t] = cur.dir]
    /\ seen_task_count' = i + 1
    /\ tasks' = IF Reusing THEN [tasks EXCEPT ![TakenSlot] = new] ELSE Append(tasks, new)
    /\ unused_slots' = IF Reusing THEN SubSeq(unused_slots, 1, Len(unused_slots) - 1)
                                  ELSE unused_slots
    /\ active_task_count' = active_task_count + 1
    /\ task_index_to_slot' = [j \in ActiveIndices \cup {i} |->
                                 IF j = i THEN TakenSlot ELSE SlotOf(j)]
    /\ epoll' = (epoll \ Overwritten) \cup {Watch(t, k, i) : k \in kinds}
    /\ cur' = NoCall
    /\ pc' = "idle"
    /\ UNCHANGED <<timer, strays, listing, outcomes>>

\* A write to the new cgroup or clone3 throws: the descriptors are closed again,
\* the directory stays.
SpawnFails ==
    /\ pc = "clone"
    /\ "clone" \in Fault
    /\ \E mark \in {"max", LimitMark(cur.task)} :
          cgroup' = [cgroup EXCEPT ![cur.dir] = mark]
    /\ timer' = [timer EXCEPT ![cur.task] = "none"]
    /\ cur' = NoCall
    /\ pc' = "idle"
    /\ UNCHANGED <<slotVars, epoll, procVars, listing, outcomes>>

-----------------------------------------------------------------------------
(* wait_for_death and terminate_and_reap.                                  *)

\* The contract_asserts of wait_for_death and terminate_and_reap, for index i.
Asserted(i) ==
    /\ i < seen_task_count
    /\ i \in ActiveIndices
    /\ SlotOf(i) \in Slots
    /\ tasks[SlotOf(i)].index = i
    /\ Cardinality(ActiveIndices \ {i}) = active_task_count - 1
    /\ tasks[SlotOf(i)].open

\* Faulty: task_index is left as it was.
MarkNothing(s) == UNCHANGED tasks

MarkReaped(s) == tasks' = [tasks EXCEPT ![s].index = Reaped]
CloseSlot(s) == tasks' = [tasks EXCEPT ![s].open = FALSE]

\* wait_for_death up to the write to cgroup.kill, which throws to the caller when
\* it fails.  The caller's loop waits only while a task is active; epoll_wait
\* blocks until some registration is ready.
wait_for_death(w) ==
    LET i == w.index
        s == SlotOf(i)
    IN
    /\ pc = "idle"
    /\ active_task_count > 0
    /\ w \in epoll
    /\ Ready(w)
    /\ Asserted(i)
    /\ active_task_count' = active_task_count - 1
    /\ unused_slots' = Append(unused_slots, s)
    /\ task_index_to_slot' = [j \in ActiveIndices \ {i} |-> SlotOf(j)]
    /\ MarkReaped(s)
    /\ \/ /\ KillCgroup(tasks[s].dir)
          /\ cur' = [NoCall EXCEPT !.slot = s]
          /\ pc' = "waitid"
       \/ /\ KillThrows(tasks[s].dir)
          /\ UNCHANGED <<procVars, cur, pc>>
    /\ UNCHANGED <<seen_task_count, epoll, timer, cgroup, listing, outcomes>>

\* An assertion fails, which terminates the program.
AssertionFails(w) ==
    /\ pc = "idle"
    /\ active_task_count > 0
    /\ w \in epoll
    /\ Ready(w)
    /\ ~Asserted(w.index)
    /\ pc' = "aborted"
    /\ UNCHANGED <<cur, slotVars, epoll, timer, procVars, cgroup, listing, outcomes>>

\* terminate_and_reap from waitid on, for the slot in cur.
ReapSlot ==
    LET s == tasks[cur.slot] IN
    /\ proc[s.task] = "zombie"
    /\ cgroup[s.dir] # "absent"
    /\ proc' = [proc EXCEPT ![s.task] = "reaped"]
    /\ cgroup' = [cgroup EXCEPT ![s.dir] = RmdirOutcome(s.dir, "zero")]
    /\ CloseSlot(cur.slot)
    /\ epoll' = epoll \ EvictedBy(s)
    /\ timer' = [timer EXCEPT ![s.task] = "none"]
    /\ cur' = NoCall
    /\ UNCHANGED <<home, strays, unused_slots, task_index_to_slot,
                   active_task_count, seen_task_count, listing>>

Reap ==
    /\ pc = "waitid"
    /\ ReapSlot
    /\ outcomes' = Append(outcomes, tasks[cur.slot].task)
    /\ pc' = "idle"

\* Something between waitid and the closes throws: collect_cgroup_files, or the
\* write to memory.max.  Both descriptors stay open and registered.
ReapSlotThrows ==
    LET s == tasks[cur.slot] IN
    /\ CollectThrows(s.dir)
    /\ proc[s.task] = "zombie"
    /\ proc' = [proc EXCEPT ![s.task] = "reaped"]
    /\ cur' = NoCall
    /\ UNCHANGED <<slotVars, epoll, timer, home, strays, cgroup, listing, outcomes>>

ReapFails ==
    /\ pc = "waitid"
    /\ ReapSlotThrows
    /\ pc' = "idle"

-----------------------------------------------------------------------------
(* ~task_executor: members go in reverse order of declaration, so the      *)
(* bookkeeping is gone before the slots reap what they still hold.  It is  *)
(* noexcept: what throws there ends the program (std::terminate).          *)

Destroy ==
    /\ pc = "idle"
    /\ pc' = "destructor"
    /\ unused_slots' = <<>>
    /\ task_index_to_slot' = <<>>
    /\ active_task_count' = 0
    /\ seen_task_count' = 0
    /\ UNCHANGED <<cur, tasks, epoll, timer, procVars, cgroup, listing, outcomes>>

\* s is the first slot that holds a task.
NextToReap(s) ==
    /\ s \in Slots
    /\ ~IsReaped(tasks[s])
    /\ \A r \in 1 .. s - 1 : IsReaped(tasks[r])

\* ~running_task_state, up to the write to cgroup.kill.
DestroySlot(s) ==
    /\ pc = "destructor"
    /\ NextToReap(s)
    /\ MarkReaped(s)
    /\ KillCgroup(tasks[s].dir)
    /\ cur' = [NoCall EXCEPT !.slot = s]
    /\ pc' = "destructor_waitid"
    /\ UNCHANGED <<unused_slots, task_index_to_slot, active_task_count, seen_task_count,
                   epoll, timer, cgroup, listing, outcomes>>

DestroySlotReaps ==
    /\ pc = "destructor_waitid"
    /\ ReapSlot
    /\ pc' = "destructor"
    /\ UNCHANGED outcomes

\* The write throws: the slots from s on keep what they hold.
DestroySlotFails(s) ==
    /\ pc = "destructor"
    /\ NextToReap(s)
    /\ KillThrows(tasks[s].dir)
    /\ pc' = "terminated"
    /\ UNCHANGED <<cur, slotVars, epoll, timer, procVars, cgroup, listing, outcomes>>

DestroySlotReapFails ==
    /\ pc = "destructor_waitid"
    /\ ReapSlotThrows
    /\ pc' = "terminated"

\* All slots are gone; efd closes and the program exits.
DestroyEnds ==
    /\ pc = "destructor"
    /\ \A s \in Slots : IsReaped(tasks[s])
    /\ ProcessEnds

-----------------------------------------------------------------------------
Init ==
    /\ pc = "down"
    /\ cur = NoCall
    /\ tasks = <<>>
    /\ unused_slots = <<>>
    /\ task_index_to_slot = <<>>
    /\ active_task_count = 0
    /\ seen_task_count = 0
    /\ epoll = {}
    /\ timer = [t \in Task |-> "none"]
    /\ proc = [t \in Task |-> "none"]
    /\ home = [t \in Task |-> NoDir]
    /\ strays = [n \in Name |-> "none"]
    /\ cgroup = [n \in Name |-> "absent"]
    /\ listing = {}
    /\ outcomes = <<>>

Kernel ==
    \/ \E t \in Task : \/ LeaderExits(t) \/ LeaderForks(t) \/ LeaderKilled(t)
                       \/ TimerExpires(t)
    \/ \E n \in Name : StraysGone(n)

Executor ==
    \/ Construct
    \/ \E n \in Name : CleanLeftover(n) \/ NameTaken(n) \/ NameFresh(n)
    \/ \E t \in Task : launch_task(t)
    \/ \E kinds \in SUBSET {"pidfd", "timerfd"} : Spawn(kinds)
    \/ SpawnFails
    \/ \E w \in epoll : wait_for_death(w) \/ AssertionFails(w)
    \/ Reap
    \/ ReapFails
    \/ Destroy
    \/ \E s \in Slots : DestroySlot(s) \/ DestroySlotFails(s)
    \/ DestroySlotReaps
    \/ DestroySlotReapFails
    \/ DestroyEnds
    \/ Crash

Next == Kernel \/ Executor

Spec == Init /\ [][Next]_vars

-----------------------------------------------------------------------------
(* Properties.                                                             *)

Locations == {"down", "constructing", "idle", "create_new_cgroup", "clone", "waitid",
              "destructor", "destructor_waitid", "aborted", "terminated"}

\* Types of all variables.
TypeOK ==
    /\ pc \in Locations
    /\ cur \in [task : Task \cup {NoTask}, dir : Name \cup {NoDir}, slot : Nat]
    /\ tasks \in Seq(SlotState)
    /\ unused_slots \in Seq(Slots)
    /\ ActiveIndices \subseteq 0 .. seen_task_count - 1
    /\ task_index_to_slot \in [ActiveIndices -> Slots]
    /\ active_task_count \in Nat
    /\ seen_task_count \in Nat
    /\ epoll \subseteq [task : Task, kind : {"pidfd", "timerfd"}, index : Nat]
    /\ timer \in [Task -> {"none", "armed", "expired"}]
    /\ proc \in [Task -> {"none", "live", "doomed", "zombie", "reaped"}]
    /\ home \in [Task -> Name \cup {NoDir}]
    /\ strays \in [Name -> {"none", "live", "doomed"}]
    /\ cgroup \in [Name -> {"absent", "max", "limit", "zero"}]
    /\ listing \subseteq Name
    /\ outcomes \in Seq(Task)

\* The constructor has returned and the process still exists.
Constructed == pc \notin {"down", "constructing"}

Destructing == pc \in {"destructor", "destructor_waitid", "terminated"}

\* Every task launched so far has a limit of a page or more.  A smaller one reads
\* back as the mark of a dead directory, which a name collision, or the reap of a
\* task that came to share it, removes under a task that has died but was not
\* reaped: reaping that task throws.
WholePages == \A t \in Tiny : proc[t] = "none"

\* No two tasks have one slot.
MapIsInjective == \A i, j \in ActiveIndices : SlotOf(i) = SlotOf(j) => i = j

\* Each index finds the state that carries it, its descriptors still open.
StatesCarryTheirIndex ==
    \A i \in ActiveIndices : tasks[SlotOf(i)].index = i /\ tasks[SlotOf(i)].open

StackHasNoDuplicates ==
    \A p, q \in 1 .. Len(unused_slots) : unused_slots[p] = unused_slots[q] => p = q

\* A slot is on the stack exactly when no task has it.
StackAndMapDivideSlots ==
    \A s \in Slots : (\E p \in 1 .. Len(unused_slots) : unused_slots[p] = s)
                          <=> ~(\E i \in ActiveIndices : SlotOf(i) = s)

ActiveTasksAreCounted == active_task_count = Cardinality(ActiveIndices)

\* No slot is handed out twice or forgotten, and each index finds its state (the
\* contract_asserts of wait_for_death), through any launches, deaths in any
\* order, slot reuse and exceptions thrown between two of the updates.
SlotBookkeeping ==
    ~Destructing =>
        /\ MapIsInjective
        /\ StatesCarryTheirIndex
        /\ StackHasNoDuplicates
        /\ StackAndMapDivideSlots
        /\ ActiveTasksAreCounted

\* As long as terminate_and_reap finds its directories and does not throw, whatever
\* epoll can deliver leads through the map to the task it is about: none of a
\* finished task's events outlives it, even when both its descriptors are ready or
\* its slot is reused.
EventsAreLive ==
    (~Destructing /\ Fault \cap {"kill", "collect"} = {} /\ WholePages) =>
        /\ \A w \in epoll :
              \/ w.index \in ActiveIndices /\ tasks[SlotOf(w.index)].task = w.task
              \/ pc = "waitid" /\ w.task = tasks[cur.slot].task
        /\ pc = "waitid" => tasks[cur.slot].open

\* No contract_assert of wait_for_death or terminate_and_reap fails.
NoAssertionFails == pc # "aborted"

\* Slots are reused rather than added: there are never more of them than tasks
\* that ran at once.
SlotsAreReused == Len(tasks) <= MaxActive

\* The slot whose process wait_for_death is killing and waiting for.
Reaping(s) == pc \in {"waitid", "destructor_waitid"} /\ cur.slot = s

\* Slots whose task has not been given up.
Holding == {s \in Slots : ~IsReaped(tasks[s]) \/ Reaping(s)}

\* Concurrent tasks never share a cgroup, so one is never limited, measured or
\* killed with another, until one with a limit under a page is launched.
CgroupsAreExclusive ==
    WholePages => \A r, s \in Holding : tasks[r].dir = tasks[s].dir => r = s

\* The directory of a running task exists and carries its limit.
RunsInsideItsLimit ==
    WholePages => \A s \in Holding : cgroup[tasks[s].dir] = "limit"

\* Once constructed, and into its destructor, an executor owns all that runs under
\* its root: whatever an earlier, crashed one left behind, or a finished task, is
\* at least dying.
NothingRunsUnowned ==
    Constructed =>
        /\ \A t \in Task : proc[t] = "live" => \E s \in Holding : tasks[s].task = t
        /\ \A n \in Name : strays[n] = "live" => \E s \in Holding : tasks[s].dir = n

\* Between calls each directory of no task carries the dead mark, so the next
\* collision or constructor may remove it, unless a launch or a reap threw.
LeftoversAreMarked ==
    (pc = "idle" /\ Fault \cap {"clone", "kill", "collect"} = {}) =>
        \A n \in Name : cgroup[n] \in {"absent", "zero"} \/ \E s \in Holding : tasks[s].dir = n

\* wait_for_death kills a task only when its process has ended or its own time
\* is up, as long as it shares no cgroup.
KillsOnlyWhenDue ==
    [][(pc = "idle" /\ pc' = "waitid" /\ WholePages) =>
          \A t \in Task : (proc[t] = "live" /\ proc'[t] = "doomed") => timer[t] = "expired"]_vars

\* When a destructor that no fault cuts short has gone through its slots, neither
\* a process nor a descendant is left running.  It gets that far, with every process
\* waited for, if all limits were of whole pages; else a directory may be gone
\* before its task is reaped, and the destructor terminates the program there.
DestructorReapsAll ==
    [][(Destructing /\ pc' = "down" /\ Fault \cap {"crash", "kill", "collect"} = {}) =>
          /\ pc = "destructor" => /\ \A t \in Task : proc[t] # "live"
                                  /\ \A n \in Name : strays[n] # "live"
          /\ WholePages => /\ pc = "destructor"
                           /\ \A t \in Task : proc[t] \in {"none", "reaped"}]_vars

-----------------------------------------------------------------------------
(* What the caller sees.                                                   *)

Reported == {outcomes[k] : k \in 1 .. Len(outcomes)}

\* Tasks the executor will still report.
Kept == IF Destructing THEN {} ELSE {tasks[s].task : s \in Holding}

PoolState == [t \in Task |->
    IF t \in Reported THEN "reported"
    ELSE IF proc[t] = "none" THEN "pending"
    ELSE IF t \in Kept THEN "running"
    ELSE "lost"]

Pool == INSTANCE TaskPool WITH state <- PoolState, reported <- outcomes,
                               MayThrow <- Fault \cap {"kill", "collect"} # {} \/ Tiny # {}

\* The executor implements TaskPool: each launched task is reported exactly once
\* or lost with its executor, none is dropped silently when slots, names and
\* indices are reused, and MaxActive bounds those running.
ImplementsTaskPool == Pool!Spec

\* The kernel delivers signals and expirations; rand() eventually gives a free
\* name; the caller goes on calling wait_for_death while a task is active.
Fairness ==
    /\ \A t \in Task : WF_vars(LeaderKilled(t)) /\ WF_vars(TimerExpires(t))
    /\ \A n \in Name : WF_vars(CleanLeftover(n))
    /\ WF_vars(\E n \in Name : NameFresh(n))
    /\ WF_vars(\E kinds \in SUBSET {"pidfd", "timerfd"} : Spawn(kinds))
    /\ \A t \in Task : WF_vars(\E w \in epoll : w.task = t /\ wait_for_death(w))
    /\ WF_vars(Reap)
    /\ WF_vars(\E s \in Slots : DestroySlot(s))
    /\ WF_vars(DestroySlotReaps)
    /\ WF_vars(DestroyEnds)

FairSpec == Spec /\ Fairness

\* Every launched task is reported, or its executor goes away first: the timer
\* catches a task that never ends, and no event is starved.  Limits are of whole pages.
LaunchedIsReported ==
    \A t \in Task : cur.task = t ~> (t \in Reported \/ pc = "down")

\* Destruction ends: the destructor waits only for processes it has killed.  Limits
\* are of whole pages here too.
DestructorEnds == pc = "destructor" ~> pc = "down"
=============================================================================
