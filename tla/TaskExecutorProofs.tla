------------------------ MODULE TaskExecutorProofs ------------------------
(***************************************************************************)
(* For any tasks, names, limits and failing system calls.  First the       *)
(* bookkeeping of the executor's slots, and that its assertions hold as    *)
(* long as terminate_and_reap does not throw; then which slot holds which  *)
(* process and which cgroup directory; last that the executor implements   *)
(* TaskPool.                                                               *)
(***************************************************************************)
EXTENDS TaskExecutor, FiniteSetTheorems, SequenceTheorems, TLAPS

\* The locals a call needs are set, and the slot being reaped is in no one's hands.
LocalsOK ==
    /\ pc \in {"create_new_cgroup", "clone"} => cur.task \in Task
    /\ pc = "clone" => cur.dir \in Name
    /\ pc \in {"waitid", "destructor_waitid"} => /\ cur.slot \in Slots
                                                 /\ tasks[cur.slot].index = Reaped
    /\ pc \in {"down", "constructing"} => /\ tasks = <<>>
                                          /\ unused_slots = <<>>
                                          /\ ActiveIndices = {}
                                          /\ active_task_count = 0

TypeInv == TypeOK /\ LocalsOK

-----------------------------------------------------------------------------
(* What the steps do to the slots.                                         *)

\* A slot is a number and holds a state.
LEMMA SlotType ==
    ASSUME TypeOK, NEW s \in Slots
    PROVE  s \in Nat \ {0} /\ tasks[s] \in SlotState
    BY ElementOfSeq, LenProperties DEF TypeOK, Slots

\* MarkReaped changes one field of one slot.
LEMMA MarkReapedSlot ==
    ASSUME TypeOK, NEW s \in Slots, MarkReaped(s)
    PROVE  /\ tasks' \in Seq(SlotState)
           /\ Len(tasks') = Len(tasks)
           /\ tasks'[s].index = Reaped
           /\ tasks'[s].task = tasks[s].task
           /\ tasks'[s].dir = tasks[s].dir
           /\ tasks'[s].open = tasks[s].open
           /\ \A r \in Slots : r # s => tasks'[r] = tasks[r]
<1> DEFINE new == [tasks[s] EXCEPT !.index = Reaped]
<1>1. tasks[s] \in SlotState
    BY DEF TypeOK, Slots
<1>2. new \in SlotState /\ new.index = Reaped /\ new.task = tasks[s].task
      /\ new.dir = tasks[s].dir /\ new.open = tasks[s].open
    BY <1>1 DEF SlotState
<1>3. tasks' = [tasks EXCEPT ![s] = new]
    BY DEF MarkReaped
<1> HIDE DEF new
<1> QED BY <1>2, <1>3, ExceptSeq DEF TypeOK, Slots

\* ReapSlot closes the descriptors of one slot.
LEMMA ClosedSlot ==
    ASSUME TypeOK, NEW s \in Slots, CloseSlot(s)
    PROVE  /\ tasks' \in Seq(SlotState)
           /\ Len(tasks') = Len(tasks)
           /\ ~tasks'[s].open
           /\ tasks'[s].index = tasks[s].index
           /\ tasks'[s].task = tasks[s].task
           /\ \A r \in Slots : r # s => tasks'[r] = tasks[r]
<1> DEFINE new == [tasks[s] EXCEPT !.open = FALSE]
<1>1. tasks[s] \in SlotState
    BY DEF TypeOK, Slots
<1>2. new \in SlotState /\ new.open = FALSE /\ new.index = tasks[s].index /\ new.task = tasks[s].task
    BY <1>1 DEF SlotState
<1>3. tasks' = [tasks EXCEPT ![s] = new]
    BY DEF CloseSlot
<1> HIDE DEF new
<1> QED BY <1>2, <1>3, ExceptSeq DEF TypeOK, Slots

-----------------------------------------------------------------------------
(* Type correctness.                                                       *)

\* The slot a launch takes exists already, or is the next one.
LEMMA TakenSlotType ==
    ASSUME TypeOK
    PROVE  TakenSlot \in IF Reusing THEN Slots ELSE {Len(tasks) + 1}
<1>1. ASSUME Reusing PROVE Len(unused_slots) \in 1 .. Len(unused_slots)
    BY <1>1, EmptySeq DEF TypeOK, Reusing
<1>2. ASSUME Reusing PROVE unused_slots[Len(unused_slots)] \in Slots
    BY <1>1, <1>2, ElementOfSeq DEF TypeOK
<1> QED BY <1>2 DEF TakenSlot

\* The slots after a launch: one entry is new, the others are as they were.
LEMMA SpawnedSlots ==
    ASSUME TypeInv, NEW kinds, Spawn(kinds)
    PROVE  /\ tasks' \in Seq(SlotState)
           /\ Len(tasks') = IF Reusing THEN Len(tasks) ELSE Len(tasks) + 1
           /\ TakenSlot \in Slots'
           /\ tasks'[TakenSlot] = [index |-> seen_task_count, task |-> cur.task,
                                   dir |-> cur.dir, open |-> TRUE]
           /\ \A s \in Slots : s # TakenSlot => tasks'[s] = tasks[s]
           /\ Slots \subseteq Slots'
<1> DEFINE new == [index |-> seen_task_count, task |-> cur.task, dir |-> cur.dir, open |-> TRUE]
<1>1. new \in SlotState
    BY DEF TypeInv, TypeOK, LocalsOK, SlotState, Spawn
<1>2. tasks' = IF Reusing THEN [tasks EXCEPT ![TakenSlot] = new] ELSE Append(tasks, new)
    BY DEF Spawn
<1>3. tasks \in Seq(SlotState)
    BY DEF TypeInv, TypeOK
<1> HIDE DEF new
<1>4. CASE Reusing
  <2>1. TakenSlot \in Slots
      BY <1>4, TakenSlotType DEF TypeInv
  <2> QED BY <1>1, <1>2, <1>3, <1>4, <2>1, ExceptSeq DEF Slots, new
<1>5. CASE ~Reusing
  <2>1. TakenSlot = Len(tasks) + 1
      BY <1>5 DEF TakenSlot
  <2> QED BY <1>1, <1>2, <1>3, <1>5, <2>1, AppendProperties DEF Slots, new
<1> QED BY <1>4, <1>5

\* Popping keeps the rest of the stack.
LEMMA PoppedSlots ==
    ASSUME TypeOK, Reusing
    PROVE  LET rest == SubSeq(unused_slots, 1, Len(unused_slots) - 1) IN
           /\ rest \in Seq(Slots)
           /\ Len(rest) = Len(unused_slots) - 1
           /\ \A p \in 1 .. Len(rest) : rest[p] = unused_slots[p]
<1>1. unused_slots \in Seq(Slots) /\ Len(unused_slots) \in Nat \ {0}
    BY EmptySeq DEF TypeOK, Reusing
<1>2. \A p \in 1 .. Len(unused_slots) - 1 : unused_slots[p] \in Slots
    BY <1>1, ElementOfSeq
<1> DEFINE k == Len(unused_slots) - 1
<1>3. k \in Int /\ k >= 0
    BY <1>1
<1>4. /\ SubSeq(unused_slots, 1, k) \in Seq(Slots)
      /\ Len(SubSeq(unused_slots, 1, k)) = IF 1 <= k THEN k - 1 + 1 ELSE 0
      /\ \A i \in 1 .. k - 1 + 1 : SubSeq(unused_slots, 1, k)[i] = unused_slots[1 + i - 1]
    BY <1>2, <1>3, SubSeqProperties
<1> HIDE DEF k
<1>5. Len(SubSeq(unused_slots, 1, k)) = k
    BY <1>3, <1>4
<1>6. \A i \in 1 .. k : SubSeq(unused_slots, 1, k)[i] = unused_slots[i]
    BY <1>3, <1>4
<1> QED BY <1>4, <1>5, <1>6 DEF k

\* The steps of the kernel keep the types.
LEMMA KernelType == TypeInv /\ Kernel => TypeInv'
<1> SUFFICES ASSUME TypeInv, Kernel PROVE TypeInv'
    OBVIOUS
<1>1. UNCHANGED <<pc, cur, slotVars, epoll, cgroup, listing, outcomes, home>>
    BY DEF Kernel, LeaderExits, LeaderForks, LeaderKilled, TimerExpires, StraysGone, procVars
<1>2. /\ proc' \in [Task -> {"none", "live", "doomed", "zombie", "reaped"}]
      /\ timer' \in [Task -> {"none", "armed", "expired"}]
      /\ strays' \in [Name -> {"none", "live", "doomed"}]
    BY SMTT(30) DEF Kernel, LeaderExits, LeaderForks, LeaderKilled, TimerExpires, StraysGone,
           procVars, TypeInv, TypeOK
<1> QED BY <1>1, <1>2 DEF TypeInv, TypeOK, LocalsOK, slotVars, Slots, ActiveIndices

\* KillCgroup keeps the types of what it changes.
LEMMA KillCgroupType ==
    ASSUME TypeOK, NEW n, KillCgroup(n)
    PROVE  /\ proc' \in [Task -> {"none", "live", "doomed", "zombie", "reaped"}]
           /\ home' \in [Task -> Name \cup {NoDir}]
           /\ strays' \in [Name -> {"none", "live", "doomed"}]
    BY DEF KillCgroup, TypeOK

\* Steps of the executor that leave its slots alone.
LEMMA SlotFreeType ==
    ASSUME TypeInv, UNCHANGED slotVars,
           \/ Construct \/ SpawnFails \/ ReapFails \/ DestroySlotReapFails
           \/ \E n \in Name : CleanLeftover(n) \/ NameTaken(n) \/ NameFresh(n)
           \/ \E t \in Task : launch_task(t)
           \/ \E w \in epoll : AssertionFails(w)
           \/ \E s \in Slots : DestroySlotFails(s)
    PROVE  TypeInv'
<1> USE DEF TypeInv, TypeOK, LocalsOK, slotVars, Slots, ActiveIndices, Locations, NoCall, procVars
<1>1. CASE Construct
    BY <1>1 DEF Construct, AfterCleaning
<1>2. CASE SpawnFails
    BY <1>2 DEF SpawnFails, LimitMark
<1>3. CASE ReapFails \/ DestroySlotReapFails
  <2>1. proc' \in [Task -> {"none", "live", "doomed", "zombie", "reaped"}]
      BY <1>3 DEF ReapFails, DestroySlotReapFails, ReapSlotThrows
  <2> QED BY <1>3, <2>1 DEF ReapFails, DestroySlotReapFails, ReapSlotThrows
<1>4. ASSUME NEW n \in Name, CleanLeftover(n) PROVE TypeInv'
    BY <1>4, KillCgroupType DEF CleanLeftover, AfterCleaning, RmdirOutcome
<1>5. ASSUME NEW n \in Name, NameTaken(n) PROVE TypeInv'
    BY <1>5 DEF NameTaken, RmdirOutcome
<1>6. ASSUME NEW n \in Name, NameFresh(n) PROVE TypeInv'
  <2>1. cur' \in [task : Task \cup {NoTask}, dir : Name \cup {NoDir}, slot : Nat]
        /\ cur'.task = cur.task /\ cur'.dir = n /\ pc' = "clone" /\ pc = "create_new_cgroup"
      BY <1>6 DEF NameFresh
  <2>2. cgroup' \in [Name -> {"absent", "max", "limit", "zero"}]
      BY <1>6 DEF NameFresh
  <2> QED BY <1>6, <2>1, <2>2 DEF NameFresh
<1>7. ASSUME NEW t \in Task, launch_task(t) PROVE TypeInv'
  <2>1. /\ timer' \in [Task -> {"none", "armed", "expired"}]
        /\ cur' \in [task : Task \cup {NoTask}, dir : Name \cup {NoDir}, slot : Nat]
        /\ cur'.task \in Task /\ pc' = "create_new_cgroup"
      BY <1>7 DEF launch_task
  <2> QED BY <1>7, <2>1 DEF launch_task
<1>8. ASSUME NEW w \in epoll, AssertionFails(w) PROVE TypeInv'
    BY <1>8 DEF AssertionFails
<1>9. ASSUME NEW s \in Slots, DestroySlotFails(s) PROVE TypeInv'
    BY <1>9 DEF DestroySlotFails
<1> QED BY <1>1, <1>2, <1>3, <1>4, <1>5, <1>6, <1>7, <1>8, <1>9

\* The end of the process leaves no slots.
LEMMA ProcessEndsType == TypeInv /\ ProcessEnds => TypeInv'
<1> SUFFICES ASSUME TypeInv, ProcessEnds PROVE TypeInv'
    OBVIOUS
<1>1. /\ tasks' = <<>> /\ unused_slots' = <<>> /\ task_index_to_slot' = <<>>
      /\ active_task_count' = 0 /\ seen_task_count' = 0
    BY DEF ProcessEnds, NoSlots
<1>2. /\ ActiveIndices' = {}
      /\ task_index_to_slot' \in [ActiveIndices' -> Slots']
      /\ tasks' \in Seq(SlotState) /\ unused_slots' \in Seq(Slots')
    BY <1>1, EmptySeq DEF ActiveIndices
<1> QED BY <1>1, <1>2 DEF ProcessEnds, ParentDies, NoCall, Locations, TypeInv, TypeOK, LocalsOK

\* A launch.
LEMMA SpawnType ==
    ASSUME TypeInv, NEW kinds \in SUBSET {"pidfd", "timerfd"}, Spawn(kinds)
    PROVE  TypeInv'
<1>1. cur.task \in Task /\ cur.dir \in Name /\ pc' = "idle" /\ cur' = NoCall
    BY DEF TypeInv, LocalsOK, Spawn
<1>2. unused_slots' \in Seq(Slots')
  <2>1. CASE Reusing
      BY <2>1, PoppedSlots, SpawnedSlots, SeqMonotonic DEF TypeInv, Spawn
  <2>2. CASE ~Reusing
      BY <2>2, EmptySeq DEF Reusing, Spawn
  <2> QED BY <2>1, <2>2
<1>3. ActiveIndices' = ActiveIndices \cup {seen_task_count}
    BY DEF Spawn, ActiveIndices
<1>4. task_index_to_slot' \in [ActiveIndices' -> Slots']
    BY <1>3, SpawnedSlots DEF TypeInv, TypeOK, Spawn, SlotOf
<1>5. epoll' \subseteq [task : Task, kind : {"pidfd", "timerfd"}, index : Nat]
    BY <1>1 DEF TypeInv, TypeOK, Spawn, Watch
<1>6. /\ cgroup' \in [Name -> {"absent", "max", "limit", "zero"}]
      /\ proc' \in [Task -> {"none", "live", "doomed", "zombie", "reaped"}]
      /\ home' \in [Task -> Name \cup {NoDir}]
    BY <1>1 DEF TypeInv, TypeOK, Spawn, LimitMark
<1>7. active_task_count' \in Nat /\ seen_task_count' \in Nat
      /\ ActiveIndices' \subseteq 0 .. seen_task_count' - 1
    BY <1>3 DEF TypeInv, TypeOK, Spawn
<1>8. UNCHANGED <<timer, strays, listing, outcomes>> /\ tasks' \in Seq(SlotState)
    BY SpawnedSlots DEF Spawn
<1>9. TypeOK'
    BY <1>1, <1>2, <1>4, <1>5, <1>6, <1>7, <1>8 DEF TypeInv, TypeOK, NoCall, Locations
<1> QED BY <1>1, <1>9 DEF TypeInv, LocalsOK

\* The bookkeeping half of wait_for_death.
LEMMA WaitType ==
    ASSUME TypeInv, NEW w \in epoll, wait_for_death(w)
    PROVE  TypeInv'
<1> DEFINE s == SlotOf(w.index)
<1>1. /\ s \in Slots /\ w.index \in ActiveIndices /\ MarkReaped(s)
      /\ Cardinality(ActiveIndices \ {w.index}) = active_task_count - 1
    BY DEF wait_for_death, Asserted
<1>2. /\ tasks' \in Seq(SlotState) /\ Slots' = Slots
      /\ tasks'[s].index = Reaped /\ tasks[s].dir \in Name
  <2>1. tasks[s] \in SlotState
      BY <1>1 DEF TypeInv, TypeOK, Slots
  <2> QED BY <1>1, <2>1, MarkReapedSlot DEF TypeInv, Slots, SlotState
<1>3. unused_slots' \in Seq(Slots')
    BY <1>1, <1>2, AppendProperties DEF TypeInv, TypeOK, wait_for_death
<1>4. ActiveIndices' = ActiveIndices \ {w.index}
    BY DEF wait_for_death, ActiveIndices
<1>5. task_index_to_slot' \in [ActiveIndices' -> Slots']
    BY <1>2, <1>4 DEF TypeInv, TypeOK, wait_for_death, SlotOf
<1>6. active_task_count' \in Nat
    BY DEF TypeInv, TypeOK, wait_for_death
<1>7. /\ proc' \in [Task -> {"none", "live", "doomed", "zombie", "reaped"}]
      /\ home' \in [Task -> Name \cup {NoDir}]
      /\ strays' \in [Name -> {"none", "live", "doomed"}]
  <2>1. CASE KillCgroup(tasks[s].dir)
      BY <2>1, KillCgroupType DEF TypeInv
  <2>2. CASE UNCHANGED procVars
      BY <2>2 DEF TypeInv, TypeOK, procVars
  <2> QED BY <2>1, <2>2 DEF wait_for_death
<1>8. /\ pc' \in {"idle", "waitid"}
      /\ pc' = "waitid" => cur'.slot = s
      /\ cur' \in [task : Task \cup {NoTask}, dir : Name \cup {NoDir}, slot : Nat]
    BY <1>1 DEF wait_for_death, NoCall, TypeInv, TypeOK, Slots
<1>9. UNCHANGED <<seen_task_count, epoll, timer, cgroup, listing, outcomes>>
    BY DEF wait_for_death
<1> HIDE DEF s
<1>10. TypeOK'
    BY <1>2, <1>3, <1>4, <1>5, <1>6, <1>7, <1>8, <1>9 DEF TypeInv, TypeOK, Locations
<1> QED BY <1>1, <1>2, <1>8, <1>10 DEF TypeInv, LocalsOK

\* waitid and what follows, in wait_for_death as in the destructor.
LEMMA ReapSlotType ==
    ASSUME TypeInv, pc \in {"waitid", "destructor_waitid"}, ReapSlot,
           pc' \in {"idle", "destructor"}, outcomes' \in Seq(Task)
    PROVE  TypeInv'
<1>1. cur.slot \in Slots /\ CloseSlot(cur.slot)
    BY DEF TypeInv, LocalsOK, ReapSlot
<1>2. tasks' \in Seq(SlotState) /\ Slots' = Slots
    BY <1>1, ClosedSlot DEF TypeInv, Slots
<1>3. /\ proc' \in [Task -> {"none", "live", "doomed", "zombie", "reaped"}]
      /\ cgroup' \in [Name -> {"absent", "max", "limit", "zero"}]
      /\ timer' \in [Task -> {"none", "armed", "expired"}]
    BY DEF ReapSlot, TypeInv, TypeOK, RmdirOutcome
<1>4. epoll' \subseteq epoll /\ cur' = NoCall
      /\ UNCHANGED <<home, strays, unused_slots, task_index_to_slot,
                     active_task_count, seen_task_count, listing>>
    BY DEF ReapSlot
<1>5. TypeOK'
    BY <1>2, <1>3, <1>4 DEF TypeInv, TypeOK, NoCall, Locations, ActiveIndices
<1> QED BY <1>5 DEF TypeInv, LocalsOK

\* The destructor before and between the slots.
LEMMA DestructorType ==
    ASSUME TypeInv, Destroy \/ \E s \in Slots : DestroySlot(s)
    PROVE  TypeInv'
<1>1. CASE Destroy
  <2>1. /\ ActiveIndices' = {} /\ Slots' = Slots
        /\ task_index_to_slot' \in [ActiveIndices' -> Slots']
        /\ unused_slots' \in Seq(Slots')
      BY <1>1, EmptySeq DEF Destroy, ActiveIndices, Slots
  <2> QED BY <1>1, <2>1 DEF Destroy, TypeInv, TypeOK, LocalsOK, Locations, procVars
<1>2. ASSUME NEW s \in Slots, DestroySlot(s) PROVE TypeInv'
  <2>1. MarkReaped(s) /\ KillCgroup(tasks[s].dir)
      BY <1>2 DEF DestroySlot
  <2>2. tasks' \in Seq(SlotState) /\ Slots' = Slots /\ tasks'[s].index = Reaped
      BY <2>1, MarkReapedSlot DEF TypeInv, Slots
  <2>3. /\ proc' \in [Task -> {"none", "live", "doomed", "zombie", "reaped"}]
        /\ home' \in [Task -> Name \cup {NoDir}]
        /\ strays' \in [Name -> {"none", "live", "doomed"}]
      BY <2>1, KillCgroupType DEF TypeInv
  <2>4. pc' = "destructor_waitid" /\ cur' = [NoCall EXCEPT !.slot = s] /\ s \in Nat
      BY <1>2, SlotType DEF DestroySlot, NextToReap, TypeInv
  <2>5. UNCHANGED <<unused_slots, task_index_to_slot, active_task_count, seen_task_count,
                    epoll, timer, cgroup, listing, outcomes>>
      BY <1>2 DEF DestroySlot
  <2>6. TypeOK'
      BY <2>2, <2>3, <2>4, <2>5 DEF TypeInv, TypeOK, NoCall, Locations, ActiveIndices
  <2> QED BY <2>2, <2>4, <2>6 DEF TypeInv, LocalsOK, NoCall
<1> QED BY <1>1, <1>2

\* Every step keeps the types.
LEMMA NextType == TypeInv /\ [Next]_vars => TypeInv'
<1> SUFFICES ASSUME TypeInv, [Next]_vars PROVE TypeInv'
    OBVIOUS
<1>1. CASE Kernel
    BY <1>1, KernelType
<1>2. CASE Executor
  <2>1. ASSUME NEW w \in epoll, wait_for_death(w) PROVE TypeInv'
      BY <2>1, WaitType
  <2>2. ASSUME NEW kinds \in SUBSET {"pidfd", "timerfd"}, Spawn(kinds) PROVE TypeInv'
      BY <2>2, SpawnType
  <2>3. CASE Reap
    <3>1. cur.slot \in Slots
        BY <2>3 DEF Reap, TypeInv, LocalsOK
    <3>2. tasks[cur.slot].task \in Task
        BY <3>1, SlotType DEF TypeInv, SlotState
    <3> QED BY <2>3, <3>2, ReapSlotType, AppendProperties, SMTT(30) DEF Reap, TypeInv, TypeOK
  <2>4. CASE DestroySlotReaps
      BY <2>4, ReapSlotType DEF DestroySlotReaps, TypeInv, TypeOK
  <2>5. CASE Destroy \/ \E s \in Slots : DestroySlot(s)
      BY <2>5, DestructorType
  <2>6. CASE DestroyEnds \/ Crash
      BY <2>6, ProcessEndsType DEF DestroyEnds, Crash
  <2>7. CASE \/ Construct \/ SpawnFails \/ ReapFails \/ DestroySlotReapFails
             \/ \E n \in Name : CleanLeftover(n) \/ NameTaken(n) \/ NameFresh(n)
             \/ \E t \in Task : launch_task(t)
             \/ \E w \in epoll : AssertionFails(w)
             \/ \E s \in Slots : DestroySlotFails(s)
    <3>1. UNCHANGED slotVars
        BY <2>7 DEF Construct, SpawnFails, ReapFails, DestroySlotReapFails, ReapSlotThrows,
                    CleanLeftover, NameTaken, NameFresh, launch_task, AssertionFails,
                    DestroySlotFails
    <3> QED BY <2>7, <3>1, SlotFreeType
  <2> QED BY <1>2, <2>1, <2>2, <2>3, <2>4, <2>5, <2>6, <2>7 DEF Executor
<1>3. CASE UNCHANGED vars
    BY <1>3 DEF vars, slotVars, procVars, TypeInv, TypeOK, LocalsOK, Slots, ActiveIndices
<1> QED BY <1>1, <1>2, <1>3 DEF Next

\* The variables keep their types, whatever fails.
THEOREM TypeCorrect == Spec => []TypeInv
<1>1. Init => TypeInv
  <2> SUFFICES ASSUME Init PROVE TypeInv
      OBVIOUS
  <2>1. ActiveIndices = {} /\ task_index_to_slot \in [ActiveIndices -> Slots]
      BY DEF Init, ActiveIndices
  <2> QED BY <2>1, EmptySeq DEF Init, TypeInv, TypeOK, LocalsOK, Locations, NoCall
<1> QED BY <1>1, NextType, PTL DEF Spec

\* The type invariant that the runs check.
THEOREM TypeOKInvariant == Spec => []TypeOK
<1>1. TypeInv => TypeOK
    BY DEF TypeInv
<1> QED BY <1>1, TypeCorrect, PTL

-----------------------------------------------------------------------------
(* The bookkeeping of the slots.                                           *)

\* The active indices are finitely many.
LEMMA ActiveIndicesFinite ==
    ASSUME TypeOK
    PROVE  IsFiniteSet(ActiveIndices)
<1>1. IsFiniteSet(0 .. seen_task_count - 1)
    BY FS_Interval DEF TypeOK
<1> QED BY <1>1, FS_Subset DEF TypeOK

\* A slot on top of the stack is no active task's, and on the stack once.
LEMMA TopOfStackIsFree ==
    ASSUME TypeOK, SlotBookkeeping, ~Destructing, Reusing
    PROVE  /\ Len(unused_slots) \in 1 .. Len(unused_slots)
           /\ TakenSlot \in Slots
           /\ \A i \in ActiveIndices : SlotOf(i) # TakenSlot
           /\ \A p \in 1 .. Len(unused_slots) - 1 : unused_slots[p] # TakenSlot
<1>1. Len(unused_slots) \in Nat \ {0}
    BY EmptySeq DEF TypeOK, Reusing
<1>2. TakenSlot \in Slots /\ TakenSlot = unused_slots[Len(unused_slots)]
    BY TakenSlotType DEF TakenSlot
<1> QED BY <1>1, <1>2 DEF SlotBookkeeping, StackAndMapDivideSlots, StackHasNoDuplicates

\* A launch takes a free slot for a new index.
LEMMA SpawnBookkeeping ==
    ASSUME TypeInv, SlotBookkeeping, NEW kinds \in SUBSET {"pidfd", "timerfd"}, Spawn(kinds)
    PROVE  SlotBookkeeping'
<1> DEFINE n == seen_task_count
           s == TakenSlot
<1>1. /\ ~Destructing /\ TypeOK
      /\ n \in Nat /\ n \notin ActiveIndices
    BY DEF Spawn, Destructing, TypeInv, TypeOK
<1>2. /\ ActiveIndices' = ActiveIndices \cup {n}
      /\ task_index_to_slot'[n] = s
      /\ \A i \in ActiveIndices : task_index_to_slot'[i] = SlotOf(i)
    BY <1>1 DEF Spawn, ActiveIndices, SlotOf
<1>3. \A i \in ActiveIndices : SlotOf(i) \in Slots /\ SlotOf(i) # s
  <2>1. \A i \in ActiveIndices : SlotOf(i) \in Slots
      BY <1>1 DEF TypeOK, SlotOf
  <2>2. CASE Reusing
      BY <2>1, <2>2, <1>1, TopOfStackIsFree
  <2>3. CASE ~Reusing
      BY <2>1, <2>3, <1>1, LenProperties DEF TakenSlot, Slots, TypeOK
  <2> QED BY <2>2, <2>3
<1>4. /\ tasks'[s].index = n /\ tasks'[s].open
      /\ \A r \in Slots : r # s => tasks'[r] = tasks[r]
    BY SpawnedSlots
<1> HIDE DEF n, s
<1>5. MapIsInjective'
    BY <1>1, <1>2, <1>3 DEF MapIsInjective, SlotBookkeeping, SlotOf
<1>6. StatesCarryTheirIndex'
    BY <1>1, <1>2, <1>3, <1>4 DEF StatesCarryTheirIndex, SlotBookkeeping, SlotOf
<1>7. ActiveTasksAreCounted'
  <2>1. active_task_count' = active_task_count + 1
      BY DEF Spawn
  <2> QED BY <1>1, <1>2, <2>1, ActiveIndicesFinite, FS_AddElement
          DEF ActiveTasksAreCounted, SlotBookkeeping
<1>8. StackHasNoDuplicates' /\ StackAndMapDivideSlots'
  <2>1. CASE Reusing
    <3> DEFINE rest == SubSeq(unused_slots, 1, Len(unused_slots) - 1)
    <3>1. unused_slots' = rest /\ Slots' = Slots
        BY <2>1, SpawnedSlots DEF Spawn, Slots
    <3>2. /\ Len(rest) = Len(unused_slots) - 1
          /\ \A p \in 1 .. Len(rest) : rest[p] = unused_slots[p]
        BY <1>1, <2>1, PoppedSlots
    <3>3. /\ Len(unused_slots) \in Nat \ {0}
          /\ s = unused_slots[Len(unused_slots)] /\ s \in Slots
          /\ \A p \in 1 .. Len(unused_slots) - 1 : unused_slots[p] # s
        BY <1>1, <2>1, TopOfStackIsFree, EmptySeq DEF TakenSlot, TypeOK, Reusing, s
    <3> HIDE DEF rest
    <3>4. StackHasNoDuplicates'
        BY <1>1, <3>1, <3>2, <3>3, SMTT(30) DEF StackHasNoDuplicates, SlotBookkeeping
    <3>5. ASSUME NEW r \in Slots
          PROVE  (\E p \in 1 .. Len(rest) : rest[p] = r)
                     <=> r # s /\ \E p \in 1 .. Len(unused_slots) : unused_slots[p] = r
        BY <3>2, <3>3
    <3>6. ASSUME NEW r \in Slots
          PROVE  (\E i \in ActiveIndices' : task_index_to_slot'[i] = r)
                     <=> r = s \/ \E i \in ActiveIndices : SlotOf(i) = r
        BY <1>2
    <3>7. StackAndMapDivideSlots'
        BY <1>1, <3>1, <3>5, <3>6 DEF StackAndMapDivideSlots, SlotBookkeeping, SlotOf
    <3> QED BY <3>4, <3>7
  <2>2. CASE ~Reusing
    <3>1. unused_slots = <<>> /\ unused_slots' = <<>>
        BY <2>2 DEF Spawn, Reusing
    <3>2. Len(unused_slots) = 0 /\ Len(unused_slots') = 0
        BY <3>1, EmptySeq
    <3>3. s = Len(tasks) + 1 /\ Len(tasks') = Len(tasks) + 1 /\ Len(tasks) \in Nat
        BY <1>1, <2>2, SpawnedSlots, LenProperties DEF TakenSlot, s, TypeOK
    <3>4. \A r \in Slots' : r = s \/ r \in Slots
        BY <3>3 DEF Slots
    <3>5. \A r \in Slots : \E i \in ActiveIndices : SlotOf(i) = r
        BY <1>1, <3>2 DEF SlotBookkeeping, StackAndMapDivideSlots
    <3>6. \A r \in Slots' : \E i \in ActiveIndices' : task_index_to_slot'[i] = r
        BY <1>2, <3>4, <3>5
    <3> QED BY <3>2, <3>6 DEF StackHasNoDuplicates, StackAndMapDivideSlots, SlotOf
  <2> QED BY <2>1, <2>2
<1> QED BY <1>5, <1>6, <1>7, <1>8 DEF SlotBookkeeping

\* A delivered event moves its task's slot from the map to the stack.
LEMMA WaitBookkeeping ==
    ASSUME TypeInv, SlotBookkeeping, NEW w \in epoll, wait_for_death(w)
    PROVE  SlotBookkeeping'
<1> DEFINE n == w.index
           s == SlotOf(n)
<1>1. /\ ~Destructing /\ TypeOK /\ n \in ActiveIndices /\ s \in Slots /\ MarkReaped(s)
    BY DEF wait_for_death, Asserted, Destructing, TypeInv
<1>2. /\ ActiveIndices' = ActiveIndices \ {n}
      /\ \A i \in ActiveIndices' : task_index_to_slot'[i] = SlotOf(i)
    BY DEF wait_for_death, ActiveIndices, SlotOf
<1>3. /\ Slots' = Slots
      /\ \A r \in Slots : r # s => tasks'[r] = tasks[r]
    BY <1>1, MarkReapedSlot DEF Slots
<1>4. \A i \in ActiveIndices' : SlotOf(i) \in Slots /\ SlotOf(i) # s
    BY <1>1, <1>2 DEF TypeOK, SlotOf, SlotBookkeeping, MapIsInjective
<1>5. /\ unused_slots' = Append(unused_slots, s)
      /\ Len(unused_slots) \in Nat /\ Len(unused_slots') = Len(unused_slots) + 1
      /\ unused_slots'[Len(unused_slots) + 1] = s
      /\ \A p \in 1 .. Len(unused_slots) : unused_slots'[p] = unused_slots[p]
    BY <1>1, AppendProperties, LenProperties DEF wait_for_death, TypeOK
<1>6. \A p \in 1 .. Len(unused_slots) : unused_slots[p] # s
    BY <1>1 DEF SlotBookkeeping, StackAndMapDivideSlots
<1> HIDE DEF n, s
<1>7. MapIsInjective'
    BY <1>1, <1>2 DEF SlotBookkeeping, MapIsInjective, SlotOf
<1>8. StatesCarryTheirIndex'
    BY <1>1, <1>2, <1>3, <1>4 DEF SlotBookkeeping, StatesCarryTheirIndex, SlotOf
<1>9. StackHasNoDuplicates'
    BY <1>1, <1>5, <1>6 DEF SlotBookkeeping, StackHasNoDuplicates
<1>10. StackAndMapDivideSlots'
  <2>1. ASSUME NEW r \in Slots
        PROVE  (\E p \in 1 .. Len(unused_slots') : unused_slots'[p] = r)
                   <=> r = s \/ \E p \in 1 .. Len(unused_slots) : unused_slots[p] = r
      BY <1>5
  <2>2. ASSUME NEW r \in Slots
        PROVE  (\E i \in ActiveIndices' : task_index_to_slot'[i] = r)
                   <=> r # s /\ \E i \in ActiveIndices : SlotOf(i) = r
    <3>1. n \in ActiveIndices /\ SlotOf(n) = s
        BY <1>1 DEF s
    <3> QED BY <1>2, <1>4, <3>1
  <2> QED BY <1>1, <1>3, <2>1, <2>2 DEF SlotBookkeeping, StackAndMapDivideSlots, SlotOf
<1>11. ActiveTasksAreCounted'
  <2>1. active_task_count' = active_task_count - 1
      BY DEF wait_for_death
  <2> QED BY <1>1, <1>2, <2>1, ActiveIndicesFinite, FS_RemoveElement
          DEF ActiveTasksAreCounted, SlotBookkeeping
<1> QED BY <1>7, <1>8, <1>9, <1>10, <1>11 DEF SlotBookkeeping

\* Reaping touches a slot that is on the stack.
LEMMA ReapBookkeeping ==
    ASSUME TypeInv, SlotBookkeeping, Reap
    PROVE  SlotBookkeeping'
<1>1. /\ ~Destructing /\ TypeOK /\ cur.slot \in Slots /\ CloseSlot(cur.slot)
      /\ tasks[cur.slot].index = Reaped
      /\ UNCHANGED <<unused_slots, task_index_to_slot, active_task_count>>
    BY DEF Reap, ReapSlot, Destructing, TypeInv, LocalsOK
<1>2. /\ Slots' = Slots /\ ActiveIndices' = ActiveIndices
      /\ \A r \in Slots : r # cur.slot => tasks'[r] = tasks[r]
    BY <1>1, ClosedSlot DEF Slots, ActiveIndices
<1>3. \A i \in ActiveIndices : SlotOf(i) \in Slots /\ SlotOf(i) # cur.slot
    BY <1>1 DEF TypeOK, SlotOf, SlotBookkeeping, StatesCarryTheirIndex, Reaped
<1>4. StatesCarryTheirIndex'
    BY <1>1, <1>2, <1>3 DEF SlotBookkeeping, StatesCarryTheirIndex, SlotOf
<1> QED BY <1>1, <1>2, <1>4 DEF SlotBookkeeping, MapIsInjective, StackHasNoDuplicates,
                                StackAndMapDivideSlots, ActiveTasksAreCounted, SlotOf

\* Steps that leave the slots alone keep the bookkeeping.
LEMMA SlotFreeBookkeeping ==
    ASSUME SlotBookkeeping, UNCHANGED slotVars, Destructing => Destructing'
    PROVE  SlotBookkeeping'
    BY DEF slotVars, SlotBookkeeping, MapIsInjective, StatesCarryTheirIndex,
           StackHasNoDuplicates, StackAndMapDivideSlots, ActiveTasksAreCounted,
           Slots, SlotOf, ActiveIndices

\* Every step keeps the bookkeeping.
LEMMA NextBookkeeping == TypeInv /\ SlotBookkeeping /\ [Next]_vars => SlotBookkeeping'
<1> SUFFICES ASSUME TypeInv, SlotBookkeeping, [Next]_vars PROVE SlotBookkeeping'
    OBVIOUS
<1>1. CASE Kernel
  <2>1. UNCHANGED <<pc, slotVars>>
      BY <1>1 DEF Kernel, LeaderExits, LeaderForks, LeaderKilled, TimerExpires, StraysGone
  <2> QED BY <2>1, SlotFreeBookkeeping DEF Destructing
<1>2. CASE Executor
  <2>1. ASSUME NEW w \in epoll, wait_for_death(w) PROVE SlotBookkeeping'
      BY <2>1, WaitBookkeeping
  <2>2. ASSUME NEW kinds \in SUBSET {"pidfd", "timerfd"}, Spawn(kinds) PROVE SlotBookkeeping'
      BY <2>2, SpawnBookkeeping
  <2>3. CASE Reap
      BY <2>3, ReapBookkeeping
  <2>4. CASE DestroySlotReaps \/ Destroy \/ \E s \in Slots : DestroySlot(s)
      BY <2>4 DEF DestroySlotReaps, Destroy, DestroySlot, SlotBookkeeping, Destructing
  <2>5. CASE DestroyEnds \/ Crash
    <3>1. /\ tasks' = <<>> /\ unused_slots' = <<>> /\ task_index_to_slot' = <<>>
          /\ active_task_count' = 0
        BY <2>5 DEF DestroyEnds, Crash, ProcessEnds, NoSlots
    <3>2. ActiveIndices' = {} /\ Len(tasks') = 0 /\ Len(unused_slots') = 0
        BY <3>1, EmptySeq DEF ActiveIndices
    <3> QED BY <3>1, <3>2, FS_EmptySet
            DEF SlotBookkeeping, MapIsInjective, StatesCarryTheirIndex,
                StackHasNoDuplicates, StackAndMapDivideSlots, ActiveTasksAreCounted, Slots
  <2>6. CASE \/ Construct \/ SpawnFails \/ ReapFails \/ DestroySlotReapFails
             \/ \E n \in Name : CleanLeftover(n) \/ NameTaken(n) \/ NameFresh(n)
             \/ \E t \in Task : launch_task(t)
             \/ \E w \in epoll : AssertionFails(w)
             \/ \E s \in Slots : DestroySlotFails(s)
    <3>1. UNCHANGED slotVars /\ (Destructing => Destructing')
        BY <2>6 DEF Construct, SpawnFails, ReapFails, DestroySlotReapFails, ReapSlotThrows,
                    CleanLeftover, NameTaken, NameFresh, launch_task, AssertionFails,
                    DestroySlotFails, Destructing
    <3> QED BY <3>1, SlotFreeBookkeeping
  <2> QED BY <1>2, <2>1, <2>2, <2>3, <2>4, <2>5, <2>6 DEF Executor
<1>3. CASE UNCHANGED vars
    BY <1>3, SlotFreeBookkeeping DEF vars, Destructing
<1> QED BY <1>1, <1>2, <1>3 DEF Next

\* The slots are never double-booked, lost or miscounted, for any number of tasks,
\* any order of deaths and any of the system calls failing.
THEOREM BookkeepingInvariant == Spec => []SlotBookkeeping
<1>1. Init => SlotBookkeeping
  <2> SUFFICES ASSUME Init PROVE SlotBookkeeping
      OBVIOUS
  <2>1. ActiveIndices = {} /\ Len(tasks) = 0 /\ Len(unused_slots) = 0
      BY EmptySeq DEF Init, ActiveIndices
  <2> QED BY <2>1, FS_EmptySet
          DEF Init, SlotBookkeeping, MapIsInjective, StatesCarryTheirIndex,
              StackHasNoDuplicates, StackAndMapDivideSlots, ActiveTasksAreCounted, Slots
<1> QED BY <1>1, NextBookkeeping, TypeCorrect, PTL DEF Spec

-----------------------------------------------------------------------------
(* The number of slots.                                                    *)

\* A launch is begun below the caller's bound, which nothing changes until it ends.
LaunchesBelowBound ==
    pc \in {"create_new_cgroup", "clone"} => active_task_count < MaxActive

\* When no slot is free each one belongs to an active task.
LEMMA FullSlotsAreActive ==
    ASSUME TypeOK, SlotBookkeeping, ~Destructing, ~Reusing
    PROVE  Len(tasks) <= active_task_count
<1>1. \A s \in Slots : \E i \in ActiveIndices : SlotOf(i) = s
  <2>1. Len(unused_slots) = 0
      BY EmptySeq DEF Reusing
  <2> QED BY <2>1 DEF SlotBookkeeping, StackAndMapDivideSlots
<1>2. task_index_to_slot \in Surjection(ActiveIndices, Slots)
    BY <1>1 DEF Surjection, TypeOK, SlotOf
<1>3. Cardinality(Slots) <= Cardinality(ActiveIndices)
    BY <1>2, ActiveIndicesFinite, FS_Surjection
<1>4. Len(tasks) \in Nat /\ Slots = 1 .. Len(tasks)
    BY LenProperties DEF TypeOK, Slots
<1>5. Cardinality(1 .. Len(tasks)) = Len(tasks)
  <2> DEFINE n == Len(tasks)
  <2>1. n \in Nat
      BY <1>4
  <2> HIDE DEF n
  <2>2. Cardinality(1 .. n) = n
      BY <2>1, FS_Interval
  <2> QED BY <2>2 DEF n
<1> QED BY <1>3, <1>4, <1>5 DEF SlotBookkeeping, ActiveTasksAreCounted

\* Launches stay below the bound, and the slots with them.
LEMMA LaunchesInvariant == Spec => [](LaunchesBelowBound /\ SlotsAreReused)
<1> DEFINE Inv == LaunchesBelowBound /\ SlotsAreReused
<1>1. Init => Inv
    BY EmptySeq, MaxActiveIsPositive DEF Init, LaunchesBelowBound, SlotsAreReused
<1>2. TypeInv /\ TypeInv' /\ SlotBookkeeping /\ Inv /\ [Next]_vars => Inv'
  <2> SUFFICES ASSUME TypeInv, TypeInv', SlotBookkeeping, Inv, [Next]_vars
               PROVE  Inv'
      OBVIOUS
  <2> USE MaxActiveIsPositive
  <2>1. CASE Kernel \/ UNCHANGED vars
      BY <2>1 DEF Kernel, LeaderExits, LeaderForks, LeaderKilled, TimerExpires, StraysGone,
                  vars, slotVars, LaunchesBelowBound, SlotsAreReused
  <2>2. ASSUME NEW w \in epoll, wait_for_death(w) PROVE Inv'
    <3>1. Len(tasks') = Len(tasks) /\ pc' \in {"idle", "waitid"}
        BY <2>2, MarkReapedSlot DEF wait_for_death, Asserted, TypeInv
    <3> QED BY <3>1 DEF LaunchesBelowBound, SlotsAreReused
  <2>3. ASSUME NEW kinds \in SUBSET {"pidfd", "timerfd"}, Spawn(kinds) PROVE Inv'
    <3>1. ~Destructing /\ active_task_count < MaxActive /\ pc' = "idle"
        BY <2>3 DEF Spawn, Destructing, LaunchesBelowBound
    <3>2. Len(tasks) \in Nat /\ active_task_count \in Nat
        BY LenProperties DEF TypeInv, TypeOK
    <3>3. Len(tasks') <= MaxActive
        BY <2>3, <3>1, <3>2, SpawnedSlots, FullSlotsAreActive DEF TypeInv, SlotsAreReused
    <3> QED BY <3>1, <3>3 DEF LaunchesBelowBound, SlotsAreReused
  <2>4. CASE Reap \/ DestroySlotReaps
    <3>1. Len(tasks') = Len(tasks) /\ pc' \in {"idle", "destructor"}
        BY <2>4, ClosedSlot DEF Reap, DestroySlotReaps, ReapSlot, TypeInv, LocalsOK
    <3> QED BY <3>1 DEF LaunchesBelowBound, SlotsAreReused
  <2>5. ASSUME NEW s \in Slots, DestroySlot(s) PROVE Inv'
    <3>1. Len(tasks') = Len(tasks) /\ pc' = "destructor_waitid"
        BY <2>5, MarkReapedSlot DEF DestroySlot, TypeInv
    <3> QED BY <3>1 DEF LaunchesBelowBound, SlotsAreReused
  <2>6. CASE DestroyEnds \/ Crash
    <3>1. tasks' = <<>> /\ pc' = "down"
        BY <2>6 DEF DestroyEnds, Crash, ProcessEnds, NoSlots
    <3> QED BY <3>1, EmptySeq DEF LaunchesBelowBound, SlotsAreReused
  <2>7. ASSUME NEW t \in Task, launch_task(t) PROVE Inv'
      BY <2>7 DEF launch_task, slotVars, LaunchesBelowBound, SlotsAreReused
  <2>8. CASE \/ Construct \/ SpawnFails \/ ReapFails \/ Destroy \/ DestroySlotReapFails
             \/ \E n \in Name : CleanLeftover(n) \/ NameTaken(n) \/ NameFresh(n)
             \/ \E w \in epoll : AssertionFails(w)
             \/ \E s \in Slots : DestroySlotFails(s)
    <3>1. /\ UNCHANGED tasks
          /\ pc' \in {"create_new_cgroup", "clone"} =>
                /\ pc \in {"create_new_cgroup", "clone"}
                /\ UNCHANGED active_task_count
        BY <2>8 DEF Construct, SpawnFails, ReapFails, Destroy, DestroySlotReapFails,
                    ReapSlotThrows, CleanLeftover, NameTaken, NameFresh, AssertionFails,
                    DestroySlotFails, AfterCleaning, slotVars
    <3> QED BY <3>1 DEF LaunchesBelowBound, SlotsAreReused
  <2> QED BY <2>1, <2>2, <2>3, <2>4, <2>5, <2>6, <2>7, <2>8 DEF Next, Executor
<1> QED BY <1>1, <1>2, TypeCorrect, BookkeepingInvariant, PTL DEF Spec

\* The vector of slots never outgrows the caller's bound on concurrent tasks.
THEOREM SlotsAreReusedInvariant == Spec => []SlotsAreReused
    BY LaunchesInvariant, PTL

-----------------------------------------------------------------------------
(***************************************************************************)
(* Cgroups: concurrent tasks never share one and run inside their limits,  *)
(* nothing runs which no slot holds, directories left over are marked      *)
(* dead, and a kill hits only tasks that are due.                          *)
(***************************************************************************)
(* How the steps change the set of slots that hold a task.                 *)

\* The slots of S let go of their tasks; the others go on holding theirs.
HoldsExcept(S) ==
    /\ Holding' = Holding \ S
    /\ \A s \in Holding' : tasks'[s].task = tasks[s].task /\ tasks'[s].dir = tasks[s].dir

\* What a slot holds has its type.
LEMMA HeldType ==
    ASSUME TypeInv, NEW s \in Holding
    PROVE  s \in Slots /\ tasks[s].task \in Task /\ tasks[s].dir \in Name
    BY SlotType DEF TypeInv, Holding, SlotState

\* Steps that change neither the slots nor which one is being reaped.
LEMMA QuietHolds ==
    ASSUME TypeInv, UNCHANGED tasks,
           \A s \in Slots : Reaping(s)' <=> Reaping(s)
    PROVE  HoldsExcept({})
    BY DEF HoldsExcept, Holding, Slots, IsReaped

\* The steps outside wait_for_death, Spawn, the reaps and the end of the process.
Quiet ==
    \/ Kernel
    \/ Construct \/ SpawnFails \/ Destroy
    \/ \E n \in Name : CleanLeftover(n) \/ NameTaken(n) \/ NameFresh(n)
    \/ \E t \in Task : launch_task(t)
    \/ \E w \in epoll : AssertionFails(w)
    \/ \E s \in Slots : DestroySlotFails(s)
    \/ UNCHANGED vars

LEMMA QuietStepHolds ==
    ASSUME TypeInv, Quiet
    PROVE  HoldsExcept({}) /\ UNCHANGED tasks
<1>1. CASE Kernel \/ UNCHANGED vars
  <2>1. UNCHANGED <<pc, cur, tasks>>
      BY <1>1 DEF Kernel, LeaderExits, LeaderForks, LeaderKilled, TimerExpires, StraysGone,
                  vars, slotVars
  <2> QED BY <2>1, QuietHolds DEF Reaping
<1>2. CASE ~(Kernel \/ UNCHANGED vars)
  <2>1. UNCHANGED tasks
      BY <1>2 DEF Quiet, Construct, SpawnFails, Destroy, CleanLeftover, NameTaken, NameFresh,
                  launch_task, AssertionFails, DestroySlotFails, slotVars
  <2>2. /\ pc \notin {"waitid", "destructor_waitid"}
        /\ pc' \notin {"waitid", "destructor_waitid"}
      BY <1>2 DEF Quiet, Construct, SpawnFails, Destroy, CleanLeftover, NameTaken, NameFresh,
                  launch_task, AssertionFails, DestroySlotFails, AfterCleaning
  <2> QED BY <2>1, <2>2, QuietHolds DEF Reaping
<1> QED BY <1>1, <1>2

\* wait_for_death lets go of the slot only if the write to cgroup.kill throws.
LEMMA WaitHolds ==
    ASSUME TypeInv, SlotBookkeeping, NEW w \in epoll, wait_for_death(w)
    PROVE  LET s == SlotOf(w.index) IN
           /\ s \in Holding
           /\ HoldsExcept(IF pc' = "waitid" THEN {} ELSE {s})
           /\ pc' = "waitid" => cur'.slot = s
           /\ tasks'[s].dir = tasks[s].dir
<1> DEFINE s == SlotOf(w.index)
<1>1. /\ s \in Slots /\ w.index \in ActiveIndices /\ MarkReaped(s) /\ pc = "idle"
      /\ w.index \in Nat /\ TypeOK
    BY DEF wait_for_death, Asserted, TypeInv, TypeOK
<1>2. tasks[s].index # Reaped /\ tasks[s].open
    BY <1>1 DEF SlotBookkeeping, StatesCarryTheirIndex, Destructing, Reaped
<1>3. /\ tasks'[s].index = Reaped /\ tasks'[s].dir = tasks[s].dir
      /\ tasks'[s].task = tasks[s].task
      /\ \A r \in Slots : r # s => tasks'[r] = tasks[r]
      /\ Slots' = Slots
    BY <1>1, MarkReapedSlot DEF Slots
<1>4. (pc' = "waitid" /\ cur'.slot = s) \/ pc' = "idle"
    BY <1>1 DEF wait_for_death, NoCall
<1> HIDE DEF s
<1>5. s \in Holding
    BY <1>1, <1>2 DEF Holding, IsReaped
<1>6. CASE pc' = "waitid"
  <2>1. Holding' = Holding
      BY <1>1, <1>3, <1>4, <1>5, <1>6 DEF Holding, IsReaped, Reaping
  <2> QED BY <1>3, <1>4, <1>5, <1>6, <2>1 DEF HoldsExcept, Holding, s
<1>7. CASE pc' = "idle"
  <2>1. Holding' = Holding \ {s}
      BY <1>1, <1>3, <1>7 DEF Holding, IsReaped, Reaping
  <2> QED BY <1>3, <1>5, <1>7, <2>1 DEF HoldsExcept, Holding, s
<1> QED BY <1>4, <1>6, <1>7

\* A reap, failed or not, lets go of the slot in cur.
LEMMA ReapHolds ==
    ASSUME TypeInv, Reap \/ DestroySlotReaps \/ ReapFails \/ DestroySlotReapFails
    PROVE  cur.slot \in Holding /\ HoldsExcept({cur.slot})
<1>1. /\ cur.slot \in Slots /\ tasks[cur.slot].index = Reaped
      /\ pc \in {"waitid", "destructor_waitid"} /\ TypeOK
      /\ pc' \in {"idle", "destructor", "terminated"}
    BY DEF TypeInv, LocalsOK, Reap, DestroySlotReaps, ReapFails, DestroySlotReapFails
<1>2. CASE UNCHANGED tasks
    BY <1>1, <1>2 DEF HoldsExcept, Holding, Reaping, IsReaped, Slots
<1>3. CASE CloseSlot(cur.slot)
  <2>1. /\ ~tasks'[cur.slot].open /\ Slots' = Slots
        /\ \A r \in Slots : r # cur.slot => tasks'[r] = tasks[r]
      BY <1>1, <1>3, ClosedSlot DEF Slots
  <2> QED BY <1>1, <2>1 DEF HoldsExcept, Holding, Reaping, IsReaped
<1> QED BY <1>2, <1>3 DEF Reap, DestroySlotReaps, ReapFails, DestroySlotReapFails,
                           ReapSlot, ReapSlotThrows, slotVars

\* ~running_task_state of a slot holds it until it is reaped.
LEMMA DestroySlotHolds ==
    ASSUME TypeInv, NEW s \in Slots, DestroySlot(s)
    PROVE  /\ s \in Holding /\ HoldsExcept({})
           /\ cur'.slot = s /\ tasks'[s].dir = tasks[s].dir
<1>1. /\ MarkReaped(s) /\ pc = "destructor" /\ pc' = "destructor_waitid" /\ cur'.slot = s
      /\ ~IsReaped(tasks[s]) /\ TypeOK
    BY DEF DestroySlot, NextToReap, NoCall, TypeInv
<1>2. /\ tasks'[s].dir = tasks[s].dir /\ tasks'[s].task = tasks[s].task
      /\ \A r \in Slots : r # s => tasks'[r] = tasks[r]
      /\ Slots' = Slots
    BY <1>1, MarkReapedSlot DEF Slots
<1>3. Holding' = Holding /\ s \in Holding
    BY <1>1, <1>2 DEF Holding, IsReaped, Reaping
<1> QED BY <1>1, <1>2, <1>3 DEF HoldsExcept, Holding

\* With the process all slots are gone.
LEMMA EndHolds ==
    ASSUME ProcessEnds
    PROVE  Holding' = {}
    BY EmptySeq DEF ProcessEnds, NoSlots, Holding, Slots

-----------------------------------------------------------------------------
(* Slots on the stack hold nothing.                                        *)

\* A slot that may be reused was marked when its task died.
StackIsReaped ==
    \A p \in 1 .. Len(unused_slots) : tasks[unused_slots[p]].index = Reaped

\* A launch takes a slot that holds nothing, and holds the new task in it.
LEMMA SpawnHolds ==
    ASSUME TypeInv, StackIsReaped, NEW kinds, Spawn(kinds)
    PROVE  /\ TakenSlot \notin Holding
           /\ Holding' = Holding \cup {TakenSlot}
           /\ tasks'[TakenSlot].task = cur.task /\ tasks'[TakenSlot].dir = cur.dir
           /\ \A s \in Holding : tasks'[s] = tasks[s]
<1> DEFINE n == TakenSlot
<1>1. pc = "clone" /\ pc' = "idle" /\ TypeOK /\ seen_task_count \in Nat
    BY DEF Spawn, TypeInv, TypeOK
<1>2. /\ n \in Slots'
      /\ tasks'[n].index # Reaped /\ tasks'[n].open
      /\ tasks'[n].task = cur.task /\ tasks'[n].dir = cur.dir
      /\ \A s \in Slots : s # n => tasks'[s] = tasks[s]
      /\ Slots \subseteq Slots'
    BY <1>1, SpawnedSlots DEF Reaped
<1>3. n \notin Holding /\ \A s \in Slots' : s \in Slots \/ s = n
  <2>1. CASE Reusing
    <3>1. Len(unused_slots) \in 1 .. Len(unused_slots)
        BY <1>1, <2>1, EmptySeq DEF TypeOK, Reusing
    <3>2. tasks[n].index = Reaped
        BY <2>1, <3>1 DEF StackIsReaped, TakenSlot
    <3>3. Slots' = Slots
        BY <2>1, SpawnedSlots DEF Slots
    <3> QED BY <1>1, <3>2, <3>3 DEF Holding, IsReaped, Reaping
  <2>2. CASE ~Reusing
    <3>1. n = Len(tasks) + 1 /\ Len(tasks') = Len(tasks) + 1 /\ Len(tasks) \in Nat
        BY <1>1, <2>2, SpawnedSlots, LenProperties DEF TakenSlot, TypeOK
    <3> QED BY <3>1 DEF Holding, Slots
  <2> QED BY <2>1, <2>2
<1> HIDE DEF n
<1>4. n \in Holding'
    BY <1>2 DEF Holding, IsReaped
<1>5. \A s \in Slots : s # n => (s \in Holding' <=> s \in Holding)
    BY <1>1, <1>2 DEF Holding, IsReaped, Reaping
<1>6. Holding \subseteq Slots /\ Holding' \subseteq Slots'
    BY DEF Holding
<1>7. Holding' = Holding \cup {n}
    BY <1>2, <1>3, <1>4, <1>5, <1>6
<1> QED BY <1>2, <1>3, <1>6, <1>7 DEF n

\* Marking or closing a slot leaves those on the stack marked.
LEMMA StackStaysReaped ==
    ASSUME TypeInv, StackIsReaped, UNCHANGED unused_slots,
           UNCHANGED tasks \/ \E s \in Slots : MarkReaped(s) \/ CloseSlot(s)
    PROVE  StackIsReaped'
<1>1. \A p \in 1 .. Len(unused_slots) : unused_slots[p] \in Slots
    BY ElementOfSeq DEF TypeInv, TypeOK
<1>2. \A r \in Slots : tasks[r].index = Reaped => tasks'[r].index = Reaped
  <2>1. ASSUME NEW s \in Slots, MarkReaped(s) \/ CloseSlot(s), NEW r \in Slots,
               tasks[r].index = Reaped
        PROVE  tasks'[r].index = Reaped
      BY <2>1, MarkReapedSlot, ClosedSlot DEF TypeInv
  <2> QED BY <2>1
<1> QED BY <1>1, <1>2 DEF StackIsReaped

\* wait_for_death marks the slot it puts on the stack.
LEMMA WaitStack ==
    ASSUME TypeInv, StackIsReaped, NEW w \in epoll, wait_for_death(w)
    PROVE  StackIsReaped'
<1> DEFINE s == SlotOf(w.index)
<1>1. /\ s \in Slots /\ MarkReaped(s) /\ TypeOK
    BY DEF wait_for_death, Asserted, TypeInv
<1>2. /\ tasks'[s].index = Reaped
      /\ \A r \in Slots : r # s => tasks'[r] = tasks[r]
    BY <1>1, MarkReapedSlot
<1>3. /\ Len(unused_slots) \in Nat /\ Len(unused_slots') = Len(unused_slots) + 1
      /\ unused_slots'[Len(unused_slots) + 1] = s
      /\ \A p \in 1 .. Len(unused_slots) : unused_slots'[p] = unused_slots[p]
    BY <1>1, AppendProperties, LenProperties DEF wait_for_death, TypeOK
<1>4. \A p \in 1 .. Len(unused_slots) : unused_slots[p] \in Slots
    BY <1>1, ElementOfSeq DEF TypeOK
<1> HIDE DEF s
<1> QED BY <1>2, <1>3, <1>4 DEF StackIsReaped

\* Spawn pops the slot it fills.
LEMMA SpawnStack ==
    ASSUME TypeInv, SlotBookkeeping, StackIsReaped, NEW kinds, Spawn(kinds)
    PROVE  StackIsReaped'
<1>1. ~Destructing /\ TypeOK
    BY DEF Spawn, Destructing, TypeInv
<1>2. \A p \in 1 .. Len(unused_slots) : unused_slots[p] \in Slots
    BY <1>1, ElementOfSeq DEF TypeOK
<1>3. \A r \in Slots : r # TakenSlot => tasks'[r] = tasks[r]
    BY SpawnedSlots
<1>4. CASE Reusing
  <2> DEFINE rest == SubSeq(unused_slots, 1, Len(unused_slots) - 1)
  <2>1. unused_slots' = rest
      BY <1>4 DEF Spawn
  <2>2. /\ Len(rest) = Len(unused_slots) - 1
        /\ \A p \in 1 .. Len(rest) : rest[p] = unused_slots[p]
      BY <1>1, <1>4, PoppedSlots
  <2>3. /\ Len(unused_slots) \in Nat
        /\ \A p \in 1 .. Len(unused_slots) - 1 : unused_slots[p] # TakenSlot
      BY <1>1, <1>4, TopOfStackIsFree, LenProperties DEF TypeOK
  <2> HIDE DEF rest
  <2> QED BY <1>2, <1>3, <2>1, <2>2, <2>3 DEF StackIsReaped
<1>5. CASE ~Reusing
    BY <1>5, EmptySeq DEF Spawn, Reusing, StackIsReaped
<1> QED BY <1>4, <1>5

\* Every step keeps the stack marked.
LEMMA NextStack == TypeInv /\ SlotBookkeeping /\ StackIsReaped /\ [Next]_vars => StackIsReaped'
<1> SUFFICES ASSUME TypeInv, SlotBookkeeping, StackIsReaped, [Next]_vars
             PROVE  StackIsReaped'
    OBVIOUS
<1>1. CASE Quiet
  <2>1. UNCHANGED tasks
      BY <1>1, QuietStepHolds
  <2>2. UNCHANGED unused_slots \/ unused_slots' = <<>>
      BY <1>1 DEF Quiet, Kernel, LeaderExits, LeaderForks, LeaderKilled, TimerExpires,
                  StraysGone, Construct, SpawnFails, Destroy, CleanLeftover, NameTaken,
                  NameFresh, launch_task, AssertionFails, DestroySlotFails, slotVars, vars
  <2>3. CASE unused_slots' = <<>>
      BY <2>3, EmptySeq DEF StackIsReaped
  <2> QED BY <2>1, <2>2, <2>3, StackStaysReaped
<1>2. ASSUME NEW w \in epoll, wait_for_death(w) PROVE StackIsReaped'
    BY <1>2, WaitStack
<1>3. ASSUME NEW kinds \in SUBSET {"pidfd", "timerfd"}, Spawn(kinds) PROVE StackIsReaped'
    BY <1>3, SpawnStack
<1>4. CASE Reap \/ DestroySlotReaps \/ ReapFails \/ DestroySlotReapFails
  <2>1. UNCHANGED unused_slots /\ (UNCHANGED tasks \/ CloseSlot(cur.slot)) /\ cur.slot \in Slots
      BY <1>4 DEF Reap, DestroySlotReaps, ReapFails, DestroySlotReapFails, ReapSlot,
                  ReapSlotThrows, slotVars, TypeInv, LocalsOK
  <2> QED BY <2>1, StackStaysReaped
<1>5. ASSUME NEW s \in Slots, DestroySlot(s) PROVE StackIsReaped'
    BY <1>5, StackStaysReaped DEF DestroySlot
<1>6. CASE DestroyEnds \/ Crash
    BY <1>6, EmptySeq DEF DestroyEnds, Crash, ProcessEnds, NoSlots, StackIsReaped
<1> QED BY <1>1, <1>2, <1>3, <1>4, <1>5, <1>6 DEF Next, Executor, Quiet

\* The slots that a launch may reuse are marked, always.
THEOREM StackInvariant == Spec => []StackIsReaped
<1>1. Init => StackIsReaped
    BY EmptySeq DEF Init, StackIsReaped
<1> QED BY <1>1, NextStack, TypeCorrect, BookkeepingInvariant, PTL DEF Spec

-----------------------------------------------------------------------------
(* Slots and processes.                                                    *)

\* A slot that holds a task holds the one process of it, in the slot's directory.
HeldHasProcess ==
    \A s \in Holding : proc[tasks[s].task] # "none" /\ home[tasks[s].task] = tasks[s].dir

HeldTasksDiffer == \A r, s \in Holding : tasks[r].task = tasks[s].task => r = s

\* The task being launched has no process yet.
LaunchIsFirst == pc \in {"create_new_cgroup", "clone"} => proc[cur.task] = "none"

HolderInv == HeldHasProcess /\ HeldTasksDiffer /\ LaunchIsFirst

\* Every step but a launch only lets go of tasks.
LEMMA StepHolds ==
    ASSUME TypeInv, SlotBookkeeping, [Next]_vars
    PROVE  \/ \E S : HoldsExcept(S)
           \/ \E kinds \in SUBSET {"pidfd", "timerfd"} : Spawn(kinds)
<1>1. CASE Quiet
    BY <1>1, QuietStepHolds
<1>2. ASSUME NEW w \in epoll, wait_for_death(w) PROVE \E S : HoldsExcept(S)
    BY <1>2, WaitHolds
<1>3. CASE Reap \/ DestroySlotReaps \/ ReapFails \/ DestroySlotReapFails
    BY <1>3, ReapHolds
<1>4. ASSUME NEW s \in Slots, DestroySlot(s) PROVE \E S : HoldsExcept(S)
    BY <1>4, DestroySlotHolds
<1>5. CASE DestroyEnds \/ Crash
  <2>1. HoldsExcept(Holding)
      BY <1>5, EndHolds DEF DestroyEnds, Crash, HoldsExcept
  <2> QED BY <2>1
<1> QED BY <1>1, <1>2, <1>3, <1>4, <1>5 DEF Next, Executor, Quiet

\* Only a launch makes a process or gives it its directory.
LEMMA ProcessesStay ==
    ASSUME TypeInv, [Next]_vars,
           \A kinds \in SUBSET {"pidfd", "timerfd"} : ~Spawn(kinds)
    PROVE  /\ UNCHANGED home
           /\ \A t \in Task : proc'[t] = "none" <=> proc[t] = "none"
<1> USE DEF TypeInv, TypeOK, procVars
<1>1. CASE Kernel \/ UNCHANGED vars
    BY <1>1 DEF Kernel, LeaderExits, LeaderForks, LeaderKilled, TimerExpires, StraysGone, vars
<1>2. CASE \/ Construct \/ SpawnFails \/ Destroy
           \/ \E n \in Name : NameTaken(n) \/ NameFresh(n)
           \/ \E t \in Task : launch_task(t)
           \/ \E w \in epoll : AssertionFails(w)
           \/ \E s \in Slots : DestroySlotFails(s)
    BY <1>2 DEF Construct, SpawnFails, Destroy, NameTaken, NameFresh, launch_task, AssertionFails,
                DestroySlotFails
<1>3. ASSUME NEW n, KillCgroup(n)
      PROVE  /\ UNCHANGED home
             /\ \A t \in Task : proc'[t] = "none" <=> proc[t] = "none"
    BY <1>3 DEF KillCgroup
<1>4. CASE \/ \E n \in Name : CleanLeftover(n)
           \/ \E w \in epoll : wait_for_death(w)
           \/ \E s \in Slots : DestroySlot(s)
    BY <1>3, <1>4 DEF CleanLeftover, wait_for_death, DestroySlot
<1>5. CASE Reap \/ DestroySlotReaps \/ ReapFails \/ DestroySlotReapFails
    BY <1>5 DEF Reap, DestroySlotReaps, ReapFails, DestroySlotReapFails, ReapSlot,
                ReapSlotThrows
<1>6. CASE DestroyEnds \/ Crash
    BY <1>6 DEF DestroyEnds, Crash, ProcessEnds, ParentDies
<1> QED BY <1>1, <1>2, <1>4, <1>5, <1>6 DEF Next, Executor

\* A task that was launched stays launched.
LEMMA WholePagesBefore ==
    ASSUME TypeInv, [Next]_vars, WholePages'
    PROVE  WholePages
<1> SUFFICES ASSUME NEW t \in Tiny PROVE proc[t] = "none"
    BY DEF WholePages
<1>1. t \in Task /\ proc'[t] = "none"
    BY TinyIsTask DEF WholePages
<1>2. ASSUME NEW kinds \in SUBSET {"pidfd", "timerfd"}, Spawn(kinds) PROVE proc[t] = "none"
    BY <1>1, <1>2 DEF Spawn, TypeInv, TypeOK
<1> QED BY <1>1, <1>2, ProcessesStay

\* A launch that leaves only limits of whole pages is of such a task.
LEMMA WholePagesSpawn ==
    ASSUME TypeInv, NEW kinds, Spawn(kinds), WholePages'
    PROVE  LimitMark(cur.task) = "limit"
<1>1. cur.task \in Task /\ proc'[cur.task] = "live"
    BY DEF Spawn, TypeInv, TypeOK, LocalsOK
<1> QED BY <1>1 DEF LimitMark, WholePages

\* A launch starts the process of its task in a slot of its own.
LEMMA SpawnHolder ==
    ASSUME TypeInv, StackIsReaped, HolderInv, NEW kinds, Spawn(kinds)
    PROVE  HolderInv'
<1>1. /\ proc[cur.task] = "none" /\ cur.task \in Task /\ pc' = "idle"
      /\ proc' = [proc EXCEPT ![cur.task] = "live"]
      /\ home' = [home EXCEPT ![cur.task] = cur.dir]
    BY DEF Spawn, TypeInv, LocalsOK, HolderInv, LaunchIsFirst
<1>2. /\ proc'[cur.task] = "live" /\ home'[cur.task] = cur.dir
      /\ \A t \in Task : t # cur.task => proc'[t] = proc[t] /\ home'[t] = home[t]
    BY <1>1 DEF TypeInv, TypeOK
<1>3. \A s \in Holding : tasks[s].task \in Task /\ tasks[s].task # cur.task
    BY <1>1, HeldType DEF HolderInv, HeldHasProcess
<1>4. /\ TakenSlot \notin Holding
      /\ Holding' = Holding \cup {TakenSlot}
      /\ tasks'[TakenSlot].task = cur.task /\ tasks'[TakenSlot].dir = cur.dir
      /\ \A s \in Holding : tasks'[s] = tasks[s]
    BY SpawnHolds
<1>5. HeldHasProcess'
    BY <1>2, <1>3, <1>4 DEF HeldHasProcess, HolderInv
<1>6. HeldTasksDiffer'
    BY <1>3, <1>4 DEF HeldTasksDiffer, HolderInv
<1> QED BY <1>1, <1>5, <1>6 DEF HolderInv, LaunchIsFirst

\* Every step keeps slots and processes matched.
LEMMA NextHolder ==
    TypeInv /\ SlotBookkeeping /\ StackIsReaped /\ HolderInv /\ [Next]_vars => HolderInv'
<1> SUFFICES ASSUME TypeInv, SlotBookkeeping, StackIsReaped, HolderInv, [Next]_vars,
                    \A kinds \in SUBSET {"pidfd", "timerfd"} : ~Spawn(kinds)
             PROVE  HolderInv'
    BY SpawnHolder
<1>1. /\ UNCHANGED home
      /\ \A t \in Task : proc'[t] = "none" <=> proc[t] = "none"
    BY ProcessesStay
<1>2. PICK S : HoldsExcept(S)
    BY StepHolds
<1>3. \A s \in Holding' : /\ s \in Holding /\ tasks[s].task \in Task
                          /\ tasks'[s].task = tasks[s].task /\ tasks'[s].dir = tasks[s].dir
    BY <1>2, HeldType DEF HoldsExcept
<1>4. HeldHasProcess'
    BY <1>1, <1>3 DEF HeldHasProcess, HolderInv
<1>5. HeldTasksDiffer'
    BY <1>3 DEF HeldTasksDiffer, HolderInv
<1>6. LaunchIsFirst'
  <2>1. ASSUME NEW t \in Task, launch_task(t) PROVE LaunchIsFirst'
      BY <1>1, <2>1 DEF launch_task, NoCall, LaunchIsFirst
  <2>2. ASSUME pc' \in {"create_new_cgroup", "clone"}, \A t \in Task : ~launch_task(t)
        PROVE  pc \in {"create_new_cgroup", "clone"} /\ cur'.task = cur.task
    <3>1. CASE Kernel \/ UNCHANGED vars
        BY <2>2, <3>1 DEF Kernel, LeaderExits, LeaderForks, LeaderKilled, TimerExpires,
                          StraysGone, vars
    <3>2. CASE Executor
        BY <2>2, <3>2
           DEF Executor, Construct, CleanLeftover, NameTaken, NameFresh, SpawnFails,
               wait_for_death, AssertionFails, Reap, ReapFails, Destroy, DestroySlot,
               DestroySlotReaps, DestroySlotFails, DestroySlotReapFails,
               ReapSlotThrows, DestroyEnds, Crash, ProcessEnds, AfterCleaning, TypeInv, TypeOK
    <3> QED BY <3>1, <3>2 DEF Next
  <2>3. pc \in {"create_new_cgroup", "clone"} => cur.task \in Task
      BY DEF TypeInv, LocalsOK
  <2> QED BY <1>1, <2>1, <2>2, <2>3 DEF LaunchIsFirst, HolderInv
<1> QED BY <1>4, <1>5, <1>6 DEF HolderInv

\* Slots in use and processes are matched one to one, whatever fails.
THEOREM HolderInvariant == Spec => []HolderInv
<1>1. Init => HolderInv
    BY EmptySeq DEF Init, HolderInv, HeldHasProcess, HeldTasksDiffer, LaunchIsFirst, Holding, Slots
<1> QED BY <1>1, NextHolder, StackInvariant, TypeCorrect, BookkeepingInvariant, PTL DEF Spec

-----------------------------------------------------------------------------
(* Processes, their descendants and the directories they run in.           *)

Runs(t) == proc[t] \in {"live", "doomed"}

\* rmdir never succeeds on a directory that something runs in.
ProcessesHaveDirectories ==
    \A t \in Task : Runs(t) => home[t] \in Name /\ cgroup[home[t]] # "absent"

StraysHaveDirectories == \A n \in Name : strays[n] # "none" => cgroup[n] # "absent"

\* The processes of an executor that is gone have been killed.
NoneRunBetween == pc \in {"down", "constructing"} => \A t \in Task : proc[t] # "live"

\* The constructor has yet to clean the directories of the descendants left behind.
StraysAreListed ==
    pc = "constructing" => \A n \in Name : strays[n] = "live" => n \in listing

\* While the executor waits for a process, its whole cgroup has been killed.
KilledBeforeReaped ==
    pc \in {"waitid", "destructor_waitid"} =>
        /\ strays[tasks[cur.slot].dir] # "live"
        /\ \A t \in Task : home[t] = tasks[cur.slot].dir => proc[t] # "live"

\* Nothing runs in the directory made for the task being launched.
NewIsEmpty == pc = "clone" => \A t \in Task : home[t] = cur.dir => ~Runs(t)

DirectoryInv ==
    /\ ProcessesHaveDirectories
    /\ StraysHaveDirectories
    /\ NoneRunBetween
    /\ StraysAreListed
    /\ KilledBeforeReaped
    /\ NewIsEmpty

\* Writing to cgroup.kill starts nothing, and leaves nothing unhurt.
LEMMA KillCgroupKills ==
    ASSUME TypeInv, NEW n \in Name, KillCgroup(n)
    PROVE  /\ \A t \in Task : /\ proc'[t] = "live" => proc[t] = "live" /\ home[t] # n
                              /\ Runs(t)' => Runs(t)
                              /\ proc'[t] # proc[t] => home[t] = n
           /\ strays'[n] # "live"
           /\ \A m \in Name : /\ strays'[m] # "none" => strays[m] # "none"
                              /\ strays'[m] = "live" => strays[m] = "live"
    BY DEF KillCgroup, Runs, TypeInv, TypeOK

\* But for a launch, no step brings a process to life.
LEMMA ProcessesShrink ==
    ASSUME TypeInv, [Next]_vars,
           \A kinds \in SUBSET {"pidfd", "timerfd"} : ~Spawn(kinds)
    PROVE  \A t \in Task : /\ proc'[t] = "live" => proc[t] = "live"
                           /\ Runs(t)' => Runs(t)
                           /\ proc[t] = "reaped" => proc'[t] = "reaped"
<1> USE DEF TypeInv, TypeOK, procVars, Runs
<1>1. CASE Kernel \/ UNCHANGED vars
    BY <1>1 DEF Kernel, LeaderExits, LeaderForks, LeaderKilled, TimerExpires, StraysGone, vars
<1>2. CASE \/ Construct \/ SpawnFails \/ Destroy
           \/ \E n \in Name : NameTaken(n) \/ NameFresh(n)
           \/ \E t \in Task : launch_task(t)
           \/ \E w \in epoll : AssertionFails(w)
           \/ \E s \in Slots : DestroySlotFails(s)
    BY <1>2 DEF Construct, SpawnFails, Destroy, NameTaken, NameFresh, launch_task, AssertionFails,
                DestroySlotFails
<1>3. CASE \/ \E n \in Name : CleanLeftover(n)
           \/ \E w \in epoll : wait_for_death(w)
           \/ \E s \in Slots : DestroySlot(s)
  <2>1. (\E n : KillCgroup(n)) \/ UNCHANGED proc
      BY <1>3 DEF CleanLeftover, wait_for_death, DestroySlot
  <2> QED BY <2>1 DEF KillCgroup
<1>4. CASE Reap \/ DestroySlotReaps \/ ReapFails \/ DestroySlotReapFails
    BY <1>4 DEF Reap, DestroySlotReaps, ReapFails, DestroySlotReapFails, ReapSlot,
                ReapSlotThrows
<1>5. CASE DestroyEnds \/ Crash
    BY <1>5 DEF DestroyEnds, Crash, ProcessEnds, ParentDies
<1> QED BY <1>1, <1>2, <1>3, <1>4, <1>5 DEF Next, Executor

\* Descendants come only from a live process, in its directory.
LEMMA StraysShrink ==
    ASSUME TypeInv, [Next]_vars, NEW n \in Name
    PROVE  \/ /\ strays'[n] # "none" => strays[n] # "none"
              /\ strays'[n] = "live" => strays[n] = "live"
           \/ \E t \in Task : LeaderForks(t) /\ home[t] = n
<1> USE DEF TypeInv, TypeOK, procVars
<1>1. CASE Kernel \/ UNCHANGED vars
    BY <1>1 DEF Kernel, LeaderExits, LeaderForks, LeaderKilled, TimerExpires, StraysGone, vars
<1>2. CASE \/ Construct \/ SpawnFails \/ Destroy
           \/ \E m \in Name : NameTaken(m) \/ NameFresh(m)
           \/ \E t \in Task : launch_task(t)
           \/ \E kinds \in SUBSET {"pidfd", "timerfd"} : Spawn(kinds)
           \/ \E w \in epoll : AssertionFails(w)
           \/ \E s \in Slots : DestroySlotFails(s)
           \/ Reap \/ DestroySlotReaps \/ ReapFails \/ DestroySlotReapFails
           \/ DestroyEnds \/ Crash
    BY <1>2 DEF Construct, SpawnFails, Destroy, NameTaken, NameFresh, launch_task, Spawn,
                AssertionFails, DestroySlotFails, Reap, DestroySlotReaps, ReapFails,
                DestroySlotReapFails, ReapSlot, ReapSlotThrows, DestroyEnds, Crash,
                ProcessEnds, ParentDies
<1>3. CASE \/ \E m \in Name : CleanLeftover(m)
           \/ \E w \in epoll : wait_for_death(w)
           \/ \E s \in Slots : DestroySlot(s)
  <2>1. (\E m : KillCgroup(m)) \/ UNCHANGED strays
      BY <1>3 DEF CleanLeftover, wait_for_death, DestroySlot
  <2> QED BY <2>1 DEF KillCgroup
<1> QED BY <1>1, <1>2, <1>3 DEF Next, Executor

\* A directory goes only when nothing runs in it.
LEMMA DirectoriesStay ==
    ASSUME TypeInv, [Next]_vars, NEW n \in Name, cgroup[n] # "absent", Populated(n)
    PROVE  cgroup'[n] # "absent"
<1> USE DEF TypeInv, TypeOK
<1>1. CASE UNCHANGED cgroup
    BY <1>1
<1>2. ASSUME NEW m \in Name, NEW mark \in {"zero", cgroup[m]},
             cgroup' = [cgroup EXCEPT ![m] = RmdirOutcome(m, mark)]
      PROVE  cgroup'[n] # "absent"
    BY <1>2 DEF RmdirOutcome
<1>3. ASSUME NEW m \in Name, CleanLeftover(m) \/ NameTaken(m) PROVE cgroup'[n] # "absent"
    BY <1>2, <1>3 DEF CleanLeftover, NameTaken
<1>4. CASE Reap \/ DestroySlotReaps
  <2>1. cur.slot \in Slots
      BY <1>4 DEF LocalsOK, Reap, DestroySlotReaps
  <2>2. tasks[cur.slot].dir \in Name
      BY <2>1, SlotType DEF SlotState
  <2> QED BY <1>2, <1>4, <2>2 DEF Reap, DestroySlotReaps, ReapSlot
<1>5. CASE SpawnFails \/ (\E kinds : Spawn(kinds)) \/ (\E m \in Name : NameFresh(m))
    BY <1>5 DEF SpawnFails, Spawn, NameFresh, LimitMark
<1>6. CASE Kernel \/ UNCHANGED vars
    BY <1>6 DEF Kernel, LeaderExits, LeaderForks, LeaderKilled, TimerExpires, StraysGone, vars
<1> QED BY <1>1, <1>3, <1>4, <1>5, <1>6
        DEF Next, Executor, Construct, launch_task, wait_for_death, AssertionFails, ReapFails,
            Destroy, DestroySlot,
            DestroySlotFails, DestroySlotReapFails, ReapSlotThrows, DestroyEnds, Crash, ProcessEnds

\* Whatever runs keeps its directory.
LEMMA NextDirectories ==
    ASSUME TypeInv, DirectoryInv, [Next]_vars
    PROVE  ProcessesHaveDirectories' /\ StraysHaveDirectories'
<1>1. ASSUME NEW n \in Name, strays'[n] # "none" PROVE cgroup'[n] # "absent"
  <2>1. CASE strays[n] # "none"
      BY <2>1, DirectoriesStay DEF DirectoryInv, StraysHaveDirectories, Populated
  <2>2. ASSUME NEW t \in Task, LeaderForks(t), home[t] = n PROVE cgroup'[n] # "absent"
      BY <2>2 DEF LeaderForks, DirectoryInv, ProcessesHaveDirectories, Runs
  <2> QED BY <1>1, <2>1, <2>2, StraysShrink
<1>2. ASSUME NEW t \in Task, Runs(t), home'[t] = home[t]
      PROVE  home'[t] \in Name /\ cgroup'[home'[t]] # "absent"
  <2>1. home[t] \in Name /\ cgroup[home[t]] # "absent" /\ Populated(home[t])
      BY <1>2 DEF DirectoryInv, ProcessesHaveDirectories, Populated, Runs
  <2> QED BY <1>2, <2>1, DirectoriesStay
<1>3. ASSUME NEW kinds \in SUBSET {"pidfd", "timerfd"}, Spawn(kinds)
      PROVE  ProcessesHaveDirectories'
  <2>1. /\ cur.dir \in Name /\ cur.task \in Task
        /\ home'[cur.task] = cur.dir /\ cgroup'[cur.dir] # "absent"
        /\ \A t \in Task : t # cur.task => proc'[t] = proc[t] /\ home'[t] = home[t]
      BY <1>3 DEF Spawn, TypeInv, TypeOK, LocalsOK, LimitMark
  <2> QED BY <1>2, <2>1 DEF ProcessesHaveDirectories, Runs
<1>4. ASSUME \A kinds \in SUBSET {"pidfd", "timerfd"} : ~Spawn(kinds)
      PROVE  ProcessesHaveDirectories'
    BY <1>2, <1>4, ProcessesStay, ProcessesShrink DEF ProcessesHaveDirectories
<1> QED BY <1>1, <1>3, <1>4 DEF StraysHaveDirectories

\* How a process location with no live processes is reached, and left.
LEMMA NextBetween ==
    ASSUME TypeInv, DirectoryInv, [Next]_vars
    PROVE  NoneRunBetween' /\ StraysAreListed'
<1>1. CASE DestroyEnds \/ Crash
    BY <1>1 DEF DestroyEnds, Crash, ProcessEnds, ParentDies, NoneRunBetween, StraysAreListed,
                TypeInv, TypeOK
<1>2. ASSUME pc' \in {"down", "constructing"}, ~(DestroyEnds \/ Crash)
      PROVE  /\ pc \in {"down", "constructing"}
             /\ Kernel \/ Construct \/ (\E n \in Name : CleanLeftover(n)) \/ UNCHANGED vars
    BY <1>2 DEF Next, Kernel, LeaderExits, LeaderForks, LeaderKilled, TimerExpires, StraysGone,
                vars, Executor, Construct, CleanLeftover, NameTaken, NameFresh, launch_task,
                Spawn, SpawnFails, wait_for_death, AssertionFails, Reap, ReapFails, Destroy,
                DestroySlot, DestroySlotReaps,
                DestroySlotFails, DestroySlotReapFails, ReapSlotThrows
<1>3. ASSUME pc' \in {"down", "constructing"}, ~(DestroyEnds \/ Crash)
      PROVE  NoneRunBetween' /\ StraysAreListed'
  <2>1. \A t \in Task : proc[t] # "live" /\ ~LeaderForks(t)
      BY <1>2, <1>3 DEF DirectoryInv, NoneRunBetween, LeaderForks
  <2>2. \A kinds \in SUBSET {"pidfd", "timerfd"} : ~Spawn(kinds)
      BY <1>2, <1>3 DEF Spawn
  <2>3. NoneRunBetween'
      BY <2>1, <2>2, ProcessesShrink DEF NoneRunBetween
  <2>4. \A n \in Name : strays'[n] = "live" => strays[n] = "live"
      BY <2>1, StraysShrink
  <2>5. CASE Construct
    <3>1. \A n \in Name : strays[n] = "live" => cgroup[n] # "absent"
        BY DEF DirectoryInv, StraysHaveDirectories
    <3>2. listing' = {n \in Name : cgroup[n] # "absent"}
        BY <2>5 DEF Construct
    <3> QED BY <2>3, <2>4, <3>1, <3>2 DEF StraysAreListed
  <2>6. ASSUME NEW n \in Name, CleanLeftover(n) PROVE StraysAreListed'
    <3>1. strays'[n] # "live" /\ pc = "constructing" /\ listing' = listing \ {n}
        BY <2>6, KillCgroupKills DEF CleanLeftover
    <3> QED BY <2>4, <3>1 DEF StraysAreListed, DirectoryInv
  <2>7. CASE Kernel \/ UNCHANGED vars
    <3>1. pc' = pc /\ listing' = listing
        BY <2>7 DEF Kernel, LeaderExits, LeaderForks, LeaderKilled, TimerExpires, StraysGone, vars
    <3>2. pc = "constructing" => \A n \in Name : strays[n] = "live" => n \in listing
        BY DEF StraysAreListed, DirectoryInv
    <3> QED BY <2>3, <2>4, <3>1, <3>2 DEF StraysAreListed
  <2> QED BY <1>2, <1>3, <2>3, <2>5, <2>6, <2>7
<1> QED BY <1>1, <1>3 DEF NoneRunBetween, StraysAreListed

\* The cgroup is killed in the step that begins to wait.
LEMMA NextKilled ==
    ASSUME TypeInv, SlotBookkeeping, DirectoryInv, [Next]_vars
    PROVE  KilledBeforeReaped'
<1> SUFFICES ASSUME pc' \in {"waitid", "destructor_waitid"}
             PROVE  /\ strays'[tasks'[cur'.slot].dir] # "live"
                    /\ \A t \in Task : home'[t] = tasks'[cur'.slot].dir => proc'[t] # "live"
    BY DEF KilledBeforeReaped
<1>1. \/ \E w \in epoll : wait_for_death(w)
      \/ \E s \in Slots : DestroySlot(s)
      \/ Kernel \/ UNCHANGED vars
    BY DEF Next, Executor, Construct, CleanLeftover, NameTaken, NameFresh, launch_task,
           Spawn, SpawnFails, AssertionFails, Reap, ReapFails, Destroy,
           DestroySlotReaps, DestroySlotFails, DestroySlotReapFails,
           ReapSlotThrows, DestroyEnds, Crash, ProcessEnds, AfterCleaning
<1>2. ASSUME NEW n \in Name, KillCgroup(n), tasks'[cur'.slot].dir = n
      PROVE  /\ strays'[n] # "live"
             /\ \A t \in Task : home'[t] = n => proc'[t] # "live"
    BY <1>2, KillCgroupKills DEF KillCgroup
<1>3. ASSUME NEW w \in epoll, wait_for_death(w)
      PROVE  \E n \in Name : KillCgroup(n) /\ tasks'[cur'.slot].dir = n
  <2> DEFINE s == SlotOf(w.index)
  <2>1. s \in Holding /\ pc' = "waitid" /\ cur'.slot = s /\ tasks'[s].dir = tasks[s].dir
      BY <1>3, WaitHolds DEF wait_for_death
  <2>2. KillCgroup(tasks[s].dir)
      BY <1>3, <2>1 DEF wait_for_death
  <2> QED BY <2>1, <2>2, HeldType
<1>4. ASSUME NEW s \in Slots, DestroySlot(s)
      PROVE  \E n \in Name : KillCgroup(n) /\ tasks'[cur'.slot].dir = n
  <2>1. s \in Holding /\ cur'.slot = s /\ tasks'[s].dir = tasks[s].dir
      BY <1>4, DestroySlotHolds
  <2>2. KillCgroup(tasks[s].dir)
      BY <1>4 DEF DestroySlot
  <2> QED BY <2>1, <2>2, HeldType
<1>5. CASE Kernel \/ UNCHANGED vars
  <2>1. UNCHANGED <<pc, cur, tasks, home>>
        /\ \A kinds \in SUBSET {"pidfd", "timerfd"} : ~Spawn(kinds)
      BY <1>5 DEF Kernel, LeaderExits, LeaderForks, LeaderKilled, TimerExpires, StraysGone,
                  vars, slotVars, procVars, Spawn
  <2>2. tasks[cur.slot].dir \in Name
      BY <2>1, SlotType DEF TypeInv, LocalsOK, SlotState
  <2>3. ~\E t \in Task : LeaderForks(t) /\ home[t] = tasks[cur.slot].dir
      BY <2>1 DEF LeaderForks, DirectoryInv, KilledBeforeReaped
  <2>4. strays'[tasks[cur.slot].dir] # "live"
      BY <2>1, <2>2, <2>3, StraysShrink DEF DirectoryInv, KilledBeforeReaped
  <2> QED BY <2>1, <2>4, ProcessesShrink DEF DirectoryInv, KilledBeforeReaped
<1> QED BY <1>1, <1>2, <1>3, <1>4, <1>5

\* mkdir made the directory, so nothing ran in it.
LEMMA NextNewIsEmpty ==
    ASSUME TypeInv, DirectoryInv, [Next]_vars
    PROVE  NewIsEmpty'
<1> SUFFICES ASSUME pc' = "clone" PROVE NewIsEmpty'
    BY DEF NewIsEmpty
<1>1. (\E n \in Name : NameFresh(n)) \/ Kernel \/ UNCHANGED vars
    BY DEF Next, Executor, Construct, CleanLeftover, NameTaken, launch_task, Spawn, SpawnFails,
           wait_for_death, AssertionFails, Reap, ReapFails, Destroy, DestroySlot,
           DestroySlotReaps, DestroySlotFails, DestroySlotReapFails,
           ReapSlotThrows, DestroyEnds, Crash, ProcessEnds, AfterCleaning
<1>2. ASSUME NEW n \in Name, NameFresh(n) PROVE NewIsEmpty'
  <2>1. cur'.dir = n /\ cgroup[n] = "absent" /\ UNCHANGED <<proc, home>>
      BY <1>2 DEF NameFresh, TypeInv, TypeOK, procVars
  <2> QED BY <2>1 DEF NewIsEmpty, DirectoryInv, ProcessesHaveDirectories, Runs
<1>3. CASE Kernel \/ UNCHANGED vars
  <2>1. UNCHANGED <<pc, cur, home>>
        /\ \A kinds \in SUBSET {"pidfd", "timerfd"} : ~Spawn(kinds)
      BY <1>3 DEF Kernel, LeaderExits, LeaderForks, LeaderKilled, TimerExpires, StraysGone,
                  vars, procVars, Spawn
  <2> QED BY <2>1, ProcessesShrink DEF NewIsEmpty, DirectoryInv
<1> QED BY <1>1, <1>2, <1>3

\* Processes, descendants and directories agree, whatever fails.
THEOREM DirectoryInvariant == Spec => []DirectoryInv
<1>1. Init => DirectoryInv
    BY DEF Init, DirectoryInv, ProcessesHaveDirectories, StraysHaveDirectories, NoneRunBetween,
           StraysAreListed, KilledBeforeReaped, NewIsEmpty, Runs
<1>2. TypeInv /\ SlotBookkeeping /\ DirectoryInv /\ [Next]_vars => DirectoryInv'
    BY NextDirectories, NextBetween, NextKilled, NextNewIsEmpty DEF DirectoryInv
<1> QED BY <1>1, <1>2, TypeCorrect, BookkeepingInvariant, PTL DEF Spec

-----------------------------------------------------------------------------
(* Cgroups are exclusive and limited.                                      *)

\* The directory of the task being launched is in no slot, as it has no limit yet.
NewIsUnlimited == pc = "clone" => cgroup[cur.dir] = "max"

LimitInv == WholePages => CgroupsAreExclusive /\ RunsInsideItsLimit /\ NewIsUnlimited

\* A limit of whole pages stays in place for as long as a slot holds the directory.
LEMMA LimitsStay ==
    ASSUME TypeInv, SlotBookkeeping, LimitInv, WholePages, WholePages', [Next]_vars,
           NEW s \in Holding', s \in Holding
    PROVE  cgroup'[tasks[s].dir] = "limit"
<1> DEFINE n == tasks[s].dir
<1>1. cgroup[n] = "limit" /\ n \in Name /\ s \in Slots
    BY HeldType DEF LimitInv, RunsInsideItsLimit
<1>2. pc = "clone" => cur.dir # n /\ cur.dir \in Name
    BY <1>1 DEF LimitInv, NewIsUnlimited, TypeInv, LocalsOK
<1> HIDE DEF n
<1> USE DEF TypeInv, TypeOK
<1>3. CASE Kernel \/ UNCHANGED vars
    BY <1>1, <1>3 DEF Kernel, LeaderExits, LeaderForks, LeaderKilled, TimerExpires, StraysGone,
                      vars, n
<1>4. CASE SpawnFails \/ (\E kinds : Spawn(kinds)) \/ (\E m \in Name : NameTaken(m) \/ NameFresh(m))
    BY <1>1, <1>2, <1>4 DEF SpawnFails, Spawn, NameTaken, NameFresh, n
<1>5. ASSUME NEW m \in Name PROVE ~CleanLeftover(m)
  <2>1. pc # "constructing"
      BY <1>1, EmptySeq DEF LocalsOK, Slots
  <2> QED BY <2>1 DEF CleanLeftover
<1>6. CASE Reap \/ DestroySlotReaps
  <2>1. cur.slot \in Holding /\ s # cur.slot
      BY <1>6, ReapHolds DEF HoldsExcept
  <2>2. tasks[cur.slot].dir # n
      BY <2>1 DEF LimitInv, CgroupsAreExclusive, n
  <2> QED BY <1>1, <1>6, <2>2 DEF Reap, DestroySlotReaps, ReapSlot, n
<1> QED BY <1>1, <1>3, <1>4, <1>5, <1>6
        DEF Next, Executor, Construct, launch_task, wait_for_death, AssertionFails, ReapFails,
            Destroy, DestroySlot,
            DestroySlotFails, DestroySlotReapFails, ReapSlotThrows, DestroyEnds, Crash, ProcessEnds, n

\* Every step keeps limits and owners of the directories.
LEMMA NextLimits ==
    TypeInv /\ SlotBookkeeping /\ StackIsReaped /\ LimitInv /\ [Next]_vars => LimitInv'
<1> SUFFICES ASSUME TypeInv, SlotBookkeeping, StackIsReaped, LimitInv, [Next]_vars, WholePages'
             PROVE  CgroupsAreExclusive' /\ RunsInsideItsLimit' /\ NewIsUnlimited'
    BY DEF LimitInv
<1>0. WholePages
    BY WholePagesBefore
<1>1. \A r, s \in Holding : tasks[r].dir = tasks[s].dir => r = s
    BY <1>0 DEF LimitInv, CgroupsAreExclusive
<1>2. ASSUME NEW kinds \in SUBSET {"pidfd", "timerfd"}, Spawn(kinds)
      PROVE  CgroupsAreExclusive' /\ RunsInsideItsLimit'
  <2>1. /\ cgroup[cur.dir] = "max" /\ cgroup'[cur.dir] = "limit"
        /\ \A s \in Holding : cgroup[tasks[s].dir] = "limit"
      BY <1>0, <1>2, WholePagesSpawn
         DEF Spawn, TypeInv, TypeOK, LocalsOK, LimitInv, NewIsUnlimited, RunsInsideItsLimit
  <2>2. /\ TakenSlot \notin Holding
        /\ Holding' = Holding \cup {TakenSlot}
        /\ tasks'[TakenSlot].dir = cur.dir
        /\ \A s \in Holding : tasks'[s] = tasks[s]
      BY <1>2, SpawnHolds
  <2>3. \A s \in Holding : cgroup'[tasks[s].dir] = "limit"
      BY <1>0, <2>2, LimitsStay
  <2> QED BY <1>1, <2>1, <2>2, <2>3 DEF CgroupsAreExclusive, RunsInsideItsLimit
<1>3. ASSUME NEW S, HoldsExcept(S)
      PROVE  CgroupsAreExclusive' /\ RunsInsideItsLimit'
  <2>1. \A s \in Holding' : s \in Holding /\ tasks'[s].dir = tasks[s].dir
      BY <1>3 DEF HoldsExcept
  <2>2. \A s \in Holding' : cgroup'[tasks[s].dir] = "limit"
      BY <1>0, <2>1, LimitsStay
  <2> QED BY <1>1, <2>1, <2>2 DEF CgroupsAreExclusive, RunsInsideItsLimit
<1>4. NewIsUnlimited'
  <2> SUFFICES ASSUME pc' = "clone" PROVE cgroup'[cur'.dir] = "max"
      BY DEF NewIsUnlimited
  <2>1. (\E n \in Name : NameFresh(n)) \/ Kernel \/ UNCHANGED vars
      BY DEF Next, Executor, Construct, CleanLeftover, NameTaken, launch_task, Spawn, SpawnFails,
             wait_for_death, AssertionFails, Reap, ReapFails, Destroy, DestroySlot,
             DestroySlotReaps, DestroySlotFails, DestroySlotReapFails,
             ReapSlotThrows, DestroyEnds, Crash, ProcessEnds, AfterCleaning
  <2>2. CASE \E n \in Name : NameFresh(n)
      BY <2>2 DEF NameFresh, TypeInv, TypeOK
  <2>3. CASE Kernel \/ UNCHANGED vars
      BY <1>0, <2>3 DEF Kernel, LeaderExits, LeaderForks, LeaderKilled, TimerExpires, StraysGone,
                  vars, LimitInv, NewIsUnlimited
  <2> QED BY <2>1, <2>2, <2>3
<1> QED BY <1>2, <1>3, <1>4, StepHolds

LEMMA LimitInvariant == Spec => []LimitInv
<1>1. Init => LimitInv
    BY EmptySeq DEF Init, LimitInv, CgroupsAreExclusive, RunsInsideItsLimit, NewIsUnlimited,
                    Holding, Slots
<1> QED BY <1>1, NextLimits, StackInvariant, TypeCorrect, BookkeepingInvariant, PTL DEF Spec

\* Until a task with a limit under a page is launched, no two concurrent tasks ever share a
\* cgroup: create_new_cgroup's removal of dead directories takes none in use,
\* whatever throws and whatever earlier executors left behind.
THEOREM ExclusiveInvariant == Spec => []CgroupsAreExclusive
<1>1. LimitInv => CgroupsAreExclusive
    BY DEF LimitInv, CgroupsAreExclusive
<1> QED BY <1>1, LimitInvariant, PTL

\* And each task runs in a directory that exists and carries its limit until it
\* is reaped.
THEOREM LimitedInvariant == Spec => []RunsInsideItsLimit
<1>1. LimitInv => RunsInsideItsLimit
    BY DEF LimitInv, RunsInsideItsLimit
<1> QED BY <1>1, LimitInvariant, PTL

-----------------------------------------------------------------------------
(* Events and assertions.                                                  *)

\* With limits of whole pages nothing in wait_for_death throws of itself.
LEMMA WaitDoesNotThrow ==
    ASSUME TypeInv, SlotBookkeeping, LimitInv, WholePages, "kill" \notin Fault,
           NEW w \in epoll, wait_for_death(w)
    PROVE  pc' = "waitid"
<1> DEFINE s == SlotOf(w.index)
<1>1. s \in Holding
    BY WaitHolds
<1>2. cgroup[tasks[s].dir] = "limit"
    BY <1>1 DEF LimitInv, RunsInsideItsLimit
<1> QED BY <1>2 DEF wait_for_death, KillThrows

LEMMA ReapDoesNotFail ==
    ASSUME TypeInv, LimitInv, WholePages, "collect" \notin Fault
    PROVE  ~ReapFails /\ ~DestroySlotReapFails
<1> SUFFICES ASSUME ReapFails \/ DestroySlotReapFails PROVE FALSE
    OBVIOUS
<1>1. cur.slot \in Holding
    BY ReapHolds
<1>2. cgroup[tasks[cur.slot].dir] = "limit"
    BY <1>1 DEF LimitInv, RunsInsideItsLimit
<1> QED BY <1>2 DEF ReapFails, DestroySlotReapFails, ReapSlotThrows, CollectThrows

\* The new registrations are for the new index; none is for the slot it takes.
LEMMA SpawnEvents ==
    ASSUME TypeInv, SlotBookkeeping, EventsAreLive, WholePages,
           NEW kinds \in SUBSET {"pidfd", "timerfd"}, Spawn(kinds)
    PROVE  EventsAreLive'
<1> SUFFICES ASSUME Fault \cap {"kill", "collect"} = {}
             PROVE  \A w \in epoll' : /\ w.index \in ActiveIndices'
                                      /\ tasks'[task_index_to_slot'[w.index]].task = w.task
    BY DEF EventsAreLive, SlotOf, Spawn
<1> DEFINE n == seen_task_count
           s == TakenSlot
<1>1. ~Destructing /\ TypeOK /\ pc = "clone"
    BY DEF Spawn, Destructing, TypeInv
<1>2. /\ ActiveIndices' = ActiveIndices \cup {n} /\ n \notin ActiveIndices
      /\ task_index_to_slot'[n] = s
      /\ \A i \in ActiveIndices : task_index_to_slot'[i] = SlotOf(i)
    BY <1>1 DEF Spawn, ActiveIndices, SlotOf, TypeOK
<1>3. \A i \in ActiveIndices : SlotOf(i) \in Slots /\ SlotOf(i) # s
  <2>1. \A i \in ActiveIndices : SlotOf(i) \in Slots
      BY <1>1 DEF TypeOK, SlotOf
  <2>2. CASE Reusing
      BY <2>1, <2>2, <1>1, TopOfStackIsFree
  <2>3. CASE ~Reusing
      BY <2>1, <2>3, <1>1, LenProperties DEF TakenSlot, Slots, TypeOK
  <2> QED BY <2>2, <2>3
<1>4. /\ tasks'[s].task = cur.task
      /\ \A r \in Slots : r # s => tasks'[r] = tasks[r]
    BY SpawnedSlots
<1>5. \A w \in epoll' : w \in epoll \/ (w.index = n /\ w.task = cur.task)
    BY DEF Spawn, Watch
<1>6. \A w \in epoll : w.index \in ActiveIndices /\ tasks[SlotOf(w.index)].task = w.task
    BY <1>1 DEF EventsAreLive
<1> HIDE DEF n, s
<1> QED BY <1>2, <1>3, <1>4, <1>5, <1>6

\* The events of the task just taken off the map are those of the slot in cur.
LEMMA WaitEvents ==
    ASSUME TypeInv, SlotBookkeeping, LimitInv, EventsAreLive, WholePages,
           NEW w \in epoll, wait_for_death(w)
    PROVE  EventsAreLive'
<1> SUFFICES ASSUME Fault \cap {"kill", "collect"} = {}
             PROVE  EventsAreLive'
    BY DEF EventsAreLive
<1> DEFINE n == w.index
           s == SlotOf(n)
<1>1. /\ ~Destructing /\ TypeOK /\ n \in ActiveIndices /\ s \in Slots /\ MarkReaped(s)
      /\ pc = "idle" /\ epoll' = epoll
    BY DEF wait_for_death, Asserted, Destructing, TypeInv
<1>2. pc' = "waitid" /\ cur'.slot = s
    BY WaitDoesNotThrow DEF wait_for_death, NoCall
<1>3. /\ ActiveIndices' = ActiveIndices \ {n}
      /\ \A i \in ActiveIndices' : task_index_to_slot'[i] = SlotOf(i)
    BY DEF wait_for_death, ActiveIndices, SlotOf
<1>4. \A i \in ActiveIndices' : SlotOf(i) \in Slots /\ SlotOf(i) # s
    BY <1>1, <1>3 DEF TypeOK, SlotOf, SlotBookkeeping, MapIsInjective
<1>5. /\ tasks'[s].task = tasks[s].task /\ tasks'[s].open = tasks[s].open
      /\ \A r \in Slots : r # s => tasks'[r] = tasks[r]
    BY <1>1, MarkReapedSlot
<1>6. tasks[s].open
    BY <1>1 DEF SlotBookkeeping, StatesCarryTheirIndex
<1>7. \A v \in epoll : v.index \in ActiveIndices /\ tasks[SlotOf(v.index)].task = v.task
    BY <1>1 DEF EventsAreLive
<1>8. s = SlotOf(n)
    OBVIOUS
<1> HIDE DEF n, s
<1> QED BY <1>1, <1>2, <1>3, <1>4, <1>5, <1>6, <1>7, <1>8 DEF EventsAreLive, SlotOf

\* Closing the descriptors evicts the last events of the reaped task.
LEMMA ReapEvents ==
    ASSUME TypeInv, SlotBookkeeping, EventsAreLive, WholePages, Reap
    PROVE  EventsAreLive'
<1> SUFFICES ASSUME Fault \cap {"kill", "collect"} = {}
             PROVE  \A w \in epoll' : /\ w.index \in ActiveIndices'
                                      /\ tasks'[task_index_to_slot'[w.index]].task = w.task
    BY DEF EventsAreLive, SlotOf, Reap
<1>1. /\ ~Destructing /\ TypeOK /\ cur.slot \in Slots /\ CloseSlot(cur.slot) /\ pc = "waitid"
      /\ UNCHANGED task_index_to_slot
    BY DEF Reap, ReapSlot, Destructing, TypeInv, LocalsOK
<1>2. \A r \in Slots : tasks'[r].task = tasks[r].task
    BY <1>1, ClosedSlot
<1>3. epoll' = epoll \ EvictedBy(tasks[cur.slot]) /\ tasks[cur.slot].open
    BY <1>1 DEF Reap, ReapSlot, EventsAreLive
<1>4. \A w \in epoll' : w \in epoll /\ w.task # tasks[cur.slot].task
    BY <1>3 DEF EvictedBy
<1>5. \A w \in epoll' : w.index \in ActiveIndices /\ tasks[SlotOf(w.index)].task = w.task
    BY <1>1, <1>4 DEF EventsAreLive
<1>6. \A i \in ActiveIndices : SlotOf(i) \in Slots
    BY <1>1 DEF TypeOK, SlotOf
<1> QED BY <1>1, <1>2, <1>5, <1>6 DEF SlotOf, ActiveIndices

\* Steps that change none of what the events refer to.
LEMMA SlotFreeEvents ==
    ASSUME EventsAreLive, WholePages, UNCHANGED <<slotVars, epoll>>, Destructing => Destructing',
           pc' = "waitid" <=> pc = "waitid", pc = "waitid" => cur' = cur
    PROVE  EventsAreLive'
    BY DEF slotVars, EventsAreLive, SlotOf, ActiveIndices

\* Every step keeps the events live.
LEMMA NextEvents ==
    TypeInv /\ SlotBookkeeping /\ LimitInv /\ EventsAreLive /\ [Next]_vars => EventsAreLive'
<1> SUFFICES ASSUME TypeInv, SlotBookkeeping, LimitInv, EventsAreLive, [Next]_vars, WholePages',
                    Fault \cap {"kill", "collect"} = {}
             PROVE  EventsAreLive'
    BY DEF EventsAreLive
<1>0. WholePages
    BY WholePagesBefore
<1>1. CASE Kernel
  <2>1. UNCHANGED <<pc, cur, slotVars, epoll>>
      BY <1>1 DEF Kernel, LeaderExits, LeaderForks, LeaderKilled, TimerExpires, StraysGone
  <2> QED BY <1>0, <2>1, SlotFreeEvents DEF Destructing
<1>2. CASE Executor
  <2>1. ASSUME NEW w \in epoll, wait_for_death(w) PROVE EventsAreLive'
      BY <1>0, <2>1, WaitEvents
  <2>2. ASSUME NEW kinds \in SUBSET {"pidfd", "timerfd"}, Spawn(kinds) PROVE EventsAreLive'
      BY <1>0, <2>2, SpawnEvents
  <2>3. CASE Reap
      BY <1>0, <2>3, ReapEvents
  <2>4. CASE \/ DestroySlotReaps \/ DestroySlotReapFails \/ Destroy
             \/ \E s \in Slots : DestroySlot(s) \/ DestroySlotFails(s)
      BY <2>4 DEF DestroySlotReaps, DestroySlotReapFails, Destroy, DestroySlot,
                  DestroySlotFails, EventsAreLive, Destructing
  <2>5. CASE DestroyEnds \/ Crash
      BY <2>5 DEF DestroyEnds, Crash, ProcessEnds, EventsAreLive
  <2>6. CASE ReapFails
      BY <1>0, <2>6, ReapDoesNotFail
  <2>7. CASE \/ Construct \/ SpawnFails
             \/ \E n \in Name : CleanLeftover(n) \/ NameTaken(n) \/ NameFresh(n)
             \/ \E t \in Task : launch_task(t)
             \/ \E w \in epoll : AssertionFails(w)
    <3>1. UNCHANGED <<slotVars, epoll>> /\ ~Destructing /\ pc # "waitid" /\ pc' # "waitid"
        BY <2>7 DEF Construct, SpawnFails, CleanLeftover, NameTaken, NameFresh,
                    launch_task, AssertionFails, Destructing, AfterCleaning
    <3> QED BY <1>0, <3>1, SlotFreeEvents
  <2> QED BY <1>2, <2>1, <2>2, <2>3, <2>4, <2>5, <2>6, <2>7 DEF Executor
<1>3. CASE UNCHANGED vars
    BY <1>0, <1>3, SlotFreeEvents DEF vars, Destructing
<1> QED BY <1>1, <1>2, <1>3 DEF Next

\* No event outlives the task it is about.
THEOREM EventsInvariant == Spec => []EventsAreLive
<1>1. Init => EventsAreLive
    BY DEF Init, EventsAreLive
<1> QED BY <1>1, NextEvents, LimitInvariant, TypeCorrect, BookkeepingInvariant, PTL DEF Spec

\* What the executor asserts of an event follows from its bookkeeping.
LEMMA LiveEventsPassAssertions ==
    ASSUME TypeInv, SlotBookkeeping, EventsAreLive, Fault \cap {"kill", "collect"} = {},
           WholePages, pc = "idle", NEW w \in epoll
    PROVE  Asserted(w.index)
<1>1. ~Destructing /\ TypeOK
    BY DEF Destructing, TypeInv
<1>2. w.index \in ActiveIndices
    BY <1>1 DEF EventsAreLive
<1>3. w.index < seen_task_count /\ SlotOf(w.index) \in Slots
    BY <1>1, <1>2 DEF TypeOK, SlotOf
<1>4. tasks[SlotOf(w.index)].index = w.index /\ tasks[SlotOf(w.index)].open
    BY <1>1, <1>2 DEF SlotBookkeeping, StatesCarryTheirIndex
<1>5. Cardinality(ActiveIndices \ {w.index}) = active_task_count - 1
    BY <1>1, <1>2, ActiveIndicesFinite, FS_RemoveElement
       DEF SlotBookkeeping, ActiveTasksAreCounted
<1> QED BY <1>2, <1>3, <1>4, <1>5 DEF Asserted

\* Unless terminate_and_reap throws, no contract_assert of the executor ever fails:
\* for any number of tasks, any order of exits and timeouts, and with crashes,
\* clone failures and registration failures, until a limit is under a page.
THEOREM AssertionsHold ==
    ASSUME Fault \cap {"kill", "collect"} = {}
    PROVE  Spec => [](WholePages => NoAssertionFails)
<1> DEFINE Inv == WholePages => NoAssertionFails
<1>1. Init => Inv
    BY DEF Init, NoAssertionFails
<1>2. TypeInv /\ SlotBookkeeping /\ EventsAreLive /\ Inv /\ [Next]_vars => Inv'
  <2> SUFFICES ASSUME TypeInv, SlotBookkeeping, EventsAreLive, Inv, [Next]_vars, WholePages'
               PROVE  pc' # "aborted"
      BY DEF NoAssertionFails
  <2>0. WholePages /\ pc # "aborted"
      BY WholePagesBefore DEF NoAssertionFails
  <2>1. ASSUME NEW w \in epoll PROVE ~AssertionFails(w)
      BY <2>0, LiveEventsPassAssertions DEF AssertionFails
  <2>2. CASE Kernel \/ UNCHANGED vars
      BY <2>0, <2>2 DEF Kernel, LeaderExits, LeaderForks, LeaderKilled, TimerExpires,
                  StraysGone, vars
  <2>3. CASE Executor
      BY <2>0, <2>1, <2>3
         DEF Executor, Construct, CleanLeftover, NameTaken, NameFresh, launch_task, Spawn,
             SpawnFails, wait_for_death, Reap, ReapFails, Destroy, DestroySlot, DestroySlotFails,
             DestroySlotReaps, DestroySlotReapFails, DestroyEnds, Crash, ProcessEnds, AfterCleaning
  <2> QED BY <2>2, <2>3 DEF Next
<1> QED BY <1>1, <1>2, TypeCorrect, BookkeepingInvariant, EventsInvariant, PTL DEF Spec

-----------------------------------------------------------------------------
(* Kills hit only what is due.                                             *)

\* A live process in the directory of a slot is the process of that slot.
HomesAreOwn ==
    WholePages => \A s \in Holding : \A t \in Task :
                    (proc[t] = "live" /\ home[t] = tasks[s].dir) => t = tasks[s].task

\* Indices are never used twice, so a registration is about the task it was made for.
WatchesAreTheirs ==
    ~Destructing => \A w \in epoll :
                       /\ w.index < seen_task_count
                       /\ w.index \in ActiveIndices => tasks[SlotOf(w.index)].task = w.task

\* Every step keeps processes apart.
LEMMA NextHomes ==
    TypeInv /\ SlotBookkeeping /\ StackIsReaped /\ DirectoryInv /\ LimitInv /\ HomesAreOwn
        /\ [Next]_vars => HomesAreOwn'
<1> SUFFICES ASSUME TypeInv, SlotBookkeeping, StackIsReaped, DirectoryInv, LimitInv,
                    HomesAreOwn, [Next]_vars, WholePages',
                    NEW s \in Holding', NEW t \in Task,
                    proc'[t] = "live", home'[t] = tasks'[s].dir
             PROVE  t = tasks'[s].task
    BY DEF HomesAreOwn
<1>0. WholePages
    BY WholePagesBefore
<1>1. ASSUME \A kinds \in SUBSET {"pidfd", "timerfd"} : ~Spawn(kinds)
      PROVE  t = tasks'[s].task
  <2>1. PICK S : HoldsExcept(S)
      BY <1>1, StepHolds
  <2>2. s \in Holding /\ tasks'[s].task = tasks[s].task /\ tasks'[s].dir = tasks[s].dir
      BY <2>1 DEF HoldsExcept
  <2>3. proc[t] = "live" /\ home[t] = tasks[s].dir
      BY <1>1, <2>2, ProcessesStay, ProcessesShrink
  <2> QED BY <1>0, <2>2, <2>3 DEF HomesAreOwn
<1>2. ASSUME NEW kinds \in SUBSET {"pidfd", "timerfd"}, Spawn(kinds)
      PROVE  t = tasks'[s].task
  <2>1. /\ home'[cur.task] = cur.dir /\ pc = "clone"
        /\ \A u \in Task : u # cur.task => proc'[u] = proc[u] /\ home'[u] = home[u]
      BY <1>2 DEF Spawn, TypeInv, TypeOK, LocalsOK
  <2>2. /\ Holding' = Holding \cup {TakenSlot}
        /\ tasks'[TakenSlot].task = cur.task /\ tasks'[TakenSlot].dir = cur.dir
        /\ \A r \in Holding : tasks'[r] = tasks[r]
      BY <1>2, SpawnHolds
  <2>3. \A u \in Task : home[u] = cur.dir => proc[u] # "live"
      BY <2>1 DEF DirectoryInv, NewIsEmpty, Runs
  <2>4. \A r \in Holding : tasks[r].dir # cur.dir
      BY <1>0, <2>1 DEF LimitInv, NewIsUnlimited, RunsInsideItsLimit
  <2>5. CASE s = TakenSlot
      BY <2>1, <2>2, <2>3, <2>5
  <2>6. CASE s \in Holding
      BY <2>1, <2>2, <2>4, <2>6, <1>0 DEF HomesAreOwn
  <2> QED BY <2>2, <2>5, <2>6
<1> QED BY <1>1, <1>2

LEMMA HomesInvariant == Spec => []HomesAreOwn
<1>1. Init => HomesAreOwn
    BY EmptySeq DEF Init, HomesAreOwn, Holding, Slots
<1> QED BY <1>1, NextHomes, DirectoryInvariant, LimitInvariant, StackInvariant, TypeCorrect,
           BookkeepingInvariant, PTL DEF Spec

\* A launch registers a new index for the new task, and disturbs no other.
LEMMA SpawnWatches ==
    ASSUME TypeInv, SlotBookkeeping, WatchesAreTheirs, NEW kinds, Spawn(kinds)
    PROVE  WatchesAreTheirs'
<1> DEFINE n == seen_task_count
           s == TakenSlot
<1>1. ~Destructing /\ TypeOK /\ n \in Nat /\ seen_task_count' = n + 1
    BY DEF Spawn, Destructing, TypeInv, TypeOK
<1>2. /\ ActiveIndices' = ActiveIndices \cup {n} /\ n \notin ActiveIndices
      /\ task_index_to_slot'[n] = s
      /\ \A i \in ActiveIndices : task_index_to_slot'[i] = SlotOf(i)
    BY <1>1 DEF Spawn, ActiveIndices, SlotOf, TypeOK
<1>3. \A i \in ActiveIndices : SlotOf(i) \in Slots /\ SlotOf(i) # s
  <2>1. \A i \in ActiveIndices : SlotOf(i) \in Slots
      BY <1>1 DEF TypeOK, SlotOf
  <2>2. CASE Reusing
      BY <2>1, <2>2, <1>1, TopOfStackIsFree
  <2>3. CASE ~Reusing
      BY <2>1, <2>3, <1>1, LenProperties DEF TakenSlot, Slots, TypeOK
  <2> QED BY <2>2, <2>3
<1>4. /\ tasks'[s].task = cur.task
      /\ \A r \in Slots : r # s => tasks'[r] = tasks[r]
    BY SpawnedSlots
<1>5. \A w \in epoll' : w \in epoll \/ (w.index = n /\ w.task = cur.task)
    BY DEF Spawn, Watch
<1>6. \A w \in epoll : /\ w.index < n /\ w.index \in Nat
                       /\ w.index \in ActiveIndices => tasks[SlotOf(w.index)].task = w.task
    BY <1>1 DEF WatchesAreTheirs, TypeOK
<1> HIDE DEF n, s
<1> QED BY <1>1, <1>2, <1>3, <1>4, <1>5, <1>6 DEF WatchesAreTheirs, SlotOf

\* Every step keeps registrations with their tasks.
LEMMA NextWatches ==
    TypeInv /\ SlotBookkeeping /\ WatchesAreTheirs /\ [Next]_vars => WatchesAreTheirs'
<1> SUFFICES ASSUME TypeInv, SlotBookkeeping, WatchesAreTheirs, [Next]_vars
             PROVE  WatchesAreTheirs'
    OBVIOUS
<1>1. ASSUME ~Destructing,
             epoll' \subseteq epoll, UNCHANGED seen_task_count, ActiveIndices' \subseteq ActiveIndices,
             \A i \in ActiveIndices' : task_index_to_slot'[i] = SlotOf(i),
             \A r \in Slots : tasks'[r].task = tasks[r].task
      PROVE  WatchesAreTheirs'
  <2>1. \A i \in ActiveIndices : SlotOf(i) \in Slots
      BY DEF TypeInv, TypeOK, SlotOf
  <2> QED BY <1>1, <2>1 DEF WatchesAreTheirs, SlotOf
<1>2. ASSUME NEW kinds \in SUBSET {"pidfd", "timerfd"}, Spawn(kinds) PROVE WatchesAreTheirs'
    BY <1>2, SpawnWatches
<1>3. ASSUME NEW w \in epoll, wait_for_death(w) PROVE WatchesAreTheirs'
  <2>1. SlotOf(w.index) \in Slots /\ MarkReaped(SlotOf(w.index)) /\ ~Destructing
      BY <1>3 DEF wait_for_death, Asserted, Destructing
  <2>2. \A r \in Slots : tasks'[r].task = tasks[r].task
      BY <2>1, MarkReapedSlot DEF TypeInv
  <2> QED BY <1>1, <1>3, <2>1, <2>2 DEF wait_for_death, ActiveIndices, SlotOf
<1>4. CASE Reap
  <2>1. cur.slot \in Slots /\ CloseSlot(cur.slot) /\ ~Destructing
      BY <1>4 DEF Reap, ReapSlot, TypeInv, LocalsOK, Destructing
  <2>2. \A r \in Slots : tasks'[r].task = tasks[r].task
      BY <2>1, ClosedSlot DEF TypeInv
  <2> QED BY <1>1, <1>4, <2>1, <2>2 DEF Reap, ReapSlot, ActiveIndices, SlotOf
<1>5. CASE \/ DestroySlotReaps \/ DestroySlotReapFails \/ Destroy
           \/ \E s \in Slots : DestroySlot(s) \/ DestroySlotFails(s)
    BY <1>5 DEF DestroySlotReaps, DestroySlotReapFails, Destroy, DestroySlot, DestroySlotFails,
                WatchesAreTheirs, Destructing
<1>6. CASE DestroyEnds \/ Crash
    BY <1>6 DEF DestroyEnds, Crash, ProcessEnds, WatchesAreTheirs
<1>7. CASE \/ Kernel \/ Construct \/ SpawnFails \/ ReapFails \/ UNCHANGED vars
           \/ \E n \in Name : CleanLeftover(n) \/ NameTaken(n) \/ NameFresh(n)
           \/ \E t \in Task : launch_task(t)
           \/ \E w \in epoll : AssertionFails(w)
  <2>1. UNCHANGED <<slotVars, epoll>> /\ (Destructing => Destructing')
      BY <1>7 DEF Kernel, LeaderExits, LeaderForks, LeaderKilled, TimerExpires, StraysGone,
                  Construct, SpawnFails, ReapFails, ReapSlotThrows, CleanLeftover, NameTaken,
                  NameFresh, launch_task, AssertionFails, Destructing, vars
  <2> QED BY <1>1, <2>1 DEF slotVars, ActiveIndices, SlotOf, WatchesAreTheirs
<1> QED BY <1>2, <1>3, <1>4, <1>5, <1>6, <1>7 DEF Next, Executor

LEMMA WatchesInvariant == Spec => []WatchesAreTheirs
<1>1. Init => WatchesAreTheirs
    BY DEF Init, WatchesAreTheirs
<1> QED BY <1>1, NextWatches, TypeCorrect, BookkeepingInvariant, PTL DEF Spec

\* Until a limit is under a page, wait_for_death kills a live task only when its
\* own timer has expired: not on another task's event, nor on a stale one, nor by
\* writing to a cgroup.kill it shares.
THEOREM KillsInvariant == Spec => KillsOnlyWhenDue
<1>1. TypeInv /\ SlotBookkeeping /\ HomesAreOwn /\ WatchesAreTheirs /\ [Next]_vars
          => [(pc = "idle" /\ pc' = "waitid" /\ WholePages) =>
                \A t \in Task : (proc[t] = "live" /\ proc'[t] = "doomed")
                                    => timer[t] = "expired"]_vars
  <2> SUFFICES ASSUME TypeInv, SlotBookkeeping, HomesAreOwn, WatchesAreTheirs, [Next]_vars,
                      pc = "idle", pc' = "waitid", WholePages, NEW t \in Task,
                      proc[t] = "live", proc'[t] = "doomed"
               PROVE  timer[t] = "expired"
      OBVIOUS
  <2>1. PICK w \in epoll : wait_for_death(w)
      BY DEF Next, Kernel, LeaderExits, LeaderForks, LeaderKilled, TimerExpires, StraysGone,
             vars, Executor, Construct, CleanLeftover, NameTaken, NameFresh, launch_task, Spawn,
             SpawnFails, AssertionFails, Reap, ReapFails, Destroy, DestroySlot,
             DestroySlotReaps, DestroySlotFails, DestroySlotReapFails,
             ReapSlotThrows, DestroyEnds, Crash, ProcessEnds, AfterCleaning
  <2> DEFINE s == SlotOf(w.index)
  <2>2. s \in Holding /\ KillCgroup(tasks[s].dir) /\ w.index \in ActiveIndices /\ Ready(w)
      BY <2>1, WaitHolds DEF wait_for_death, Asserted
  <2>3. home[t] = tasks[s].dir
      BY <2>2, HeldType, KillCgroupKills
  <2>4. t = tasks[s].task
      BY <2>2, <2>3 DEF HomesAreOwn
  <2>5. w.task = t
      BY <2>2, <2>4 DEF WatchesAreTheirs, Destructing
  <2>6. w.kind \in {"pidfd", "timerfd"}
      BY DEF TypeInv, TypeOK
  <2> QED BY <2>2, <2>5, <2>6 DEF Ready
<1> QED BY <1>1, TypeCorrect, BookkeepingInvariant, HomesInvariant, WatchesInvariant, PTL
        DEF Spec, KillsOnlyWhenDue

-----------------------------------------------------------------------------
(* Nothing runs unowned, nothing is left over unmarked, nothing is left    *)
(* unreaped.                                                               *)

\* Only a reap lets go of a slot, or a wait_for_death that finds no directory.
LEMMA ConstructedHolds ==
    ASSUME TypeInv, SlotBookkeeping, Constructed', [Next]_vars, "kill" \notin Fault,
           \A kinds \in SUBSET {"pidfd", "timerfd"} : ~Spawn(kinds)
    PROVE  \/ HoldsExcept({})
           \/ /\ HoldsExcept({cur.slot})
              /\ Reap \/ DestroySlotReaps \/ ReapFails \/ DestroySlotReapFails
           \/ \E s \in Holding : /\ HoldsExcept({s})
                                /\ cgroup[tasks[s].dir] = "absent" /\ UNCHANGED cgroup
<1>1. ASSUME NEW w \in epoll, wait_for_death(w)
      PROVE  \/ HoldsExcept({})
             \/ \E s \in Holding : /\ HoldsExcept({s})
                                  /\ cgroup[tasks[s].dir] = "absent" /\ UNCHANGED cgroup
  <2> DEFINE s == SlotOf(w.index)
  <2>1. s \in Holding /\ HoldsExcept(IF pc' = "waitid" THEN {} ELSE {s})
      BY <1>1, WaitHolds
  <2>2. UNCHANGED cgroup /\ (pc' = "waitid" \/ KillThrows(tasks[s].dir))
      BY <1>1 DEF wait_for_death
  <2> QED BY <2>1, <2>2 DEF KillThrows
<1>2. CASE Quiet
    BY <1>2, QuietStepHolds
<1>3. CASE Reap \/ DestroySlotReaps \/ ReapFails \/ DestroySlotReapFails
    BY <1>3, ReapHolds
<1>4. ASSUME NEW s \in Slots, DestroySlot(s) PROVE HoldsExcept({})
    BY <1>4, DestroySlotHolds
<1> QED BY <1>1, <1>2, <1>3, <1>4
        DEF Next, Executor, Quiet, DestroyEnds, Crash, ProcessEnds, Constructed

\* How a constructor ends: with nothing left to clean.
LEMMA BecomesConstructed ==
    ASSUME [Next]_vars, Constructed', ~Constructed
    PROVE  /\ pc \in {"down", "constructing"} /\ pc' = "idle"
           /\ Construct \/ \E n \in Name : CleanLeftover(n)
           /\ listing' = {}
    BY DEF Next, Kernel, LeaderExits, LeaderForks, LeaderKilled, TimerExpires, StraysGone,
           vars, Executor, Construct, CleanLeftover, NameTaken, NameFresh, launch_task, Spawn,
           SpawnFails, wait_for_death, AssertionFails, Reap, ReapFails, Destroy, DestroySlot,
           DestroySlotReaps, DestroySlotFails, DestroySlotReapFails,
           ReapSlotThrows, DestroyEnds, Crash, ProcessEnds, AfterCleaning, Constructed

\* Every step keeps what runs owned.
LEMMA NextOwned ==
    ASSUME "kill" \notin Fault, TypeInv, SlotBookkeeping, StackIsReaped, HolderInv,
           DirectoryInv, NothingRunsUnowned, [Next]_vars
    PROVE  NothingRunsUnowned'
<1> SUFFICES ASSUME Constructed'
             PROVE  /\ \A t \in Task : proc'[t] = "live" => \E s \in Holding' : tasks'[s].task = t
                    /\ \A n \in Name : strays'[n] = "live" => \E s \in Holding' : tasks'[s].dir = n
    BY DEF NothingRunsUnowned
<1>1. CASE ~Constructed
  <2>1. /\ pc \in {"down", "constructing"} /\ pc' = "idle"
        /\ Construct \/ \E n \in Name : CleanLeftover(n)
        /\ listing' = {}
      BY <1>1, BecomesConstructed
  <2>2. \A t \in Task : proc[t] # "live" /\ ~LeaderForks(t)
      BY <2>1 DEF DirectoryInv, NoneRunBetween, LeaderForks
  <2>3. \A kinds \in SUBSET {"pidfd", "timerfd"} : ~Spawn(kinds)
      BY <2>1 DEF Spawn
  <2>4. \A t \in Task : proc'[t] # "live"
      BY <2>2, <2>3, ProcessesShrink
  <2>5. \A n \in Name : strays'[n] = "live" => strays[n] = "live"
      BY <2>2, StraysShrink
  <2>6. CASE Construct
    <3>1. \A n \in Name : cgroup[n] = "absent"
        BY <2>1, <2>6 DEF Construct
    <3> QED BY <2>4, <2>5, <3>1 DEF DirectoryInv, StraysHaveDirectories
  <2>7. ASSUME NEW n \in Name, CleanLeftover(n) PROVE \A m \in Name : strays'[m] # "live"
    <3>1. strays'[n] # "live" /\ pc = "constructing" /\ listing' = listing \ {n}
        BY <2>7, KillCgroupKills DEF CleanLeftover
    <3> QED BY <2>1, <2>5, <3>1 DEF DirectoryInv, StraysAreListed
  <2> QED BY <2>1, <2>4, <2>6, <2>7
<1>2. CASE Constructed
  <2>1. /\ \A t \in Task : proc[t] = "live" => \E s \in Holding : tasks[s].task = t
        /\ \A n \in Name : strays[n] = "live" => \E s \in Holding : tasks[s].dir = n
      BY <1>2 DEF NothingRunsUnowned
  <2>2. \A n \in Name : strays'[n] = "live" => \E s \in Holding : tasks[s].dir = n
    <3>1. ASSUME NEW t \in Task, LeaderForks(t)
          PROVE  \E s \in Holding : tasks[s].dir = home[t]
        BY <2>1, <3>1 DEF LeaderForks, HolderInv, HeldHasProcess
    <3> QED BY <2>1, <3>1, StraysShrink
  <2>3. ASSUME NEW kinds \in SUBSET {"pidfd", "timerfd"}, Spawn(kinds)
        PROVE  /\ \A t \in Task : proc'[t] = "live" => \E s \in Holding' : tasks'[s].task = t
               /\ \A n \in Name : strays'[n] = "live" => \E s \in Holding' : tasks'[s].dir = n
    <3>1. \A t \in Task : t # cur.task => proc'[t] = proc[t]
        BY <2>3 DEF Spawn, TypeInv, TypeOK, LocalsOK
    <3> QED BY <2>1, <2>2, <2>3, <3>1, SpawnHolds
  <2>4. ASSUME \A kinds \in SUBSET {"pidfd", "timerfd"} : ~Spawn(kinds)
        PROVE  /\ \A t \in Task : proc'[t] = "live" => \E s \in Holding' : tasks'[s].task = t
               /\ \A n \in Name : strays'[n] = "live" => \E s \in Holding' : tasks'[s].dir = n
    <3>1. \A t \in Task : proc'[t] = "live" => \E s \in Holding : tasks[s].task = t
        BY <2>1, <2>4, ProcessesShrink
    <3>2. CASE HoldsExcept({})
        BY <2>2, <3>1, <3>2 DEF HoldsExcept
    <3>3. CASE /\ HoldsExcept({cur.slot})
               /\ Reap \/ DestroySlotReaps \/ ReapFails \/ DestroySlotReapFails
      <4>1. /\ cur.slot \in Slots
            /\ tasks[cur.slot].task \in Task /\ tasks[cur.slot].dir \in Name
            /\ pc \in {"waitid", "destructor_waitid"}
          BY <3>3, SlotType DEF Reap, DestroySlotReaps, ReapFails, DestroySlotReapFails,
                                TypeInv, LocalsOK, SlotState
      <4>2. proc[tasks[cur.slot].task] = "zombie" /\ UNCHANGED strays
          BY <3>3 DEF Reap, DestroySlotReaps, ReapFails, DestroySlotReapFails, ReapSlot,
                      ReapSlotThrows
      <4>3. strays[tasks[cur.slot].dir] # "live"
          BY <4>1 DEF DirectoryInv, KilledBeforeReaped
      <4>4. \A s \in Holding : s # cur.slot =>
                /\ s \in Holding' /\ tasks'[s].task = tasks[s].task /\ tasks'[s].dir = tasks[s].dir
          BY <3>3 DEF HoldsExcept
      <4>5. \A t \in Task : proc'[t] = "live" => t # tasks[cur.slot].task
          BY <2>4, <4>2, ProcessesShrink
      <4> QED BY <2>2, <3>1, <4>2, <4>3, <4>4, <4>5
    <3>4. ASSUME NEW s \in Holding, HoldsExcept({s}), cgroup[tasks[s].dir] = "absent",
                 UNCHANGED cgroup
          PROVE  /\ \A t \in Task : proc'[t] = "live" => \E r \in Holding' : tasks'[r].task = t
                 /\ \A n \in Name : strays'[n] = "live" => \E r \in Holding' : tasks'[r].dir = n
      <4>1. \A r \in Holding : r # s =>
                /\ r \in Holding' /\ tasks'[r].task = tasks[r].task /\ tasks'[r].dir = tasks[r].dir
          BY <3>4 DEF HoldsExcept
      <4>2. tasks[s].dir \in Name /\ strays'[tasks[s].dir] = "none"
          BY <3>4, HeldType, NextDirectories DEF StraysHaveDirectories
      <4>3. home[tasks[s].task] = tasks[s].dir /\ ~Runs(tasks[s].task) /\ tasks[s].task \in Task
          BY <3>4, HeldType
             DEF HolderInv, HeldHasProcess, DirectoryInv, ProcessesHaveDirectories
      <4>4. \A t \in Task : proc'[t] = "live" => t # tasks[s].task
          BY <2>4, <4>3, ProcessesShrink DEF Runs
      <4> QED BY <2>2, <3>1, <4>1, <4>2, <4>4
    <3> QED BY <2>4, <3>2, <3>3, <3>4, ConstructedHolds
  <2> QED BY <2>3, <2>4
<1> QED BY <1>1, <1>2

\* A constructed executor holds a slot for every live process, and for the cgroup of
\* every live descendant, unless writing to cgroup.kill throws: a crash before it,
\* however often, failing clones and collections leave nothing behind that lives on.
THEOREM OwnedInvariant ==
    ASSUME "kill" \notin Fault
    PROVE  Spec => []NothingRunsUnowned
<1>1. Init => NothingRunsUnowned
    BY DEF Init, NothingRunsUnowned, Constructed
<1>2. TypeInv /\ SlotBookkeeping /\ StackIsReaped /\ HolderInv /\ DirectoryInv
          /\ NothingRunsUnowned /\ [Next]_vars => NothingRunsUnowned'
    BY NextOwned
<1> QED BY <1>1, <1>2, DirectoryInvariant, HolderInvariant, StackInvariant, TypeCorrect,
           BookkeepingInvariant, PTL DEF Spec

-----------------------------------------------------------------------------

\* A directory that the next collision or constructor may remove, or none.
Dead(n) == cgroup[n] \in {"absent", "zero"}

\* The directories that are not dead, at every step of the constructor and the calls.
LeftoverInv ==
    /\ pc = "constructing" => \A n \in Name : n \in listing \/ Dead(n)
    /\ Constructed => \A n \in Name : \/ Dead(n)
                                      \/ \E s \in Holding : tasks[s].dir = n
                                      \/ pc = "clone" /\ n = cur.dir

\* The constructor leaves only dead directories.
LEMMA ConstructorMarks ==
    ASSUME TypeInv, LeftoverInv, NEW n \in Name,
           Construct \/ \E m \in Name : CleanLeftover(m)
    PROVE  n \in listing' \/ Dead(n)'
<1>1. CASE Construct
    BY <1>1 DEF Construct, Dead
<1>2. ASSUME NEW m \in Name, CleanLeftover(m) PROVE n \in listing' \/ Dead(n)'
  <2>1. n \in listing \/ Dead(n)
      BY <1>2 DEF CleanLeftover, LeftoverInv
  <2>2. n # m => cgroup'[n] = cgroup[n]
      BY <1>2 DEF CleanLeftover, TypeInv, TypeOK
  <2>3. cgroup'[m] \in {"absent", "zero"}
      BY <1>2 DEF CleanLeftover, RmdirOutcome, TypeInv, TypeOK
  <2> QED BY <1>2, <2>1, <2>2, <2>3 DEF CleanLeftover, Dead
<1> QED BY <1>1, <1>2

\* Of a call's steps, those that do not launch or reap leave a dead directory dead.
LEMMA DeadStaysDead ==
    ASSUME TypeInv, Constructed, Constructed', [Next]_vars, NEW n \in Name, ~SpawnFails,
           \A kinds \in SUBSET {"pidfd", "timerfd"} : ~Spawn(kinds), ~NameFresh(n)
    PROVE  Dead(n) => Dead(n)'
<1> USE DEF TypeInv, TypeOK, Dead
<1>1. CASE Kernel \/ UNCHANGED vars
    BY <1>1 DEF Kernel, LeaderExits, LeaderForks, LeaderKilled, TimerExpires, StraysGone, vars
<1>2. ASSUME NEW m \in Name, NameTaken(m) \/ NameFresh(m) PROVE Dead(n) => Dead(n)'
    BY <1>2 DEF NameTaken, NameFresh, RmdirOutcome
<1>3. CASE Reap \/ DestroySlotReaps
    BY <1>3 DEF Reap, DestroySlotReaps, ReapSlot, RmdirOutcome
<1>4. ASSUME NEW m \in Name PROVE ~CleanLeftover(m)
    BY DEF CleanLeftover, Constructed
<1> QED BY <1>1, <1>2, <1>3, <1>4
        DEF Next, Executor, Constructed, Construct, launch_task, wait_for_death, AssertionFails,
            ReapFails, Destroy, DestroySlot, DestroySlotReaps, DestroySlotFails, DestroySlotReapFails,
            ReapSlotThrows, DestroyEnds, Crash, ProcessEnds

\* Every step keeps what is left over marked.
LEMMA NextLeftover ==
    ASSUME Fault \cap {"clone", "kill", "collect"} = {},
           TypeInv, SlotBookkeeping, StackIsReaped, LeftoverInv, [Next]_vars
    PROVE  LeftoverInv'
<1>1. ~SpawnFails /\ "kill" \notin Fault
    BY DEF SpawnFails
<1>2. ASSUME pc' = "constructing", NEW n \in Name PROVE n \in listing' \/ Dead(n)'
  <2>1. \/ Construct \/ (\E m \in Name : CleanLeftover(m))
        \/ Kernel \/ UNCHANGED vars
      BY <1>2 DEF Next, Executor, NameTaken, NameFresh, launch_task, Spawn,
             SpawnFails, wait_for_death, AssertionFails, Reap, ReapFails, Destroy, DestroySlot,
             DestroySlotReaps, DestroySlotFails, DestroySlotReapFails,
             ReapSlotThrows, DestroyEnds, Crash, ProcessEnds
  <2>2. CASE Kernel \/ UNCHANGED vars
    <3>1. pc' = pc /\ listing' = listing /\ cgroup' = cgroup
        BY <2>2 DEF Kernel, LeaderExits, LeaderForks, LeaderKilled, TimerExpires, StraysGone, vars
    <3> QED BY <1>2, <3>1 DEF LeftoverInv, Dead
  <2> QED BY <2>1, <2>2, ConstructorMarks
<1>3. ASSUME Constructed', NEW n \in Name
      PROVE  \/ Dead(n)'
             \/ \E s \in Holding' : tasks'[s].dir = n
             \/ pc' = "clone" /\ n = cur'.dir
  <2>1. CASE ~Constructed
      BY <1>3, <2>1, BecomesConstructed, ConstructorMarks
  <2>2. ASSUME Constructed, NEW kinds \in SUBSET {"pidfd", "timerfd"}, Spawn(kinds)
        PROVE  Dead(n)' \/ \E s \in Holding' : tasks'[s].dir = n
    <3>1. n # cur.dir => cgroup'[n] = cgroup[n]
        BY <2>2 DEF Spawn, TypeInv, TypeOK
    <3> QED BY <2>2, <3>1, SpawnHolds DEF LeftoverInv, Dead
  <2>3. ASSUME Constructed, \A kinds \in SUBSET {"pidfd", "timerfd"} : ~Spawn(kinds)
        PROVE  \/ Dead(n)'
               \/ \E s \in Holding' : tasks'[s].dir = n
               \/ pc' = "clone" /\ n = cur'.dir
    <3>1. CASE NameFresh(n)
        BY <3>1 DEF NameFresh, TypeInv, TypeOK
    <3>2. CASE ~NameFresh(n) /\ Dead(n)
        BY <1>1, <1>3, <2>3, <3>2, DeadStaysDead
    <3>3. ASSUME pc = "clone", n = cur.dir PROVE pc' = "clone" /\ n = cur'.dir
      <4>1. Kernel \/ UNCHANGED vars
          BY <1>1, <1>3, <2>3, <3>3
             DEF Next, Executor, Construct, CleanLeftover, NameTaken, NameFresh, launch_task,
                 wait_for_death, AssertionFails, Reap, ReapFails, Destroy, DestroySlot,
                 DestroySlotReaps, DestroySlotFails, DestroySlotReapFails,
                 ReapSlotThrows, DestroyEnds, Crash, ProcessEnds, Constructed
      <4> QED BY <3>3, <4>1 DEF Kernel, LeaderExits, LeaderForks, LeaderKilled, TimerExpires,
                                StraysGone, vars
    <3>4. ASSUME NEW s \in Holding, tasks[s].dir = n
          PROVE  Dead(n)' \/ \E r \in Holding' : tasks'[r].dir = n
      <4>1. CASE HoldsExcept({})
          BY <3>4, <4>1 DEF HoldsExcept
      <4>2. CASE /\ HoldsExcept({cur.slot})
                 /\ Reap \/ DestroySlotReaps \/ ReapFails \/ DestroySlotReapFails
        <5>1. ASSUME Reap \/ DestroySlotReaps, s = cur.slot
              PROVE  cgroup'[n] \in {"absent", "zero"}
            BY <3>4, <5>1 DEF Reap, DestroySlotReaps, ReapSlot, RmdirOutcome, TypeInv, TypeOK
        <5>2. ASSUME ReapFails \/ DestroySlotReapFails, s = cur.slot
              PROVE  cgroup'[n] \in {"absent", "zero"}
            BY <3>4, <5>2 DEF ReapFails, DestroySlotReapFails, ReapSlotThrows, CollectThrows
        <5>3. s = cur.slot => cgroup'[n] \in {"absent", "zero"}
            BY <4>2, <5>1, <5>2
        <5>4. s # cur.slot => s \in Holding' /\ tasks'[s].dir = n
            BY <3>4, <4>2 DEF HoldsExcept
        <5> QED BY <5>3, <5>4 DEF Dead
      <4>3. ASSUME NEW r \in Holding, HoldsExcept({r}), cgroup[tasks[r].dir] = "absent",
                   UNCHANGED cgroup
            PROVE  Dead(n)' \/ \E q \in Holding' : tasks'[q].dir = n
          BY <3>4, <4>3 DEF HoldsExcept, Dead
      <4> QED BY <1>1, <1>3, <2>3, <4>1, <4>2, <4>3, ConstructedHolds
    <3> QED BY <2>3, <3>1, <3>2, <3>3, <3>4 DEF LeftoverInv
  <2> QED BY <2>1, <2>2, <2>3
<1> QED BY <1>2, <1>3 DEF LeftoverInv

\* Unless a launch or a reap throws, each directory of no task is dead between calls,
\* through any number of crashes and restarts.
THEOREM LeftoversInvariant == Spec => []LeftoversAreMarked
<1>1. CASE Fault \cap {"clone", "kill", "collect"} = {}
  <2>1. Init => LeftoverInv
      BY DEF Init, LeftoverInv, Constructed
  <2>2. TypeInv /\ SlotBookkeeping /\ StackIsReaped /\ LeftoverInv /\ [Next]_vars => LeftoverInv'
      BY <1>1, NextLeftover
  <2>3. LeftoverInv => LeftoversAreMarked
      BY DEF LeftoverInv, LeftoversAreMarked, Constructed, Dead
  <2> QED BY <2>1, <2>2, <2>3, StackInvariant, TypeCorrect, BookkeepingInvariant, PTL DEF Spec
<1>2. CASE Fault \cap {"clone", "kill", "collect"} # {}
  <2>1. LeftoversAreMarked
      BY <1>2 DEF LeftoversAreMarked
  <2> QED BY <2>1, PTL
<1> QED BY <1>1, <1>2

-----------------------------------------------------------------------------

\* With limits of whole pages the destructor does not terminate the program, and
\* whatever was started and not waited for is held.
UnreapedIsHeld ==
    WholePages =>
        /\ pc # "terminated"
        /\ \A t \in Task : proc[t] \in {"none", "reaped"} \/ \E s \in Holding : tasks[s].task = t

\* A destructor that is through with its slots holds none.
LEMMA EndsEmpty ==
    ASSUME DestroyEnds
    PROVE  Holding = {}
    BY DEF DestroyEnds, Holding, Reaping

\* Every slot the destructor comes to still has its directory.
LEMMA DestructorFindsDirectories ==
    ASSUME TypeInv, LimitInv, WholePages, "kill" \notin Fault, NEW s \in Slots
    PROVE  ~DestroySlotFails(s)
<1> SUFFICES ASSUME DestroySlotFails(s) PROVE FALSE
    OBVIOUS
<1>1. s \in Holding
    BY DEF DestroySlotFails, NextToReap, Holding
<1>2. cgroup[tasks[s].dir] = "limit"
    BY <1>1 DEF LimitInv, RunsInsideItsLimit
<1> QED BY <1>2 DEF DestroySlotFails, KillThrows

\* Every step keeps the unreaped held.
LEMMA NextUnreaped ==
    ASSUME Fault \cap {"crash", "kill", "collect"} = {}, TypeInv, SlotBookkeeping,
           StackIsReaped, LimitInv, WholePages => NoAssertionFails, UnreapedIsHeld, [Next]_vars
    PROVE  UnreapedIsHeld'
<1> SUFFICES ASSUME WholePages'
             PROVE  /\ pc' # "terminated"
                    /\ \A t \in Task : \/ proc'[t] \in {"none", "reaped"}
                                      \/ \E s \in Holding' : tasks'[s].task = t
    BY DEF UnreapedIsHeld
<1>0. WholePages /\ pc \notin {"aborted", "terminated"}
    BY WholePagesBefore DEF UnreapedIsHeld, NoAssertionFails
<1>1. ~Crash /\ ~ReapFails /\ ~DestroySlotReapFails /\ \A s \in Slots : ~DestroySlotFails(s)
  <2>1. ~Crash
      BY <1>0 DEF Crash
  <2> QED BY <1>0, <2>1, ReapDoesNotFail, DestructorFindsDirectories
<1>2. pc' # "terminated"
  <2>1. CASE Kernel \/ UNCHANGED vars
      BY <1>0, <2>1 DEF Kernel, LeaderExits, LeaderForks, LeaderKilled, TimerExpires,
                        StraysGone, vars
  <2>2. CASE Executor
      BY <1>0, <1>1, <2>2
         DEF Executor, Construct, CleanLeftover, NameTaken, NameFresh, launch_task, Spawn,
             SpawnFails, wait_for_death, AssertionFails, Reap, Destroy, DestroySlot,
             DestroySlotReaps, DestroyEnds, ProcessEnds, AfterCleaning
  <2> QED BY <2>1, <2>2 DEF Next
<1>3. ASSUME NEW t \in Task
      PROVE  proc'[t] \in {"none", "reaped"} \/ \E s \in Holding' : tasks'[s].task = t
  <2>1. proc[t] \in {"none", "reaped"} \/ \E s \in Holding : tasks[s].task = t
      BY <1>0 DEF UnreapedIsHeld
  <2>2. ASSUME NEW kinds \in SUBSET {"pidfd", "timerfd"}, Spawn(kinds)
        PROVE  proc'[t] \in {"none", "reaped"} \/ \E s \in Holding' : tasks'[s].task = t
    <3>1. t # cur.task => proc'[t] = proc[t]
        BY <2>2 DEF Spawn, TypeInv, TypeOK
    <3> QED BY <2>1, <2>2, <3>1, SpawnHolds
  <2>3. ASSUME \A kinds \in SUBSET {"pidfd", "timerfd"} : ~Spawn(kinds)
        PROVE  proc'[t] \in {"none", "reaped"} \/ \E s \in Holding' : tasks'[s].task = t
    <3>1. proc[t] \in {"none", "reaped"} => proc'[t] \in {"none", "reaped"}
        BY <2>3, ProcessesStay, ProcessesShrink
    <3>2. CASE HoldsExcept({})
        BY <2>1, <3>1, <3>2 DEF HoldsExcept
    <3>3. CASE Reap \/ DestroySlotReaps
      <4>1. proc'[tasks[cur.slot].task] = "reaped" \/ tasks[cur.slot].task \notin Task
          BY <3>3 DEF Reap, DestroySlotReaps, ReapSlot, TypeInv, TypeOK
      <4>2. \A s \in Holding : s # cur.slot => s \in Holding' /\ tasks'[s].task = tasks[s].task
          BY <3>3, ReapHolds DEF HoldsExcept
      <4> QED BY <2>1, <3>1, <4>1, <4>2
    <3>4. CASE DestroyEnds
        BY <2>1, <3>1, <3>4, EndsEmpty
    <3>5. ASSUME NEW w \in epoll, wait_for_death(w) PROVE HoldsExcept({})
        BY <1>0, <3>5, WaitHolds, WaitDoesNotThrow
    <3>6. ASSUME NEW s \in Slots, DestroySlot(s) PROVE HoldsExcept({})
        BY <3>6, DestroySlotHolds
    <3> QED BY <1>1, <2>3, <3>2, <3>3, <3>4, <3>5, <3>6, QuietStepHolds DEF Next, Executor, Quiet
  <2> QED BY <2>2, <2>3
<1> QED BY <1>2, <1>3

\* Unless a call fails that should not, a destructor that runs to its end leaves
\* nothing running; and with limits of whole pages it does run to its end, with every
\* process that was ever started waited for.
THEOREM DestructorInvariant == Spec => DestructorReapsAll
<1> DEFINE Fails == Fault \cap {"crash", "kill", "collect"} # {}
<1>1. CASE Fails
  <2>1. [(Destructing /\ pc' = "down" /\ Fault \cap {"crash", "kill", "collect"} = {}) =>
            /\ pc = "destructor" => /\ \A t \in Task : proc[t] # "live"
                                    /\ \A n \in Name : strays[n] # "live"
            /\ WholePages => /\ pc = "destructor"
                             /\ \A t \in Task : proc[t] \in {"none", "reaped"}]_vars
      BY <1>1
  <2> QED BY <2>1, PTL DEF DestructorReapsAll
<1>2. CASE ~Fails
  <2>1. Init => UnreapedIsHeld
      BY DEF Init, UnreapedIsHeld
  <2>2. TypeInv /\ SlotBookkeeping /\ StackIsReaped /\ LimitInv
            /\ (WholePages => NoAssertionFails) /\ UnreapedIsHeld /\ [Next]_vars
            => UnreapedIsHeld'
      BY <1>2, NextUnreaped
  <2>3. NothingRunsUnowned /\ UnreapedIsHeld /\ [Next]_vars
            => [(Destructing /\ pc' = "down" /\ Fault \cap {"crash", "kill", "collect"} = {}) =>
                  /\ pc = "destructor" => /\ \A t \in Task : proc[t] # "live"
                                          /\ \A n \in Name : strays[n] # "live"
                  /\ WholePages => /\ pc = "destructor"
                                   /\ \A t \in Task : proc[t] \in {"none", "reaped"}]_vars
    <3> SUFFICES ASSUME NothingRunsUnowned, UnreapedIsHeld, [Next]_vars, Destructing, pc' = "down"
                 PROVE  /\ pc = "destructor" => /\ \A t \in Task : proc[t] # "live"
                                                /\ \A n \in Name : strays[n] # "live"
                        /\ WholePages => /\ pc = "destructor"
                                         /\ \A t \in Task : proc[t] \in {"none", "reaped"}
        OBVIOUS
    <3>1. DestroyEnds \/ Crash
        BY DEF Destructing, Next, Kernel, LeaderExits, LeaderForks, LeaderKilled, TimerExpires,
               StraysGone, vars, Executor, Construct, CleanLeftover, NameTaken, NameFresh,
               launch_task, Spawn, SpawnFails, wait_for_death, AssertionFails, Reap, ReapFails,
               Destroy, DestroySlot, DestroySlotReaps, DestroySlotFails, DestroySlotReapFails
    <3>2. (DestroyEnds /\ pc = "destructor") \/ pc = "terminated"
        BY <1>2, <3>1 DEF DestroyEnds, Crash, Destructing
    <3>3. CASE pc = "terminated"
        BY <3>3 DEF UnreapedIsHeld
    <3>4. CASE DestroyEnds /\ pc = "destructor"
        BY <3>4, EndsEmpty DEF UnreapedIsHeld, NothingRunsUnowned, Constructed
    <3> QED BY <3>2, <3>3, <3>4
  <2>4. Spec => [](WholePages => NoAssertionFails)
      BY <1>2, AssertionsHold
  <2>5. Spec => []NothingRunsUnowned
      BY <1>2, OwnedInvariant
  <2> QED BY <2>1, <2>2, <2>3, <2>4, <2>5, LimitInvariant, StackInvariant, TypeCorrect,
             BookkeepingInvariant, PTL DEF Spec, DestructorReapsAll
<1> QED BY <1>1, <1>2

-----------------------------------------------------------------------------
(***************************************************************************)
(* Refinement: each step of the executor and of the kernel is a launch, a  *)
(* report, the loss of a task, the end of the pool, or invisible.          *)
(***************************************************************************)
(* Outcomes.                                                               *)

\* A task is reported when its process has been waited for, and no slot holds it then.
ReportedInv ==
    /\ \A t \in Task : t \in Reported => proc[t] = "reaped"
    /\ \A s \in Holding : tasks[s].task \notin Reported

\* Only a reap hands out an outcome.
LEMMA OutcomesStay ==
    ASSUME [Next]_vars, ~Reap
    PROVE  UNCHANGED outcomes
<1>1. CASE Kernel \/ UNCHANGED vars
    BY <1>1 DEF Kernel, LeaderExits, LeaderForks, LeaderKilled, TimerExpires, StraysGone, vars
<1>2. CASE Executor
    BY <1>2 DEF Executor, Construct, CleanLeftover, NameTaken, NameFresh, launch_task, Spawn,
                SpawnFails, wait_for_death, AssertionFails, ReapFails, Destroy, DestroySlot,
                DestroySlotReaps, DestroySlotFails, DestroySlotReapFails,
                ReapSlotThrows, DestroyEnds, Crash, ProcessEnds
<1> QED BY <1>1, <1>2 DEF Next

\* A reap reports the task of the slot in cur.
LEMMA ReapReports ==
    ASSUME TypeInv, Reap
    PROVE  LET t == tasks[cur.slot].task IN
           /\ t \in Task /\ cur.slot \in Holding
           /\ outcomes' = Append(outcomes, t)
           /\ \A u : u \in Reported' <=> u \in Reported \/ u = t
           /\ proc[t] = "zombie" /\ proc' = [proc EXCEPT ![t] = "reaped"]
<1> DEFINE t == tasks[cur.slot].task
<1>1. t \in Task /\ cur.slot \in Holding
    BY ReapHolds, HeldType
<1>2. outcomes' = Append(outcomes, t) /\ outcomes \in Seq(Task)
    BY DEF Reap, TypeInv, TypeOK
<1>3. proc[t] = "zombie" /\ proc' = [proc EXCEPT ![t] = "reaped"]
    BY DEF Reap, ReapSlot
<1> HIDE DEF t
<1>4. /\ Len(outcomes) \in Nat /\ Len(outcomes') = Len(outcomes) + 1
      /\ outcomes'[Len(outcomes) + 1] = t
      /\ \A k \in 1 .. Len(outcomes) : outcomes'[k] = outcomes[k]
    BY <1>1, <1>2, AppendProperties, LenProperties
<1>5. \A u : u \in Reported' <=> u \in Reported \/ u = t
    BY <1>4 DEF Reported
<1> QED BY <1>1, <1>2, <1>3, <1>5 DEF t

\* Every step keeps what was reported apart from what is held.
LEMMA NextReported ==
    TypeInv /\ SlotBookkeeping /\ StackIsReaped /\ HolderInv /\ ReportedInv /\ [Next]_vars
        => ReportedInv'
<1> SUFFICES ASSUME TypeInv, SlotBookkeeping, StackIsReaped, HolderInv, ReportedInv, [Next]_vars
             PROVE  ReportedInv'
    OBVIOUS
<1>1. CASE Reap
  <2>1. /\ cur.slot \in Holding
        /\ \A u : u \in Reported' <=> u \in Reported \/ u = tasks[cur.slot].task
        /\ proc' = [proc EXCEPT ![tasks[cur.slot].task] = "reaped"]
      BY <1>1, ReapReports
  <2>2. \A s \in Holding' : /\ s \in Holding /\ s # cur.slot
                            /\ tasks'[s].task = tasks[s].task
      BY <1>1, ReapHolds DEF HoldsExcept
  <2>3. \A s \in Holding' : tasks[s].task # tasks[cur.slot].task
      BY <2>1, <2>2 DEF HolderInv, HeldTasksDiffer
  <2>4. \A t \in Task : t \in Reported' => proc'[t] = "reaped"
      BY <2>1 DEF ReportedInv, TypeInv, TypeOK
  <2> QED BY <2>1, <2>2, <2>3, <2>4 DEF ReportedInv
<1>2. ASSUME NEW kinds \in SUBSET {"pidfd", "timerfd"}, Spawn(kinds) PROVE ReportedInv'
  <2>1. Reported' = Reported /\ proc[cur.task] = "none" /\ cur.task \in Task
        /\ \A t \in Task : t # cur.task => proc'[t] = proc[t]
      BY <1>2 DEF Spawn, Reported, TypeInv, TypeOK, LocalsOK, HolderInv, LaunchIsFirst
  <2>2. cur.task \notin Reported
      BY <2>1 DEF ReportedInv
  <2> QED BY <1>2, <2>1, <2>2, SpawnHolds DEF ReportedInv
<1>3. ASSUME ~Reap, \A kinds \in SUBSET {"pidfd", "timerfd"} : ~Spawn(kinds) PROVE ReportedInv'
  <2>1. Reported' = Reported
      BY <1>3, OutcomesStay DEF Reported
  <2>2. \A s \in Holding' : s \in Holding /\ tasks'[s].task = tasks[s].task
      BY <1>3, StepHolds DEF HoldsExcept
  <2> QED BY <1>3, <2>1, <2>2, ProcessesShrink DEF ReportedInv
<1> QED BY <1>1, <1>2, <1>3

LEMMA ReportedInvariant == Spec => []ReportedInv
<1>1. Init => ReportedInv
    BY EmptySeq DEF Init, ReportedInv, Reported, Holding, Slots
<1> QED BY <1>1, NextReported, HolderInvariant, StackInvariant, TypeCorrect,
           BookkeepingInvariant, PTL DEF Spec

-----------------------------------------------------------------------------
(* The mapped state.                                                       *)

\* What runs in the pool is what the slots hold, until the destructor begins.
LEMMA RunningIsKept ==
    ASSUME TypeInv, HolderInv, ReportedInv
    PROVE  Pool!Running = Kept
<1>1. \A t \in Kept : t \in Task /\ t \notin Reported /\ proc[t] # "none"
    BY HeldType DEF Kept, HolderInv, HeldHasProcess, ReportedInv
<1> QED BY <1>1 DEF Pool!Running, PoolState

\* The pool counts as the executor does.
LEMMA PoolCounts == \A S : Pool!Cardinality(S) = Cardinality(S)
    BY DEF Pool!Cardinality, Cardinality

\* With fewer launched tasks than MaxActive there is room in the pool for one more.
LEMMA KeptBelowBound ==
    ASSUME TypeInv, SlotBookkeeping, StackIsReaped, LaunchesBelowBound, pc = "clone"
    PROVE  Cardinality(Kept) < MaxActive
<1> DEFINE f == [i \in ActiveIndices |-> tasks[SlotOf(i)].task]
<1>1. ~Destructing /\ TypeOK /\ active_task_count < MaxActive
    BY DEF Destructing, TypeInv, LaunchesBelowBound
<1>2. ASSUME NEW s \in Holding PROVE \E i \in ActiveIndices : SlotOf(i) = s
  <2>1. s \in Slots /\ tasks[s].index # Reaped
      BY DEF Holding, IsReaped, Reaping
  <2>2. ~\E p \in 1 .. Len(unused_slots) : unused_slots[p] = s
      BY <2>1 DEF StackIsReaped
  <2> QED BY <1>1, <2>1, <2>2 DEF SlotBookkeeping, StackAndMapDivideSlots
<1>3. ASSUME NEW i \in ActiveIndices PROVE SlotOf(i) \in Holding
  <2>1. SlotOf(i) \in Slots /\ i \in Nat
      BY <1>1 DEF TypeOK, SlotOf
  <2>2. tasks[SlotOf(i)].index = i /\ tasks[SlotOf(i)].open
      BY <1>1 DEF SlotBookkeeping, StatesCarryTheirIndex
  <2> QED BY <2>1, <2>2 DEF Holding, IsReaped, Reaped
<1>4. Kept = {tasks[s].task : s \in Holding}
    BY <1>1 DEF Kept
<1>5. f \in Surjection(ActiveIndices, Kept)
    BY <1>2, <1>3, <1>4 DEF Surjection
<1>6. Cardinality(Kept) <= Cardinality(ActiveIndices) /\ Cardinality(Kept) \in Nat
    BY <1>1, <1>5, ActiveIndicesFinite, FS_Surjection, FS_CardinalityType
<1>7. Cardinality(ActiveIndices) = active_task_count
    BY <1>1 DEF SlotBookkeeping, ActiveTasksAreCounted
<1> QED BY <1>1, <1>6, <1>7, MaxActiveIsPositive DEF TypeOK

\* Letting go of slots takes their tasks out of the pool, and no others.
LEMMA KeptExcept ==
    ASSUME HolderInv, NEW S \in SUBSET Holding, HoldsExcept(S), ~Destructing, ~Destructing'
    PROVE  Kept' = Kept \ {tasks[s].task : s \in S}
<1>1. \A t : t \in Kept <=> \E s \in Holding : tasks[s].task = t
    BY DEF Kept
<1>2. \A t : t \in Kept' <=> \E s \in Holding' : tasks'[s].task = t
    BY DEF Kept
<1>3. \A s \in Holding' : s \in Holding /\ s \notin S /\ tasks'[s].task = tasks[s].task
    BY DEF HoldsExcept
<1>4. \A s \in Holding : s \notin S => s \in Holding'
    BY DEF HoldsExcept
<1>5. \A r \in S : \A s \in Holding : tasks[r].task = tasks[s].task => r = s
    BY DEF HolderInv, HeldTasksDiffer
<1> QED BY <1>1, <1>2, <1>3, <1>4, <1>5

\* A step that launches and reports nothing loses the tasks it lets go of.
LEMMA PoolLoses ==
    ASSUME TypeInv, HolderInv, ReportedInv, [Next]_vars, ~Reap,
           \A kinds \in SUBSET {"pidfd", "timerfd"} : ~Spawn(kinds),
           NEW S \in SUBSET Kept, Kept' = Kept \ S
    PROVE  Pool!Lose(S)
<1>1. Reported' = Reported /\ outcomes' = outcomes
    BY OutcomesStay DEF Reported
<1>2. \A t \in Task : proc'[t] = "none" <=> proc[t] = "none"
    BY ProcessesStay
<1>3. \A t \in S : t \in Task /\ t \notin Reported /\ proc[t] # "none"
    BY HeldType DEF Kept, HolderInv, HeldHasProcess, ReportedInv
<1>4. ASSUME NEW t \in Task
      PROVE  PoolState'[t] = IF t \in S THEN "lost" ELSE PoolState[t]
    BY <1>1, <1>2, <1>3 DEF PoolState
<1>5. PoolState' = [t \in Task |-> IF t \in S THEN "lost" ELSE PoolState[t]]
  <2>1. PoolState' = [t \in Task |-> PoolState'[t]]
      BY DEF PoolState
  <2> QED BY <1>4, <2>1
<1> QED BY <1>1, <1>5 DEF Pool!Lose

\* And is invisible when it lets go of none.
LEMMA PoolStutters ==
    ASSUME TypeInv, HolderInv, ReportedInv, [Next]_vars, ~Reap,
           \A kinds \in SUBSET {"pidfd", "timerfd"} : ~Spawn(kinds), Kept' = Kept
    PROVE  UNCHANGED Pool!poolVars
<1>1. Reported' = Reported /\ outcomes' = outcomes
    BY OutcomesStay DEF Reported
<1>2. \A t \in Task : proc'[t] = "none" <=> proc[t] = "none"
    BY ProcessesStay
<1>3. PoolState' = PoolState
    BY <1>1, <1>2 DEF PoolState
<1> QED BY <1>1, <1>3 DEF Pool!poolVars

\* A step that empties the pool is its end, unless it was empty.
LEMMA PoolEnds ==
    ASSUME TypeInv, HolderInv, ReportedInv, [Next]_vars, ~Reap,
           \A kinds \in SUBSET {"pidfd", "timerfd"} : ~Spawn(kinds), Kept' = {}
    PROVE  [Pool!Next]_(Pool!poolVars)
<1>1. CASE Kept = {}
    BY <1>1, PoolStutters
<1>2. CASE Kept # {}
  <2>1. Pool!Lose(Kept)
      BY PoolLoses
  <2> QED BY <1>2, <2>1, RunningIsKept DEF Pool!Next, Pool!End
<1> QED BY <1>1, <1>2

\* A step that lets go of one task because of an exception drops it.
LEMMA PoolDrops ==
    ASSUME TypeInv, HolderInv, ReportedInv, [Next]_vars, ~Reap,
           \A kinds \in SUBSET {"pidfd", "timerfd"} : ~Spawn(kinds),
           Fault \cap {"kill", "collect"} # {} \/ Tiny # {},
           NEW s \in Holding, HoldsExcept({s}), ~Destructing, ~Destructing'
    PROVE  Pool!Next
<1> DEFINE t == tasks[s].task
<1>1. t \in Kept /\ t \in Task /\ Kept' = Kept \ {t}
  <2>1. {tasks[r].task : r \in {s}} = {t} /\ {s} \in SUBSET Holding
      OBVIOUS
  <2>2. Kept' = Kept \ {t}
      BY <2>1, KeptExcept
  <2> QED BY <2>2, HeldType DEF Kept
<1>2. Pool!Lose({t})
    BY <1>1, PoolLoses
<1>3. PoolState[t] = "running"
    BY <1>1, RunningIsKept DEF Pool!Running
<1> QED BY <1>1, <1>2, <1>3 DEF Pool!Next, Pool!Drop

-----------------------------------------------------------------------------
(* The steps.                                                              *)

\* The clone of a process is the launch of its task.
LEMMA SpawnLaunches ==
    ASSUME TypeInv, SlotBookkeeping, StackIsReaped, HolderInv, ReportedInv, LaunchesBelowBound,
           NEW kinds, Spawn(kinds)
    PROVE  Pool!Next
<1> DEFINE t == cur.task
<1>1. /\ t \in Task /\ proc[t] = "none" /\ pc = "clone" /\ pc' = "idle"
      /\ proc' = [proc EXCEPT ![t] = "live"]
      /\ outcomes' = outcomes
    BY DEF Spawn, TypeInv, LocalsOK, HolderInv, LaunchIsFirst
<1>2. t \notin Reported /\ Reported' = Reported
    BY <1>1 DEF ReportedInv, Reported
<1>3. \A u : u \in Kept' <=> u \in Kept \/ u = t
  <2>1. Kept = {tasks[s].task : s \in Holding} /\ Kept' = {tasks'[s].task : s \in Holding'}
      BY <1>1 DEF Kept, Destructing
  <2> QED BY <2>1, SpawnHolds
<1>4. PoolState[t] = "pending"
    BY <1>1, <1>2 DEF PoolState
<1>5. ASSUME NEW u \in Task
      PROVE  PoolState'[u] = IF u = t THEN "running" ELSE PoolState[u]
  <2>1. proc'[u] = IF u = t THEN "live" ELSE proc[u]
      BY <1>1 DEF TypeInv, TypeOK
  <2> QED BY <1>1, <1>2, <1>3, <2>1 DEF PoolState
<1>6. PoolState' = [PoolState EXCEPT ![t] = "running"]
  <2>1. PoolState' = [u \in Task |-> PoolState'[u]] /\ DOMAIN PoolState = Task
        /\ PoolState = [u \in Task |-> PoolState[u]]
      BY DEF PoolState
  <2> QED BY <1>5, <2>1
<1>7. Cardinality(Pool!Running) < MaxActive
    BY <1>1, RunningIsKept, KeptBelowBound
<1> HIDE DEF t
<1>8. Pool!Launch(t)
    BY <1>1, <1>4, <1>6, <1>7, PoolCounts DEF Pool!Launch
<1> QED BY <1>1, <1>8 DEF Pool!Next

\* A reap that comes through is the report of its task.
LEMMA ReapIsReport ==
    ASSUME TypeInv, SlotBookkeeping, HolderInv, ReportedInv, Reap
    PROVE  Pool!Next
<1> DEFINE t == tasks[cur.slot].task
<1>1. /\ t \in Task /\ cur.slot \in Holding
      /\ outcomes' = Append(outcomes, t)
      /\ \A u : u \in Reported' <=> u \in Reported \/ u = t
      /\ proc[t] = "zombie" /\ proc' = [proc EXCEPT ![t] = "reaped"]
    BY ReapReports
<1>2. ~Destructing /\ ~Destructing'
    BY DEF Reap, Destructing
<1>3. t \in Kept /\ Kept' = Kept \ {t}
  <2>1. {tasks[r].task : r \in {cur.slot}} = {t} /\ {cur.slot} \in SUBSET Holding
      BY <1>1
  <2>2. Kept' = Kept \ {t}
      BY <1>2, <2>1, ReapHolds, KeptExcept
  <2> QED BY <1>1, <1>2, <2>2 DEF Kept
<1>4. PoolState[t] = "running"
    BY <1>1, <1>3, RunningIsKept DEF Pool!Running
<1> HIDE DEF t
<1>5. ASSUME NEW u \in Task
      PROVE  PoolState'[u] = IF u = t THEN "reported" ELSE PoolState[u]
  <2>1. proc'[u] = IF u = t THEN "reaped" ELSE proc[u]
      BY <1>1 DEF TypeInv, TypeOK
  <2> QED BY <1>1, <1>3, <2>1 DEF PoolState
<1>6. PoolState' = [PoolState EXCEPT ![t] = "reported"]
  <2>1. PoolState' = [u \in Task |-> PoolState'[u]] /\ DOMAIN PoolState = Task
        /\ PoolState = [u \in Task |-> PoolState[u]]
      BY DEF PoolState
  <2> QED BY <1>5, <2>1
<1>7. Pool!Report(t)
    BY <1>1, <1>4, <1>6 DEF Pool!Report
<1> QED BY <1>1, <1>7 DEF Pool!Next

\* Every step of the executor is a step of the pool.
LEMMA NextImplements ==
    TypeInv /\ SlotBookkeeping /\ StackIsReaped /\ HolderInv /\ LimitInv /\ ReportedInv
        /\ LaunchesBelowBound /\ [Next]_vars => [Pool!Next]_(Pool!poolVars)
<1> SUFFICES ASSUME TypeInv, SlotBookkeeping, StackIsReaped, HolderInv, LimitInv, ReportedInv,
                    LaunchesBelowBound, [Next]_vars
             PROVE  [Pool!Next]_(Pool!poolVars)
    OBVIOUS
<1>1. ASSUME NEW kinds \in SUBSET {"pidfd", "timerfd"}, Spawn(kinds)
      PROVE  [Pool!Next]_(Pool!poolVars)
    BY <1>1, SpawnLaunches
<1>2. CASE Reap
    BY <1>2, ReapIsReport
<1>3. ASSUME ~Reap, \A kinds \in SUBSET {"pidfd", "timerfd"} : ~Spawn(kinds)
      PROVE  [Pool!Next]_(Pool!poolVars)
  <2>1. ASSUME HoldsExcept({}), Destructing' <=> Destructing PROVE [Pool!Next]_(Pool!poolVars)
    <3>1. Kept' = Kept
      <4>1. CASE Destructing
          BY <2>1, <4>1 DEF Kept
      <4>2. CASE ~Destructing
          BY <2>1, <4>2, KeptExcept
      <4> QED BY <4>1, <4>2
    <3> QED BY <1>3, <3>1, PoolStutters
  <2>2. CASE Quiet /\ ~Destroy
    <3>1. Destructing' <=> Destructing
        BY <2>2 DEF Quiet, Kernel, LeaderExits, LeaderForks, LeaderKilled, TimerExpires,
                    StraysGone, Construct, SpawnFails, CleanLeftover, NameTaken,
                    NameFresh, launch_task, AssertionFails, DestroySlotFails, vars, Destructing,
                    AfterCleaning
    <3> QED BY <2>1, <2>2, <3>1, QuietStepHolds
  <2>3. CASE Destroy
    <3>1. Kept' = {}
        BY <2>3 DEF Destroy, Kept, Destructing
    <3> QED BY <1>3, <3>1, PoolEnds
  <2>4. ASSUME NEW w \in epoll, wait_for_death(w) PROVE [Pool!Next]_(Pool!poolVars)
    <3> DEFINE s == SlotOf(w.index)
    <3>1. ~Destructing /\ ~Destructing'
        BY <2>4 DEF wait_for_death, Destructing
    <3>2. CASE pc' = "waitid"
        BY <2>1, <2>4, <3>1, <3>2, WaitHolds
    <3>3. CASE pc' # "waitid"
      <4>1. s \in Holding /\ HoldsExcept({s})
          BY <2>4, <3>3, WaitHolds
      <4>2. Fault \cap {"kill", "collect"} # {} \/ Tiny # {}
          BY <2>4, <3>3, WaitDoesNotThrow DEF WholePages
      <4> QED BY <1>3, <3>1, <4>1, <4>2, PoolDrops
    <3> QED BY <3>2, <3>3
  <2>5. CASE ReapFails
    <3>1. /\ cur.slot \in Holding /\ HoldsExcept({cur.slot})
          /\ ~Destructing /\ ~Destructing'
        BY <2>5, ReapHolds DEF ReapFails, Destructing
    <3>2. Fault \cap {"kill", "collect"} # {} \/ Tiny # {}
        BY <2>5, ReapDoesNotFail DEF WholePages
    <3> QED BY <1>3, <3>1, <3>2, PoolDrops
  <2>6. ASSUME NEW s \in Slots, DestroySlot(s) PROVE [Pool!Next]_(Pool!poolVars)
    <3>1. Destructing /\ Destructing'
        BY <2>6 DEF DestroySlot, Destructing
    <3> QED BY <2>1, <2>6, <3>1, DestroySlotHolds
  <2>7. CASE DestroySlotReaps \/ DestroySlotReapFails
    <3>1. Kept' = {}
        BY <2>7 DEF DestroySlotReaps, DestroySlotReapFails, Kept, Destructing
    <3> QED BY <1>3, <3>1, PoolEnds
  <2>8. CASE DestroyEnds \/ Crash
    <3>1. Kept' = {}
        BY <2>8, EndHolds DEF DestroyEnds, Crash, Kept
    <3> QED BY <1>3, <3>1, PoolEnds
  <2> QED BY <1>3, <2>2, <2>3, <2>4, <2>5, <2>6, <2>7, <2>8 DEF Next, Executor, Quiet
<1> QED BY <1>1, <1>2, <1>3

\* The executor implements TaskPool: for any tasks, names and limits, with crashes and
\* whatever throws, each launched task is reported exactly once, lost with its executor
\* or lost to an exception, and the caller's bound holds for what runs.
THEOREM Refinement == Spec => ImplementsTaskPool
<1>1. Init => Pool!Init
  <2> SUFFICES ASSUME Init PROVE Pool!Init
      OBVIOUS
  <2>1. Reported = {} /\ \A t \in Task : proc[t] = "none"
      BY EmptySeq DEF Init, Reported
  <2>2. PoolState = [t \in Task |-> "pending"]
      BY <2>1 DEF PoolState
  <2> QED BY <2>2 DEF Init, Pool!Init
<1>2. Spec => []LaunchesBelowBound
    BY LaunchesInvariant, PTL
<1> QED BY <1>1, <1>2, NextImplements, ReportedInvariant, HolderInvariant, LimitInvariant,
           StackInvariant, TypeCorrect, BookkeepingInvariant, PTL DEF Spec, ImplementsTaskPool, Pool!Spec
===========================================================================
