# A TLA+ model of the build system in ivl

The repository holds a header-only C++ library (`ivl/`), its own build system
(`bootstrap.sh`, `ivl/build_system/`), and many stand-alone programs. The parts
whose correctness depends on the order in which processes, kernel events, kills
and edits happen are all in the build system, and that is what is modelled
first: the task executor, the claim of its root cgroup, the generator of the
build sources, and the builder itself. Then come the parts of the library that
keep state for one caller, where what is hard is a long sequence of legal calls:
allocators, trees, searches, in-place algorithms, the stack of exceptions, the
makefile parser's cursors, the comparison of recorded traces. Paths below are relative to `src/`.

## 1. Inventory

| component | state it keeps | operations | what is hard |
|---|---|---|---|
| task executor, `ivl/build_system/task_executor.hpp` (with `task_config`, `task_limits`, `task_outcome`) | slots (`tasks`), stack of free slots, map from task index to slot, counters, an epoll descriptor; in the kernel: cgroup directories, processes, pidfds, timerfds | constructor (cleans leftovers), `launch_task`, `wait_for_death`, implicit destructor | events of tasks already reaped, exceptions between two updates, timer against exit, names drawn at random that collide with leftovers, death of the executor with tasks running |
| claim of `parent.slice`, same file, lines 28-35 | a directory and its member count in the kernel | stat, mkdir, check empty, join, check alone | no lock: several programs at once |
| descriptors and epoll, `ivl/linux/file_descriptor.hpp`, `epoll.hpp` | an owned fd | close, move assignment, wait | closing the last descriptor evicts its registration |
| build source generator, `ivl/build_system/generate_build_sources.cpp` | `build/source_copy`, `build/include_dirs` | purge, copy, stamp, link | sources edited or deleted meanwhile, death half way, old backups restored |
| builder, `ivl/build_system/builder.cpp`, `bootstrap.sh` | `manifest.json`, `bootstrap_dir`, artifacts; in memory the manifest, a queue of targets | load, generate, rebuild self and re-exec, preprocess, compile in threads, save | flags that outlive what they describe, kills, compilers that outlive the builder, a builder that replaces itself |
| process, `ivl/process/default.hpp` | a pid | `clone_and_exec`, `wait`, destructor | waits twice |
| isolated execution, `ivl/isolated_execution/safe_run.hpp` | a cgroup, mounts | one run | its child never gets past a comparison of pids (section 6) |
| exception context, `ivl/exception/default.hpp` | thread-local stack of exceptions in flight | throw, catch, rethrow, `exception_ptr`, contexts | C++ does not say which exception is passing; exceptions need not end in the order of a stack |
| allocators, `ivl/alloc/` | segment trees, free lists | `take`, `give`, `allocate`, `deallocate` | lazily marked nodes, refills near exhaustion |
| bump allocator, `ivl/bump-up-down/bump_up.hpp` | a pointer | `allocate`, `reset` | alignment, the end of the buffer |
| trees, `ivl/avl_tree`, `ivl/structs` | nodes, parent pointers, aggregates | insert, erase, splay, set, find | nodes that move between owners, rebalancing after many calls |
| graphs, `ivl/graphs` | lists of successors, the search's stack | `add_edge`, `SCC` | a switch with fallthroughs |
| pollpushpop, `ivl/pollpushpop` | an explicit stack, rules with counters | `iterate` | pushes and pops that must match |
| in-place algorithms, `ivl/algorithm` | a vector that is read and written at once | joins, `monotonic_vector_update` | three cursors into one vector |
| makefile parser, `ivl/parsing` | two cursors, checkpoints | consume, go back | continued lines and escaped backslashes |
| uftrace tools, `ivl/uftrace` | the open calls of a trace, a table of distinct subtrees with a search tree over it | parse, compress, filter, diff | handles must stand for subtrees after any order of insertions |
| other parsers, reflection, format, json, wrappers of system calls | none beyond a cursor | pure functions | no state |

`bootstrap.sh` compiles the generator and the builder when they are missing and
executes the builder; the builder runs the generator, compares what its manifest
recorded with the copies the generator made, and compiles targets in worker
threads. The executor is a separate library of the same directory, meant to run
such compilations and tests under limits; its caller is
`task_executor_example.cpp`. The interaction between generator and builder is
the file system: the builder sees only copies, and its promise is about them.

What makes each correct, in a sentence:

* executor: each launched task is reported exactly once, or lost with its
  executor or with an exception of its reap; no event concerns a finished task; concurrent tasks never share a
  cgroup; nothing it started survives it unnoticed;
* claim: at most one executor is constructed over a root;
* generator: a copy that counts as current is complete, and what is compiled is
  what the sources were during the run;
* builder: a flag of the manifest never says more than is on disk, a run that
  succeeds leaves every binary, targets are compiled by an up-to-date builder,
  every run ends;
* allocators: no byte belongs to two owners;
* trees, graphs, walks and in-place algorithms: after any sequence of calls the
  representation is well formed and stands for the value a definition of a few
  lines gives;
* exceptions: a context's line goes to the exception that passes it; only if that
  is of another type, and inside the handler of a base_exception, it goes to the
  one that is handled;
* makefile parser: the place reported is the place of the next character;
* uftrace: equal subtrees, and only those, have equal handles.

The hazards at their lines are in `PROJECT.json`, each with the properties that
watch it or the reason why none does.

## 2. Modules

| module | models | composed with |
|---|---|---|
| `TaskPool` | abstract specification: what an executor promises its caller | implemented by `TaskExecutor` |
| `TaskExecutor` | the executor and the part of the kernel it uses | `Pool == INSTANCE TaskPool WITH ...` |
| `RootSlice` | the claim of the root cgroup by several programs | supplies the "one executor per root" that `TaskExecutor` assumes |
| `SourceSync` | the generator, and an editor of the sources | supplies the one-step `Generates` of `Builder` |
| `Builder` | `bootstrap.sh`, the builder, its compilers, an editor | |
| `SegmentTree` | the operations of both segment trees, as operators on a tree | |
| `ChunkUsers` | callers of a segment tree (`compact` says which) | extends `SegmentTree` |
| `SmallPtrAllocator` | free lists over a segment tree that lives in the memory it manages | extends `SegmentTree` |
| `BumpUp`, `AvlTree`, `SplayTree`, `Turnament`, `Scc`, `PollPushPop`, `MonotonicUpdate`, `ExceptionStack`, `LogicalParser` | the component of that name | `MCComponents` runs them with `RootSlice` |
| `Compressor` | the traces, the compressor and the steps of `diff.cpp` | `Avl == INSTANCE AvlTree WITH ...` for the rotations; run by `MCComponents` |
| `PowersOfTwo` | sizes in complete binary trees | extended by `Turnament`, `SegmentTree` |
| `MC*` | instances for TLC; `MCComponents` extends the modules with theorems that it runs, and instantiates the others | |
| `TaskExecutorProofs` | theorems: bookkeeping, events and assertions; processes, cgroups, limits, kills; the executor implements `TaskPool` | |
| `SourceSyncProofs`, `BuilderProofs` | theorems about the module of that name | |
| `SequenceProofs` | theorems about `LogicalParser` and `MonotonicUpdate` | |
| `TreeProofs` | theorems about `Turnament`, `AvlTree` and `SplayTree` | |
| `SegmentTreeProofs` | theorems about `SegmentTree`, `ChunkUsers` and `SmallPtrAllocator` | |
| `ComponentProofs` | theorems about `RootSlice`, `BumpUp`, `PollPushPop` and `ExceptionStack` | |
| `RecursionTheorems` | theorems about sets of numbers, recursive functions, loops, powers of two and quotients | used by `SequenceProofs`, `TreeProofs` and `SegmentTreeProofs` |

Each module also holds a few operators whose comment begins with "Faulty:".
They are not used by any specification: each is a plausible wrong version of the
definition that follows it, and substituting it shows which property notices.

### TaskExecutor

Program locations are those where the process blocks or loops on what others
change: in the naming loop of `create_new_cgroup`, before `clone3`, in `waitid`
(of a reap or of the destructor). Everything between them is one action, as the
executor is single threaded. `tasks`, `unused_slots`, `task_index_to_slot` and
both counters are the members of the same names; `epoll`, `timer`, `proc`,
`home`, `strays` and `cgroup` are kernel state. A directory is represented by
what its `memory.max` reads (`"max"`, `"limit"`, `"zero"`), since that is what
the code looks at to tell a dead directory from one in use.

* A process is named by the task it was cloned for; a task is launched at most
  once. `strays` stands for all its descendants.
* `Fault` names the system calls that may fail and whether the process may die.
  An exception leaves exactly what had been assigned before it was thrown. A
  failed `contract_assert` (`pc = "aborted"`) and an exception thrown in the
  destructor (`"terminated"`: it is noexcept) end the program: `Crash` follows.
* Some calls throw without a fault. A limit under a page (`Tiny`) reads back as 0,
  the mark of a dead directory, so a name collision, or the reap of a task that
  came to share the directory, removes it while its own task is a zombie nobody
  has reaped yet. The write to `cgroup.kill`, and `collect_cgroup_files` and the write
  to `memory.max` after `waitid`, then fail with ENOENT (`KillThrows`,
  `CollectThrows`): `wait_for_death` throws to its caller and loses the task, and the
  destructor terminates the program (`DestroySlotFails`, `DestroySlotReapFails`).
  `WholePages` says that no task with such a limit was launched so far.
* The implicit destructor destroys members in reverse order, so the map and the
  stack are gone when the slots are reaped: that is why `IsReaped` may not ask
  them (its faulty form does).
* The timer is armed before the name is drawn and the process cloned.
* The caller follows `task_executor_example.cpp`: it waits when `MaxActive`
  tasks are active, which bounds them and justifies the fairness of waiting.
* Output files, rusage, `cpu.max` and the text of outcomes are left out.

### RootSlice

One action per system call of lines 30-34. A program may end at any point; it
stays charged to the cgroup until its parent waits for it, as `pids.current`
counts zombies. `exists` is the directory, which nobody removes.

### SourceSync

`copy[f]` is a file under `source_copy` with its content and its mtime;
`linked[f]` is its hard link under `include_dirs`. The locations are those of
`sync_file` (`open`, `copy`, `stamp`) and of the loops around it. Versions are
named by their mtimes: each edit gets one of its own, a copy being written
carries a time (`OwnTime`) that equals none. Deletion may happen at any time,
restoring a backup with its old mtime only between runs (within one, a change
forth and back could not be noticed by comparing two mtimes). `during` and
`outcome` are history. Only the sources are modelled; submodules take the same
`sync_dir` and the default includes are derived from the links.

### Builder

* A version of a target stands for the mtimes of all the files it includes; an
  edit gives a new version to the targets that include the file (`IncludedBy`),
  and decides whether it compiles, preprocesses only, or neither. Versions do
  not come back. That a *new* file may shadow an included one is not modelled.
* `info` is `manifest.parts[cxx_cfg].pp_targets` in memory, `manifest` the file,
  possibly torn. Copying the sources is one step (`SourceSync` has the detail);
  it may fail, which ends the run.
* `SelfLook` to `SelfSave` are the loop of lines 364-379 cut where it touches
  the disk; after `SelfSave` the new builder starts at `exec`.
* A worker takes a target (`Take`) and its compiler ends (`Compiled`). The flags
  `built_regular` and `built_test` are one: a `.cpp` has only the first, a
  `.hpp` only the second. `get_pp` in a worker finds what `PickTargets` left
  because the copies do not change under a single builder.
* `ivl::panic` throws, nothing catches, so the `scope_exit` does not run and
  nothing is saved; `return 1` does run it.
* `Die` kills a run anywhere. What was being written may be torn; with
  `"orphan"` in `Fault` the compilers go on (nothing ties them to the builder,
  `process/default.hpp:141`) and may write their output at any later time.
  `Repair` is the user removing a torn manifest or bootstrap binary.
* `spoilt` is history: targets whose binary an orphan wrote, or that somebody
  removed, after the last build. The properties except those targets, which is
  the exact extent to which they can be broken from outside.
* One builder at a time: nothing in the code enforces it.
* Every version of the builder is assumed to behave as the one modelled.

### The components that serve one caller

In these modules an action is a whole call, with its assertions, and the caller
may make any call at any time. Pure helpers have the names of the functions they
translate. A recursive function of the code is a recursive operator, or, in the
modules that theorems are about, a recursive function. Reference definitions (`flatten`, `Within`, `Admitted`, `ValueAt`) are
used only by the properties.

* `SegmentTree`: a node `<<level, index>>` is an element of the array, or of the
  tuple of packed words, of the same level. Marking a node leaves those below it
  stale, in the code and here; in `ChunkUsers`, `StackUse` says whether callers give back in the
  reverse order. The trees differ in two places: chunks added to round up to a
  power of two count as free in the array, and `give` of the packed tree marks
  every node that begins at the place, not the largest only.
* `SmallPtrAllocator`: offsets in bytes; offset 0 is null and holds the tree's
  own words. `segment_tree_deallocate` calls `give` with its arguments in the
  other order (small_ptr_allocator.hpp:184 against segment_tree2.hpp:208), and
  the model stops after the first such call. Blocks are a set of offsets and
  sizes; `grantedTwice` records whether one was handed out again to callers that
  hold it, which the set would not show.
* `SplayTree`: what moves is the ownership of a node from handle to handle, the
  locals of `rotate` included; the parent pointers are to handles. The value's
  `refresh_state` is one that counts the subtree. The loops of `splay` and `insert`
  are functions of the number of rounds: there are never more than nodes, and a
  round past the end changes nothing.
* `ExceptionStack`: one thread as a stack of contexts, try blocks, handlers and
  destructors. The constructor of an exception runs before it counts as
  uncaught, its destructor when the last reference (flight, handler,
  `exception_ptr`) goes. Exceptions in `Foreign` are of other types
  (`std::runtime_error`, `std::bad_alloc`): they count as uncaught and have no handle.
  `Receiver` is the exception a context's line is added to. Once a line is written
  to one that is gone the model stops: what follows is undefined.
* `PollPushPop`: the two labels of `iterate` are its locations; a mask is the set
  of its bits; the rules are those of the header together.
* `LogicalParser`: characters are backslash, newline and any other. The parser
  over it (parsing/make/default.hpp) takes checkpoints at the begin of a line
  (lines 111, 253, 181) and after `override` and white space (181 from 258), so never
  after a backslash. It goes back at the end or in front of a character that is
  no backslash (185-188, 205, 211-213), after a keyword (115, 256), and after
  white space or nothing at all (220, 255), whatever comes next. Only between two
  backslashes it does not, and the guards say no more than that.
* `Turnament`: values and sums are numbers, the caller's `Plus` the maximum and its
  predicates "at least v", so that a sum satisfies a predicate exactly if a part
  does, which `find` relies on. A tree is built from a range and then changed.
* `Compressor`: one program run: lines of two traces, then the steps of `ivl_main`,
  the last three under flags that may be absent. The pointers on
  `parse_replay_text`'s stack are the path they lead along. `pred` is the set of
  handles it refuses, as nodes never change; walking the calls of a node while
  `insert` appends nodes is safe because moving a vector leaves its elements where
  they are. What a diff prints is the handle it prints from. A malformed trace, with
  a `*/` that closes no call, is left out.
* `MonotonicUpdate`: positions count from 1; the hook is that of
  `compare_test.cpp`, which erases what becomes 0. Of the seven versions of the
  join, v2 (in use) and v5 (the recursive one), which is called with two sorted runs
  (`Windows`). A loop is a recursive function of
  the number of rounds, with as many rounds as it can have at most.

## 3. Runs

| run | asks | bounds |
|---|---|---|
| `executor_safety` | types, events, exclusive cgroups, limits, ownership, kills | 3 tasks, 2 at a time, 2 names; crash, failing `clone3` and `ctl_add` |
| `executor_throws` | bookkeeping and refinement of `TaskPool`, when reaping throws too | the same, all faults |
| `executor_destructor` | the destructor reaps every process, or terminates with none running | 3 tasks, 2 at a time, one of them with a limit under a page |
| `executor_liveness` | every launched task is reported, destruction ends, leftovers are marked | 2 tasks, crash |
| `executor_stale` | *violated*: an assertion fails after a reap that threw | `collect` may fail |
| `source_sync` | copies, links, failures of the generator | 2 files, 3 edits, any number of runs, kills, deletions |
| `builder_kill` | flags and success with two targets, two threads | 2 edits of a source or of a shared header, kills |
| `builder_orphans` | flags again, and an up-to-date builder, with compilers that survive | 1 target beside generator and builder, 1 edit |
| `builder_liveness` | runs end; nothing is built twice | 2 targets, 2 threads, 2 edits, binaries removed |
| `components` | one executor per root; no memory shared; trees, graphs, walks, vectors, exceptions and cursors as their properties say | 4 programs; per component below |
| `segment_apart` | *violated*: chunks in use are not handed out | 8 chunks, sizes 1, 2, 4 |
| `builder_removed` | *violated*: outputs exist after a successful run | 1 target, 1 edit |

Why the bounds suffice for the cases of interest:

* Two tasks at once make two slots, and a third task reuses a slot in either
  order of deaths. Two names for two concurrent tasks make every collision
  happen (in reality there are 2^31, so collisions are rare and untested).
  `Tiny` limits read back as 0, the mark of a dead directory:
  `CgroupsAreExclusive`, `RunsInsideItsLimit`, `EventsAreLive` and `KillsOnlyWhenDue`
  hold until a task with a smaller limit is launched, because it breaks them.
  `executor_destructor` has one: when the destructor gets through its slots, nothing
  is left running even then, and up to that launch it does get through, with every
  process waited for. After it, the destructor may meet a slot whose directory is
  gone, and terminate the program with the rest unreaped.
* Two programs race for the root, a third interferes with the count, a fourth
  restarts.
* Two files are what a loop over files needs, one being copied while the other is
  done or yet to come; three edits allow an edit before a run, one during its
  copying and one after the stamp.
* Two targets and two threads interleave compiles; two edits allow a version
  that is built, one that dies half way and one after it. Generator and builder
  are two further targets in every run. With one edit an orphan still compiles
  the old version while later runs build the new one.

* `components` steps only the component it began with, so its state space is the
  union of theirs: 7 chunks, no power of two, in the tree that pads them with free ones
  to 8 and in the one that does not; 4 blocks of four sizes over 56 bytes, where a free list's refill fails for lack of chunks; 20
  bytes for blocks of 3 and 8; trees of 9 and 6 values, deep enough for double
  rotations below the root and for both shapes of a splay step with a
  grandparent; 6 leaves padded to 8; 4 nodes and 4 edges in every order; paths of
  up to 5 of 3 indices; vectors over 3 keys with values that
  cancel, where the bound would let a 0 through that the hook forgot; 3 exceptions,
  one of them no base_exception, in 3 nested scopes (4 scopes, and other divisions
  of the 3, pass too, outside the runs); files of 6 characters, enough for an escaped backslash
  before a continuation and one after it; two traces of up to 3 calls to 2
  functions, whose up to 8 distinct subtrees and filtered copies rotate the tree.
  With 4 calls (2.5 million states) `DiffIsExact` holds too, outside the runs.

The runs use symmetry on tasks and names, and files, where no liveness property
is checked. Deadlock is checked everywhere but in `components`, where a parser or a diff at
the end of its file and a thread with no exception left to throw do stop.

### What the three violations show

`executor_stale`: `terminate_and_reap` takes the task out of the map first and
closes its descriptors last; `collect_cgroup_files` in between may throw. A
caller that catches and calls `wait_for_death` again gets an event of the task
that is gone, and `contract_assert(task_index_to_slot.contains(task_index))`
(task_executor.hpp:270) terminates it. The comment at line 121 says the closes
evict the registrations, which holds only when they are reached.

`builder_removed`: the notes in `ivl/build_system/README.md` (lines 8-9) call a
rule stale when an output file is missing. The code never looks at outputs.

`segment_apart`: of 8 chunks, take 1 (at 0) and 4 (at 4), give the first back,
take 4 (at 0). The last call's descent ends at chunk 4 and rebuilds the nodes
above it from leaves 4 and 5, which still read as free: taking 4-7 had marked only
the node over them. The next take of 1 returns chunk 4 again. `components` checks
that this cannot happen to a caller that gives back in reverse order
(`StackUseIsExact`).

### Fairness

* Executor: the kernel delivers pending kills and expirations; the constructor
  and the destructor go on; `rand()` eventually gives a free name (weak fairness
  on `NameFresh`: with 2^31 names and few directories this holds with
  probability one); the caller keeps calling `wait_for_death` while a task is
  active, as the example does; and epoll's round robin over ready descriptors
  gives each ready task its turn (weak fairness per task of an enabled
  `wait_for_death`). Exits of tasks are not fair: the timer must catch those.
* Builder: weak fairness of `Build` as a whole: a run is not suspended, and a
  compiler ends. Editing is bounded; a user who edited the builder before each
  re-exec for ever would keep it rebuilding.

## 4. Proofs

All theorems hold for every value of the constants that the assumptions named
in the modules admit (finite sets of tasks and files, positive bounds), and for
every set of faults unless a condition is given. Each inductive invariant was
checked by TLC on the instances of section 3 before it was proved.

**`ComponentProofs`, `RootSlice`.** `IInv` adds to the type and to `OneExecutor` that whoever
passed the join is counted (`JoinedAreMembers`). A program that sees one
member is then that member (`AloneMeansOnly`), so no other one has passed.

**`TaskExecutorProofs`.** `TypeInv` adds to `TypeOK` that the locals of a call fit
its location (`LocalsOK`). Relative to it `SlotBookkeeping` is inductive:
injective map, states that carry their index, a stack without duplicates, and
stack and map dividing the slots. `EventsAreLive` follows with it, since an
index leaves the map in the step that reaps it and its registrations leave
with the descriptors; then no `contract_assert` of `wait_for_death` fails
unless reaping throws (`AssertionsHold`), which is the condition that
`executor_stale` shows to be needed. That reaping does not throw of itself while
all limits are of whole pages (`WaitDoesNotThrow`, `ReapDoesNotFail`) comes from `LimitInv`
below: a directory that carries its limit is there. `SlotsAreReused` follows from the
bookkeeping and the caller's bound.

**`TaskExecutorProofs`, cgroups.** Nearly every argument is about the slots that hold a
task, so the actions are first reduced to what they do to those: each step
keeps them but for a set it lets go of (`HoldsExcept`), or is a launch that takes
a free slot (`StepHolds`, `SpawnHolds`; `StackIsReaped` says that what a launch
reuses is free). On that rest, each invariant on those before it:

* `HolderInv`: slots in use and processes match one to one, and a task being
  launched has no process yet.
* `DirectoryInv`: what runs has a directory that exists, since `rmdir` fails on
  an occupied one; a process waited for has its whole cgroup killed first; after
  a crash nothing of the old executor is live, and the constructor's listing has
  what is left of its descendants.
* `LimitInv`, as long as `WholePages`: exclusive cgroups, limits in place,
  and the new directory still unlimited, only together inductive: `rmdir` and
  the dead mark at a name collision hit nobody because a slot's directory reads
  `"limit"`, and it reads that because nobody else has it. This is
  `CgroupsAreExclusive` and `RunsInsideItsLimit`.
* `HomesAreOwn` and `WatchesAreTheirs`: `cgroup.kill` of a slot reaches no live
  process but its own, and a registration is about the task it was made for, as
  indices are never reused. Hence `KillsOnlyWhenDue`.
* `NothingRunsUnowned`, unless the write to `cgroup.kill` fails on a directory that
  exists: it is the one call whose failure leaves a process alive and its slot
  given up. Where the directory is gone, so is what ran in it.
* `LeftoverInv`: during and after construction a directory that is not dead is
  yet to be listed, held by a slot, or being made. Hence `LeftoversAreMarked`.
* `UnreapedIsHeld`, with limits of whole pages: the destructor finds every directory
  (`DestructorFindsDirectories`) and does not terminate the program, and what was
  started and not waited for is in a slot. That no process and no descendant is left
  when it has gone through its slots is `NothingRunsUnowned`, limits under a page
  included. Together: `DestructorReapsAll`.

**`TaskExecutorProofs`, refinement.** `Spec => ImplementsTaskPool`, without conditions. The
mapping takes the tasks in slots for running and the outcomes for reports; a
task that was started and is neither is lost. One lemma
per kind of step: a launch is `Spawn`, a report is the end of a reap in
`wait_for_death` (`ReapIsReport`), an exception of a reap loses the task
(`PoolLoses`), an end of the process ends the pool, and the rest stutter.
`KeptBelowBound` turns the
caller's bound on active tasks into the pool's, as map and slots in use match.

**`SourceSyncProofs`.** `IInv` joins what the properties leave open: times only
grow (`History`), the history of a run contains what is in place
(`DuringIsKept`), what is being copied is what `lwt_start` saw or will be
noticed (`CurIsTracked`), and files already visited have copies of this run
(`DoneIsFromThisRun`). One lemma per action.

**`BuilderProofs`.** `TypeInv` adds to `TypeOK` that versions only grow and that
locals fit the location. On it:

* `FlagInv`: the memory forgets nothing that the file says; a target that is
  being replaced is marked so in memory before its binary is touched and in the
  file only after; what is being compiled is not said to be built; what is said
  to be built is there. `BuiltFlagsAreTrue` follows through kills, torn files and
  compilers that outlive their run, because an orphan can only write what it
  was started for and only over a target it then spoils.
* `WorkIsAccounted`: a requested target that preprocesses is built, queued, being
  compiled or failed; with nothing queued and no failure, `SuccessMeansBuilt`.
* `InstalledInv`: the generator and the builder that either manifest calls built
  are the installed ones, but for the steps in which they are replaced, and the
  installed ones run. `SelfIsCurrent` follows at the compiles.
* `KnownInv`, as long as no run is killed: no binary is newer than the copies,
  and memory knows each that is as new. Then `NothingIsBuiltTwice`. A kill between
  a compile and the save loses that knowledge, so the condition is needed.

**`ComponentProofs`, `BumpUp`.** `BlocksAreBelow` (blocks end before `low`) makes
`BlocksAreApart` inductive. `AlignedIsNext` is the arithmetic: the expression of
bump_up.hpp:58 is the least multiple of the alignment that is not below `low`. An
array that passes the end leaves `low` outside, so no further block fits.
`BufferAssumption` says that sizes and alignments are positive, and TLC evaluates it.

**`ComponentProofs`, `PollPushPop`.** Two facts make `WalkIsExact` inductive. `RulesFit`: the
rules are a function of the call and of the path. What the path has seen has no
holes (`SeenIsFull`), so the entry that `pop` of the SymmetryReducer drops is the
index it takes back, and popping undoes pushing (`PushedFits`, `PoppedFits`).
`VisitedIsRest`: a sequence that leaves the path at some depth with an index
that is left in the mask there is `Ahead`; the admitted sequences divide into
those ahead and those visited, none twice. A push moves one sequence, the new
path, from the first part to the second (`PushKeeps`), a pop moves none
(`PopKeeps`), and a call that has returned has nothing ahead. `WalkAssumption`
says that the bound, the index and the limits are natural numbers, as their
types in the code do.

**`ComponentProofs`, `ExceptionStack`.** `Nested` describes the stack of handles: the scopes
between two destructors are a level (`Level`), the levels but the innermost are
each left by one exception (`OneFliesPerLevel`), an exception stays on the level
it was thrown on and that is its `idx` (`IndexIsLevel`), the handles are those
of the base_exceptions that are referred to (`HandlesAreHeld`), ordered by level,
then by handler, and the flying one last (`HandlesAreNested`). So the last
handle is the flying base_exception's (`TopFlies`), and in a handler at rest it is
the handled one's (`TopIsHandled`), which is what its destructor pops. When an
exception of another type passes, the last handle has its level only if it is
that of a handler on it (`TopIsHere`, `HereFits`); from these `ReceiverIs` says whose
line it is in either case. The invariant holds until a base_exception leaves the
handler of another or one is kept, the two cases that `ContextsReachTheirException`
leaves out.

**`RecursionTheorems`.** The induction theorems of the library take a predicate as
a parameter, which no installed prover can instantiate. Stated with sets they
can be used: a predicate over the natural numbers is the set of numbers that
satisfy it (`SetInduction`, `StrongSetInduction`, both from the minimum of a
well-founded relation). A recursive function is a CHOOSE, so its equation holds
only once some function is shown to satisfy it: `RecursiveFunctionExists` gives
one whenever the body looks only at arguments of lower rank, with the body as a
function on functions. From it come the equations of every recursive function
below, and of `Pow2`. `LoopExists` is the case of a loop: rounds 1 to N, and for each the
set of states it may end in, which each round keeps to. The module also has the arithmetic that the trees share:
quotients (`Quotient`, `Division`, `Halving`), divisibility of powers of two
(`Pow2Divides`) and the largest element of a bounded set (`LargestExists`).

**`SequenceProofs`, the parser.** `ParserInv` says, for both cursors and for those of the
checkpoint, that what is left of the file joins to what is left of the joined
text and does not begin with a continuation (`InStep`), or that both cursors are
between the backslashes of a pair (`InPair`). A checkpoint is always in step. This
holds of a file that does not begin with a continuation, the condition of the
property: `open` skips none. The lemmas are about the joined
text, by induction on its length: the character that `consume` takes is the
first of both, and skipping continuations does not change what the rest joins
to. That a checkpoint does not hold `escaped` does no harm because between two
backslashes none is taken and none gone back to (`NothingInPair`): the guards of
both exclude that place.

**`SequenceProofs`, the update.** `VectorIsSorted` adds the types of the vector and the
changes, which are sorted, to `UpdateIsMapMerge`; the work is in one call, three loops and a join over one vector.

* The order of a merge. `Taken` counts how many of the left run went first;
  within the runs it grows by at most one per round (`TakenGoesOn`). Position k
  of the order is the next of one run (`OrderTurns`), so no position comes twice
  and the order is a permutation (`OrderPermutes`). If both runs ascend and have
  no key in common, what it lists ascends (`OrderAscends`), because in each
  round the lesser head was taken (`TurnsFollow`).
* The cycles. `Placed`: there is a set D of positions that the permutation maps to
  itself, on which the elements are where they belong and what is left of the
  permutation leads nowhere further on; all others are as at the start.
  Following a cycle from i passes over a set W of positions (`Followed`), all but
  the last of them placed and dead, and each round adds one (`CycleGoesOn`,
  `ChaseGoesOn`). So there are no more rounds than elements (`FollowIs`), and as
  the permutation is injective a closed cycle adds W to D (`CycleEnds`). After
  round i of the join, D contains 1..i (`JoinGoesOn`); a position that is skipped
  was in D. After the last round every position is (`JoinFollowsOrder`).
  `JoinIsInOrder` says so for two runs of any length and any place of the border,
  those of its early return included; it is the first half of `JoinsAgree`.
* The join that divides. `Cut` says, without a loop, that t of the first i elements of
  the merge are of the left run: none of either run that is left behind belongs before
  one that was taken. Each round of the merge keeps it (`CutGoesOn`), and of two cuts
  neither has more of one run and less of the other (`CutsAreNested`), so there is
  one for each i and it is what the loop of either join counts (`TakenCuts`). The rest is
  arithmetic on cuts: those of the runs without what is in its place already are
  those of the whole, shifted (`CutsInPlace`); after the rotation, those up to the half
  are cuts of the first half, and those from it on, less what the first half took, of
  the second (`FrontCuts`, `BackCuts`), both of which are two sorted runs again. So the
  merge of the whole is that of its halves (`HalvesInOrder`), each of which is shorter, as
  an element greater than a later one leaves at least two to merge. The merge
  therefore solves the recursion, and it alone does (`DividingJoinIsInOrder`). Keys may
  repeat: the left run's go first. With `JoinIsInOrder`, `JoinsAgree`.
* The merge. `Merged` relates the vector under its cursors to both inputs: in front
  of `last_slot` the kept elements ascend, behind the old end those appended do,
  from `ap` to the old end nothing has changed, an element of either part has the
  sum of both inputs for its key, no key is in both parts, and each key that was
  passed and whose sum is not 0 is in one of them. `left`, `right` and both together
  keep it (`LeftKeepsMerging`, `RightKeepsMerging`, `BothKeepMerging`, over `KeysApart`),
  `left` because `last_slot` never overtakes `ap`. Closing the gap changes none
  of this (`CompactIs`); the rest is appended, and what the join then gets is two
  runs without a common key (`MergedIsTwoRuns`), so that its result is the map
  (`JoinSorts`, `UpdateIs`).

**`TreeProofs`, tournament trees.** `TreeInv`: each inner node is the sum of its children. Both
the constructor and `set` are recursions down the tree in the model
(`SumsExist`, `SumsAreTyped`); that `set` renews enough is `PathIs`: the nodes it
renews are closed under halving, so a node it leaves out has no child it
changed. From the sums, a node satisfies a predicate exactly if one of its
leaves does (`NodeSumsLeaves`, by induction on the level), so the descent ends
at the first or last of them (`DescendFinds`). `SearchNodeIs` is the arithmetic
of turnament.hpp:46-47: the node taken covers exactly the next leaves of the
range, because its size divides its end (`BlockIs`, `TrailingZerosIs`) and the
number of leaves, and is no larger than what is left. `FindAnswers` is the
induction over what is left, and `FindIsExact` follows for every number of
leaves.

**`TreeProofs`, search trees.** `AvlInv`: the root is a tree in which every node is
balanced, knows its depth and is in order, and what it lists is the set. TLC
checks what follows from it, `AvlIsBalancedSet`; `AvlInv` itself speaks of a set of
trees that is too large to enumerate.

* A tree is a nested record. `Trees[h]` are those of up to h levels, by which
  `insert`, `erase`, `steal_first` and `flatten` recur, so each is a recursive
  function on pairs of a number and a tree, and its equations come from
  `RecursiveFunctionExists` (`ListExists`, `DescentExists`, `StealExists`). For that
  every call has to give a tree, also for a tree that is in no order
  (`FixIsTree`). `flatten` does not depend on the level it starts from
  (`ListOfLevel`).
* `AvlTrees`, those in which every node is right, is the union of the sets of
  trees that are closed under taking subtrees and whose members are balanced and
  know their depth: so a property of all nodes is stated without recursion
  (`AvlFields`, `NodeIsAvl`), and such a tree passes `check_invariant` to any depth
  (`AvlChecks`). No such tree has more levels than it says (`DepthIsLevels`), which
  is why the recursion may start from `tree.depth`.
* `FixHolds` is about rebalancing: of a value and two such trees whose depths
  differ by at most two, `fix_invariant` makes one such tree that lists the same in
  the same order, and is as deep as the node was or one less. It covers the four
  rotations, single and double (`TurnedHolds`), and gives that the assertion after
  them does not fail, which in the model would leave nothing of the tree.
* `InsertHolds`, `StealHolds` and `EraseHolds` are inductions on the level. Each says
  what the result lists, and that its depth is that of the tree or one more (one
  less): this is what keeps a parent within the two of `FixHolds` (`LeftRebuilt`,
  `RightRebuilt`). A value that is erased is in one of the subtrees only because the
  tree is in order, so the induction is about search trees; and `steal_first`
  gives the least value, so what replaces an erased root is between both sides.

**`TreeProofs`, splay trees.** `SoundTree`: for some function `u` from handles to sets
of values the heap is a search tree with the values `u[h]` below handle `h`
(`Tree`), and each node's size is the number of those (`Sized`). The function is the
history a proof needs here: the code itself says nowhere what is below a handle.
`SplayStaysConsistent` concludes `SplayIsConsistent` from it, which TLC checks too.

* `rotate_handle` passes nodes through two handles on the stack. `RotateHandleIs`
  follows it move by move, for the handles, nodes and children that take part
  (`SpotsAreApart` says they differ), down to who owns what, which parent pointers
  were repaired and which sizes were refreshed. `RotateKeeps` concludes that the
  values below are those of a rotation (`TurnedBelow`) and the heap is a search tree.
* After an insert, and during its splay, sizes are wrong above the new node:
  `Sized` leaves out a set `W` of nodes, and `Stale` says they are above it. Each
  rotation refreshes the two nodes it turns, lower one first, so what they count
  must not be stale: it is not, as it hangs beside the way up (`ZigRises`,
  `ZigZigRises`, `ZigZagRises`, for each order of rotations in `splay`).
* Above a node there is one chain of ancestors (`AncestorIs`, by induction on how
  many values are below, `DescentReaches`), so what is still stale after a step is
  above where the node is then (`StaleAbove`). `ClimbRises` sums up a round of
  `splay`: the same target, and more values below than before. So the loop ends, and
  at the root nothing is left above it (`StaleAtRoot`, `SplayIs`). For a splay below
  the root nothing was stale to begin with.
* A descent leaves behind it the handles of a way (`WayTo`) on which the value
  belongs, and has fewer values below it each time, so it ends at the value or at an
  empty handle, and then the value is nowhere (`DescentIs`, `VacantIs`). The new
  node goes below just the handles of the way (`GrownTree`, `GrownClimbs`).
* `InOrderIs`: read from left to right, what is below a handle is ascending and
  has as many values as there are in `u[h]`.

That what is in the tree is what was inserted, and that the loops end within as many
rounds as there are nodes, are facts of these lemmas and not part of the property.

**`SegmentTreeProofs`, a tree.** A node keeps only the longest free run of its
chunks and how many are free at its left end, so what the tree knows of a chunk
has to be read off a whole path.

* `FreshIs`: a fresh node counts the chunks below it (`Share`), by induction on
  the level.
* `Sound` is the invariant of a tree: each node but those a take has emptied is
  built from its children (`WellFormed`), and below a node with free chunks at
  its left end nothing was ever taken, all is as in a fresh tree (`Clean`). This
  is why `take` need not look at the nodes below the one it stops at. A take
  leaves each node over the run either as it was or with nothing free at its
  left end (`PathAfterTake`), so it keeps `Sound` (`SoundAfterTake`).
* `FreeChunks` are the chunks with no empty node over them. A run that is handed
  out was free (`RunIsFree`) and is not afterwards (`RunIsTaken`), and no other
  chunk becomes free (`FreeShrinks`).
* To give a run back, the code looks only at the address and the length. Right
  after its take the nodes that begin with the run are those up to the one it
  was taken from, as the parent would otherwise have had room for it on the left
  (`LevelsOfRun`); so the marks go where they were (`MarksRestore`) and the nodes
  above are computed again from the same children (`GiveRestores`), for both
  versions (`GiveIsUndo`, `GiveImplIsUndo`).

`TakeIsExact` sums this up for any number of chunks and either tree.

**`SegmentTreeProofs`, its users.** `UsersInv` says of a caller who gives first what
he took last that some sequence of trees begins with the fresh one, ends with
the present one, and each live run was taken from one and left the next
(`Chronicle`). A give drops the last, since it restores the tree before.
The runs are disjoint because each lay in chunks that are free in its tree and
not in the next, and when none is live the tree is the fresh one:
`StackUseIsExact`. Nothing is proved of other orders, for which the property
does not hold, as `segment_apart` shows.

**`SegmentTreeProofs`, the allocator.** `NothingShared`: blocks, rounded up to the
multiple of four that is taken for them, and the entries of the free lists are
pairwise disjoint, and none has a chunk that the tree calls free; the chunks of
the tree itself are not free (`Reserved`). The first take starts at chunk 0
(`FirstTakeIs`), so the tree that the constructor writes there lies in the run
that was taken for it. Then one lemma per kind of call: a large block is a new run
(`LargeGrant`), a refill cuts a new run into entries (`Refill`), a small block was
an entry (`SmallGrant`) and becomes one again (`SmallGive`); either is apart from all
blocks in use, so none of them is the same. A large block that is
given back ends it, as in the property, since runs then come back in any order.

Only model-checked:

* `ComponentsAreExact` and `DiffIsExact`: each takes an induction over a graph or a
  trace, and their modules declare recursive operators, which the proof system does
  not reach.
* liveness (`LaunchedIsReported`, `DestructorEnds`, `RunEnds`): it rests on
  fairness and on enabledness, which the proof system does not treat.

Locations and kinds whose names
would hold spaces are written with underscores, as the solver's translation
cannot take spaces in a string.

## 5. Plan

Written in this order, the most important behaviour first:

1. `TaskPool`, `TaskExecutor`, `RootSlice` with their proofs (done);
2. `SourceSync` and `Builder` with their proofs (done);
3. the theorems about `TaskExecutor`'s cgroups and its refinement of `TaskPool`
   (done);
4. the components that serve one caller (done, model-checked);
5. proofs about those whose arguments do not rest on recursion: `BumpUp`,
   `ExceptionStack`, `PollPushPop` (done);
6. theorems about recursive functions, and with them `LogicalParser`,
   `Turnament`, `AvlTree`, `SplayTree`, the segment trees, their callers and the allocator over
   them, and `MonotonicUpdate` (done);
7. next candidates for modelling: the process per test of
   `ivl/reflection/test_runner.hpp`, the evaluation of `ivl/langs/tiny`.

## 6. Not modelled

System call wrappers, reflection, formatting, json, the grammars over the parsers'
cursors and the tiny language are pure or generated. In `safe_run.hpp` the child
is cloned into a new pid namespace and then compares `getppid()` with the
parent's pid (line 123): there it is 0, so the child exits before it executes
anything and the caller sees a failed clone. Nothing behind that line can run, so
there is no behaviour to model. `binary_tree.hpp` begins with an `#error`.
`single_element_allocator.hpp` is a template
nothing uses, and it does not compile when instantiated. `remove_if` and the longest common
subsequence of `ivl/uftrace` have no caller. The contest, puzzle and
simulation programs share no state with the rest; vendored code is not this
repository's. Two builders at once, two edits within one tick of the clock, and
include resolution are assumptions of the modules above, named where they are
made.
