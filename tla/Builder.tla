------------------------------- MODULE Builder -------------------------------
(***************************************************************************)
(* bootstrap.sh and the builder (src/ivl/build_system/builder.cpp): a run  *)
(* copies the sources, rebuilds the generator and the builder itself when  *)
(* they are out of date and re-executes, then compiles the requested       *)
(* targets in parallel.  A manifest carries from run to run what is built. *)
(* A run may be killed anywhere, and its compilers may outlive it.         *)
(*                                                                         *)
(* A version of a target stands for the mtimes of all the files it         *)
(* includes; none comes back.  Copying is one step here: module SourceSync *)
(* has it in full.  One builder runs at a time (nothing locks build/), and *)
(* every version of it behaves as this one.                                *)
(***************************************************************************)
EXTENDS Integers, Sequences, FiniteSets

CONSTANTS User,        \* targets a user asks for
          IncludedBy,  \* for each file, the targets that include it
          Threads,     \* worker threads
          MaxEdits,    \* bound on edits, so that versions are finite
          Fault        \* of "die", "orphan" (compilers survive it), "remove"

Generator == "generate_build_sources"
Self == "builder"
SelfTargets == <<Generator, Self>>
Own == {Generator, Self}
Target == User \cup Own

ASSUME UserHasOthers == User \cap Own = {}
ASSUME IncludedByTargets == IncludedBy \subseteq SUBSET Target
ASSUME ThreadsIsPositive == Threads \in Nat \ {0}
ASSUME MaxEditsIsNatural == MaxEdits \in Nat
ASSUME FaultIsKnown == Fault \subseteq {"die", "orphan", "remove"}

VARIABLES
  src,        \* [Target -> version of its sources]
  fate,       \* [version -> what the compiler makes of it]
  now,        \* the next version
  snap,       \* [Target -> version in source_copy and include_dirs]
  manifest,   \* manifest.json
  bootstrap,  \* [Own -> version of the binary in bootstrap_dir]
  artifact,   \* [Target -> version of its binary]
  orphans,    \* compilers whose builder is gone: <<target, version>>
  pc,         \* where the run is
  info,       \* the manifest in memory: [Target -> its pp_info]
  me,         \* version of the running builder
  generator,  \* version of the generator that made snap
  step,       \* next of SelfTargets
  requested,  \* targets on the command line
  todo, busy, \* targets no worker has taken, targets being compiled
  failures,   \* targets that failed
  spoilt      \* targets somebody else touched since they were built (history)

editVars == <<src, fate, now>>
diskVars == <<snap, manifest, bootstrap, artifact, spoilt>>
memVars == <<info, me, generator, step, requested, todo, busy, failures>>
vars == <<editVars, diskVars, orphans, pc, memVars>>

Versions == 0 .. MaxEdits
None == -1
Torn == -2
Exists(binary) == binary # None
Whole(binary) == binary \notin {None, Torn}

NoInfo == [ver |-> None, built |-> FALSE]
Infos == [Target -> [ver : Versions \cup {None}, built : BOOLEAN]]
Empty == [t \in Target |-> NoInfo]
File(m) == [state |-> "file", of |-> m]
NoFile == [state |-> "none", of |-> Empty]
TornFile == [state |-> "torn", of |-> Empty]

-----------------------------------------------------------------------------
(* The user, and what runs beside the builder.                             *)

\* An edit of a file that the targets S include.
Edit(S, x) ==
    /\ now <= MaxEdits
    /\ src' = [t \in Target |-> IF t \in S THEN now ELSE src[t]]
    /\ fate' = [fate EXCEPT ![now] = x]
    /\ now' = now + 1
    /\ UNCHANGED <<diskVars, orphans, pc, memVars>>

RemoveArtifact(t) ==
    /\ pc = "idle"
    /\ "remove" \in Fault
    /\ artifact[t] # None
    /\ artifact' = [artifact EXCEPT ![t] = None]
    /\ spoilt' = spoilt \cup {t}
    /\ UNCHANGED <<editVars, snap, manifest, bootstrap, orphans, pc, memVars>>

\* What a killed run left half written has to be removed by hand.
Repair ==
    /\ pc = "idle"
    /\ manifest' = IF manifest = TornFile THEN NoFile ELSE manifest
    /\ bootstrap' = [s \in Own |-> IF bootstrap[s] = Torn THEN None ELSE bootstrap[s]]
    /\ UNCHANGED <<editVars, snap, artifact, spoilt, orphans, pc, memVars>>

\* It wrote its output, or failed for the sources changed under it.
OrphanEnds(o) ==
    /\ o \in orphans
    /\ orphans' = orphans \ {o}
    /\ \/ /\ artifact' = [artifact EXCEPT ![o[1]] = o[2]]
          /\ spoilt' = spoilt \cup {o[1]}
       \/ UNCHANGED <<artifact, spoilt>>
    /\ UNCHANGED <<editVars, snap, manifest, bootstrap, pc, memVars>>

-----------------------------------------------------------------------------
(* bootstrap.sh.                                                           *)

Goto(where) == pc' = where

\* The process is gone with all it had in memory.
Ends ==
    /\ Goto("idle")
    /\ info' = Empty
    /\ me' = None
    /\ generator' = None
    /\ step' = 1
    /\ requested' = {}
    /\ todo' = {}
    /\ busy' = {}
    /\ failures' = {}

\* set -e, or ivl::panic, an exception nobody catches: nothing is saved.
Fails == Ends /\ UNCHANGED diskVars

Run(T) ==
    /\ pc = "idle"
    /\ requested' = T
    /\ Goto("bootstrap_generator")
    /\ UNCHANGED <<diskVars, info, me, generator, step, todo, busy, failures>>

Compiles(v) == fate[v] = "good"

BootstrapGenerator ==
    /\ pc = "bootstrap_generator"
    /\ \/ /\ Exists(bootstrap[Generator])
          /\ Goto("bootstrap") /\ UNCHANGED <<diskVars, memVars>>
       \/ /\ ~Exists(bootstrap[Generator]) /\ Compiles(src[Generator])
          /\ bootstrap' = [bootstrap EXCEPT ![Generator] = src[Generator]]
          /\ Goto("bootstrap") /\ UNCHANGED <<snap, manifest, artifact, spoilt, memVars>>
       \/ ~Exists(bootstrap[Generator]) /\ ~Compiles(src[Generator]) /\ Fails

\* The generator runs; it fails when disturbed.
Generates(next) ==
    \/ /\ Whole(bootstrap[Generator])
       /\ snap' = src
       /\ generator' = bootstrap[Generator]
       /\ Goto(next)
       /\ UNCHANGED <<manifest, bootstrap, artifact, spoilt, info, me, step, requested, todo,
                      busy, failures>>
    \/ Fails

BootstrapGenerate ==
    /\ pc = "bootstrap"
    /\ IF Exists(bootstrap[Self]) THEN Goto("exec") /\ UNCHANGED <<diskVars, memVars>>
                                  ELSE Generates("bootstrap_builder")

\* builder.cpp is compiled where it is, with the copies of what it includes.
BootstrapBuilder ==
    /\ pc = "bootstrap_builder"
    /\ \E v \in {src[Self], snap[Self]} :
          IF Compiles(v)
            THEN /\ bootstrap' = [bootstrap EXCEPT ![Self] = v]
                 /\ Goto("exec")
                 /\ UNCHANGED <<snap, manifest, artifact, spoilt, memVars>>
            ELSE Fails

-----------------------------------------------------------------------------
(* The builder.                                                            *)

\* main up to the end of loading the manifest; a torn one does not parse.
Load ==
    /\ pc = "exec"
    /\ IF ~Whole(bootstrap[Self]) \/ manifest = TornFile THEN Fails
       ELSE /\ me' = bootstrap[Self]
            /\ info' = manifest.of
            /\ step' = 1
            /\ Goto("generate")
            /\ UNCHANGED <<diskVars, generator, requested, todo, busy, failures>>

Generate == pc = "generate" /\ Generates("self")

\* Faulty: takes what it knows without looking at the mtimes.
is_staleNever(t) == FALSE

is_stale(t) == info[t].ver # snap[t]

\* Faulty: what was built stays built.
PreprocessedBuilt(t) ==
    IF fate[snap[t]] = "no_preprocess" THEN NoInfo ELSE [info[t] EXCEPT !.ver = snap[t]]

Preprocessed(t) ==
    IF fate[snap[t]] = "no_preprocess" THEN NoInfo ELSE [ver |-> snap[t], built |-> FALSE]

\* What get_pp leaves in the manifest; NoInfo when preprocessing fails.
get_pp(t) == IF info[t] # NoInfo /\ ~is_stale(t) THEN info[t] ELSE Preprocessed(t)

Current == SelfTargets[step]

SelfLook ==
    /\ pc = "self"
    /\ step <= Len(SelfTargets)
    /\ IF get_pp(Current) = NoInfo THEN Fails
       ELSE /\ info' = [info EXCEPT ![Current] = get_pp(Current)]
            /\ IF get_pp(Current).built THEN step' = step + 1 /\ UNCHANGED pc
                                        ELSE Goto("self_build") /\ UNCHANGED step
            /\ UNCHANGED <<diskVars, me, generator, requested, todo, busy, failures>>

SelfBuild ==
    /\ pc = "self_build"
    /\ IF ~Compiles(snap[Current]) THEN Fails
       ELSE /\ artifact' = [artifact EXCEPT ![Current] = snap[Current]]
            /\ spoilt' = spoilt \ {Current}
            /\ info' = [info EXCEPT ![Current].built = TRUE]
            /\ Goto("self_remove")
            /\ UNCHANGED <<snap, manifest, bootstrap, me, generator, step, requested, todo,
                           busy, failures>>

SelfRemove ==
    /\ pc = "self_remove"
    /\ bootstrap' = [bootstrap EXCEPT ![Current] = None]
    /\ Goto("self_copy")
    /\ UNCHANGED <<snap, manifest, artifact, spoilt, memVars>>

SelfCopy ==
    /\ pc = "self_copy"
    /\ bootstrap' = [bootstrap EXCEPT ![Current] = artifact[Current]]
    /\ Goto("self_save")
    /\ UNCHANGED <<snap, manifest, artifact, spoilt, memVars>>

\* Faulty: the process goes on or ends without the scope_exit.
SavedNothing == manifest

\* Faulty: saved only when main gets to its end.
SavedOnSuccess == IF failures = {} THEN File(info) ELSE manifest

Saved == File(info)

\* The manifest is saved, then execve of the builder in bootstrap_dir.
SelfSave ==
    /\ pc = "self_save"
    /\ manifest' = Saved
    /\ info' = Empty
    /\ me' = None
    /\ Goto("exec")
    /\ UNCHANGED <<snap, bootstrap, artifact, spoilt, generator, step, requested, todo, busy,
                   failures>>

\* Faulty: whatever was asked for.
PickedAll == {t \in User : get_pp(t) # NoInfo}

\* Targets that do not preprocess are left out.
Picked == {t \in requested : get_pp(t) # NoInfo}

PickTargets ==
    /\ pc = "self"
    /\ step > Len(SelfTargets)
    /\ info' = [t \in Target |-> IF t \in requested THEN get_pp(t) ELSE info[t]]
    /\ todo' = Picked
    /\ Goto("work")
    /\ UNCHANGED <<diskVars, me, generator, step, requested, busy, failures>>

\* An argument that names nothing, or two files of one stem.
PickFails ==
    /\ pc = "self"
    /\ step > Len(SelfTargets)
    /\ Fails

\* A worker takes a target.  get_pp finds what PickTargets left: the copies are the same.
Take(t) ==
    /\ pc = "work"
    /\ t \in todo
    /\ Cardinality(busy) < Threads
    /\ todo' = todo \ {t}
    /\ busy' = IF info[t].built THEN busy ELSE busy \cup {t}
    /\ UNCHANGED <<diskVars, pc, info, me, generator, step, requested, failures>>

\* Faulty: the flag is set whatever the compiler says.
FlaggedAlways(t) == [info EXCEPT ![t].built = TRUE]

Flagged(t) == [info EXCEPT ![t].built = Compiles(snap[t])]

\* The compiler ends; when it fails, an older output may be gone.
Compiled(t) ==
    /\ pc = "work"
    /\ t \in busy
    /\ busy' = busy \ {t}
    /\ info' = Flagged(t)
    /\ \/ /\ Compiles(snap[t])
          /\ artifact' = [artifact EXCEPT ![t] = snap[t]]
          /\ spoilt' = spoilt \ {t}
          /\ UNCHANGED failures
       \/ /\ ~Compiles(snap[t])
          /\ artifact' \in {artifact, [artifact EXCEPT ![t] = None]}
          /\ failures' = failures \cup {t}
          /\ UNCHANGED spoilt
    /\ UNCHANGED <<snap, manifest, bootstrap, pc, me, generator, step, requested, todo>>

\* The workers are joined.
Join ==
    /\ pc = "work"
    /\ todo = {} /\ busy = {}
    /\ Goto("save")
    /\ UNCHANGED <<diskVars, memVars>>

\* main returns; the scope_exit saves the manifest, after failures too.
Save ==
    /\ pc = "save"
    /\ manifest' = Saved
    /\ Ends
    /\ UNCHANGED <<snap, bootstrap, artifact, spoilt>>

Compiling == IF pc = "self_build" THEN {Current} ELSE busy

\* f, or what is left of it when the members of S are being written.
MaybeTorn(f, S) == {[x \in DOMAIN f |-> IF x \in T THEN Torn ELSE f[x]] : T \in SUBSET S}

\* Bootstrapped and copied binaries are written in place.
BeingInstalled ==
    CASE pc = "self_copy" -> {Current}
      [] pc = "bootstrap_generator" -> {Generator} \ {s \in Own : Exists(bootstrap[s])}
      [] pc = "bootstrap_builder" -> {Self}
      [] OTHER -> {}

\* Killed, alone or with its compilers, with half of what it was writing.  A system
\* call that fails in a worker terminates all the same.
Die ==
    /\ pc # "idle"
    /\ "die" \in Fault
    /\ manifest' \in {manifest} \cup (IF pc \in {"self_save", "save"} THEN {TornFile} ELSE {})
    /\ bootstrap' \in MaybeTorn(bootstrap, BeingInstalled)
    /\ \/ artifact' \in MaybeTorn(artifact, Compiling) /\ UNCHANGED orphans
       \/ /\ "orphan" \in Fault
          /\ orphans' = orphans \cup
                 {<<t, snap[t]>> : t \in {u \in Compiling : Compiles(snap[u])}}
          /\ UNCHANGED artifact
    /\ Ends
    /\ UNCHANGED <<editVars, snap, spoilt>>

-----------------------------------------------------------------------------
Init ==
    /\ src = [t \in Target |-> 0]
    /\ fate = [v \in Versions |-> "good"]
    /\ now = 1
    /\ snap = [t \in Target |-> None]
    /\ manifest = NoFile
    /\ bootstrap = [s \in Own |-> None]
    /\ artifact = [t \in Target |-> None]
    /\ orphans = {}
    /\ spoilt = {}
    /\ pc = "idle"
    /\ info = Empty
    /\ me = None
    /\ generator = None
    /\ step = 1
    /\ requested = {}
    /\ todo = {}
    /\ busy = {}
    /\ failures = {}

Beside ==
    \/ \E S \in IncludedBy, x \in {"good", "no_preprocess", "no_compile"} : Edit(S, x)
    \/ \E t \in Target : RemoveArtifact(t)
    \/ Repair
    \/ \E o \in orphans : OrphanEnds(o)

\* One run, but for its start and its death.
Build ==
    /\ \/ BootstrapGenerator \/ BootstrapGenerate \/ BootstrapBuilder
       \/ Load \/ Generate
       \/ SelfLook \/ SelfBuild \/ SelfRemove \/ SelfCopy \/ SelfSave
       \/ PickTargets \/ PickFails
       \/ \E t \in User : Take(t) \/ Compiled(t)
       \/ Join \/ Save
    /\ UNCHANGED <<editVars, orphans>>

Next ==
    \/ Beside
    \/ \E T \in SUBSET User : Run(T) /\ UNCHANGED <<editVars, orphans>>
    \/ Build
    \/ Die

Spec == Init /\ [][Next]_vars

\* A run is not suspended, and compilers end.
FairSpec == Spec /\ WF_vars(Build)

-----------------------------------------------------------------------------
(* Properties.                                                             *)

\* Every variable has its type.
TypeOK ==
    /\ src \in [Target -> Versions]
    /\ fate \in [Versions -> {"good", "no_preprocess", "no_compile"}]
    /\ now \in 1 .. MaxEdits + 1
    /\ snap \in [Target -> Versions \cup {None}]
    /\ manifest \in {NoFile, TornFile} \cup [state : {"file"}, of : Infos]
    /\ bootstrap \in [Own -> Versions \cup {None, Torn}]
    /\ artifact \in [Target -> Versions \cup {None, Torn}]
    /\ orphans \subseteq Target \X Versions
    /\ spoilt \subseteq Target
    /\ pc \in {"idle", "bootstrap_generator", "bootstrap", "bootstrap_builder", "exec",
               "generate", "self", "self_build", "self_remove", "self_copy", "self_save",
               "work", "save"}
    /\ info \in Infos
    /\ me \in Versions \cup {None}
    /\ generator \in Versions \cup {None}
    /\ step \in 1 .. Len(SelfTargets) + 1
    /\ requested \subseteq User
    /\ todo \subseteq requested
    /\ busy \subseteq requested
    /\ failures \subseteq requested

\* m says of no target that it is built when its binary is another one, unless its
\* sources changed since, which the next look at m finds out.
FlagsAreTrue(m) ==
    \A t \in Target : m[t].built => \/ artifact[t] = m[t].ver
                                    \/ m[t].ver < snap[t]
                                    \/ t \in spoilt

\* build_regular skips what is flagged as built.  Whatever was killed, failed or edited
\* in between, on disk and in memory the flag means that the binary is there.
BuiltFlagsAreTrue == FlagsAreTrue(manifest.of) /\ FlagsAreTrue(info)

\* A run that ends without failed targets leaves a binary of the copied sources for
\* every requested target that preprocesses, compiled in this run or an earlier one.
SuccessMeansBuilt ==
    pc = "save" /\ failures = {} =>
        \A t \in requested : \/ fate[snap[t]] = "no_preprocess"
                             \/ artifact[t] = snap[t]
                             \/ t \in spoilt

\* Targets are compiled by the builder, from copies made by the generator, of the very
\* sources that are being built: re-executing has brought both up to date.
SelfIsCurrent ==
    pc \in {"work", "save"} => /\ me = snap[Self] \/ Self \in spoilt
                               /\ generator = snap[Generator] \/ Generator \in spoilt

\* "a rule is stale ... if an output file is missing" (README.md of build_system): a
\* run without failures leaves no requested target without a binary.
OutputsExist ==
    pc = "save" /\ failures = {} =>
        \A t \in requested : fate[snap[t]] = "no_preprocess" \/ Exists(artifact[t])

\* As long as no run is killed, nothing is compiled when its binary is there: failed
\* siblings, panics and re-executions lose no flag.
NothingIsBuiltTwice == [][\A t \in busy' \ busy : artifact[t] # snap[t]]_vars

\* Every run ends: re-executing stops when the builder has built itself.
RunEnds == pc # "idle" ~> pc = "idle"
=============================================================================
