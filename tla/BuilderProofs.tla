----------------------------- MODULE BuilderProofs -----------------------------
(***************************************************************************)
(* For any targets, headers, threads, edits and kills: what the manifest   *)
(* says is built is built, a run without failures has built what was asked *)
(* for, it did so with a builder and a generator of the current sources,   *)
(* and as long as no run is killed it compiled nothing twice.              *)
(***************************************************************************)
EXTENDS Builder, TLAPS

\* The manifest m says of t that its binary is of the sources just copied.
Says(m, t) == m[t].built /\ m[t].ver = snap[t]

Replacing == {"self_build", "self_remove", "self_copy", "self_save"}
Generated == {"self", "work", "save"} \cup Replacing
Loaded == {"generate"} \cup Generated

\* Time only goes forward: the sources are no older than their copies, and the
\* copies no older than what either manifest has seen.
VersionsGrow ==
    \A t \in Target : /\ src[t] < now
                      /\ snap[t] <= src[t]
                      /\ manifest.of[t].ver <= snap[t]
                      /\ info[t].ver <= snap[t]

\* What each location may rely on, set up where the run got there from.
LocalsOK ==
    /\ pc \in Generated => \A t \in Target : snap[t] # None
    /\ pc \in Replacing => step <= Len(SelfTargets)
    /\ pc = "bootstrap_builder" => bootstrap[Self] = None
    /\ pc \notin Loaded => info = Empty
    /\ pc # "work" => todo = {} /\ busy = {}
    /\ pc \notin {"work", "save"} => failures = {}

TypeInv == TypeOK /\ VersionsGrow /\ LocalsOK

\* Memory forgets nothing the manifest file says.
FileIsKnown == pc \in Loaded => \A t \in Target : Says(manifest.of, t) => Says(info, t)

\* A target being replaced is known to be of the copied sources, and said to be built
\* by memory as soon as it is, by the file not before the end.
ReplacedIsMarked ==
    pc \in Replacing => /\ info[Current].ver = snap[Current]
                        /\ info[Current].built = (pc # "self_build")
                        /\ ~Says(manifest.of, Current)

\* What the workers have before them is of the copied sources, and what they are
\* compiling is not said to be built.
WorkIsUnbuilt ==
    /\ \A t \in todo \cup busy : info[t].ver = snap[t]
    /\ \A t \in busy : ~info[t].built

\* Nothing is said to be built of no sources.
FlagsHaveVersions ==
    \A t \in Target : /\ info[t].built => info[t].ver # None
                      /\ manifest.of[t].built => manifest.of[t].ver # None

\* What is said to be built is there.
There(t) == artifact[t] = snap[t] \/ t \in spoilt
SaidIsThere == \A t \in Target : Says(manifest.of, t) \/ Says(info, t) => There(t)

FlagInv ==
    FileIsKnown /\ ReplacedIsMarked /\ WorkIsUnbuilt /\ FlagsHaveVersions /\ SaidIsThere

\* A requested target that preprocesses is in one of four places.
WorkIsAccounted ==
    pc \in {"work", "save"} =>
        \A t \in requested : \/ fate[snap[t]] = "no_preprocess"
                             \/ Says(info, t)
                             \/ t \in todo \cup busy \cup failures

\* The generator and the builder that the manifests call built are the installed ones,
\* but for the moment in which they are replaced.
Installed(s) == bootstrap[s] = snap[s] \/ s \in spoilt
FileInstalled == \A s \in Own : Says(manifest.of, s) => Installed(s)
MemoryInstalled ==
    pc \in Loaded => \A s \in Own :
        Says(info, s) => Installed(s) \/ (pc \in {"self_remove", "self_copy"} /\ s = Current)

\* The installed ones are those that run, and are up to date once main is past them.
RunsInstalled ==
    /\ pc \in {"generate", "self", "self_build", "work", "save"} => me = bootstrap[Self]
    /\ pc \in {"self", "self_build", "work", "save"} => generator = bootstrap[Generator]
SelfIsBuilt ==
    /\ pc = "generate" => step = 1
    /\ pc = "self" => \A k \in 1 .. step - 1 : Says(info, SelfTargets[k])
    /\ pc \in {"work", "save"} => \A s \in Own : Says(info, s)

InstalledInv == FileInstalled /\ MemoryInstalled /\ RunsInstalled /\ SelfIsBuilt

\* A binary of the copied sources is there.
Here(t) == snap[t] # None /\ artifact[t] = snap[t]

\* No binary is newer than the copies, and without kills there is none of the copies
\* that memory does not know of; the file knows it too unless one was just compiled.
BinariesAreOld == orphans = {} /\ \A t \in Target : artifact[t] <= snap[t]
MemoryHas == pc \in Loaded => \A t \in Target : Here(t) => Says(info, t)
FileHas ==
    pc \notin {"self_remove", "self_copy", "self_save", "work", "save"} =>
        \A t \in Target : Here(t) => Says(manifest.of, t)

KnownInv == BinariesAreOld /\ MemoryHas /\ FileHas

-----------------------------------------------------------------------------
(* What manifests are made of.                                             *)

\* Every form of the manifest file has entries.
LEMMA ManifestType == TypeOK => manifest.of \in Infos /\ Empty \in Infos
<1> SUFFICES ASSUME TypeOK PROVE manifest.of \in Infos /\ Empty \in Infos
    OBVIOUS
<1>1. Empty \in Infos
    BY DEF Empty, NoInfo, Infos
<1>2. manifest = NoFile \/ manifest = TornFile \/ manifest \in [state : {"file"}, of : Infos]
    BY DEF TypeOK
<1>3. CASE manifest = NoFile \/ manifest = TornFile
    BY <1>1, <1>3 DEF NoFile, TornFile
<1>4. CASE manifest \in [state : {"file"}, of : Infos]
    BY <1>1, <1>4
<1> QED BY <1>2, <1>3, <1>4

\* An entry has a version and a flag.
LEMMA InfoType ==
    ASSUME NEW m \in Infos, NEW t \in Target
    PROVE  m[t] \in [ver : Versions \cup {None}, built : BOOLEAN]
    BY DEF Infos

\* get_pp returns an entry of the copied sources, unless it fails; an entry that said
\* so is the one returned.
LEMMA GetPP ==
    ASSUME TypeOK, NEW t \in Target
    PROVE  /\ get_pp(t) \in [ver : Versions \cup {None}, built : BOOLEAN]
           /\ get_pp(t) # NoInfo => get_pp(t).ver = snap[t]
           /\ Says(info, t) /\ snap[t] # None => get_pp(t) = info[t]
           /\ get_pp(t).built => get_pp(t) = info[t] /\ info[t].ver = snap[t]
           /\ get_pp(t) = NoInfo /\ snap[t] # None => fate[snap[t]] = "no_preprocess"
<1>1. info[t] \in [ver : Versions \cup {None}, built : BOOLEAN] /\ snap[t] \in Versions \cup {None}
    BY DEF TypeOK, Infos
<1>2. NoInfo \in [ver : Versions \cup {None}, built : BOOLEAN]
    BY DEF NoInfo
<1>3. CASE info[t] # NoInfo /\ info[t].ver = snap[t]
    BY <1>1, <1>3 DEF get_pp, is_stale, Says, NoInfo
<1>4. CASE info[t] = NoInfo \/ info[t].ver # snap[t]
  <2>1. get_pp(t) = IF fate[snap[t]] = "no_preprocess" THEN NoInfo
                                                       ELSE [ver |-> snap[t], built |-> FALSE]
      BY <1>4 DEF get_pp, is_stale, Preprocessed
  <2>2. ~Says(info, t) \/ snap[t] = None
      BY <1>4 DEF Says, NoInfo
  <2>3. CASE fate[snap[t]] = "no_preprocess"
      BY <1>2, <2>1, <2>2, <2>3 DEF NoInfo
  <2>4. CASE fate[snap[t]] # "no_preprocess"
    <3>1. get_pp(t) = [ver |-> snap[t], built |-> FALSE]
        BY <2>1, <2>4
    <3>2. /\ get_pp(t) \in [ver : Versions \cup {None}, built : BOOLEAN]
          /\ get_pp(t).ver = snap[t]
          /\ get_pp(t).built = FALSE
        BY <1>1, <3>1
    <3>3. NoInfo.ver = None
        BY DEF NoInfo
    <3> QED BY <2>2, <3>2, <3>3
  <2> QED BY <2>3, <2>4
<1> QED BY <1>1, <1>3, <1>4

\* Versions are numbers, and None is below them.
LEMMA VersionType ==
    ASSUME NEW v \in Versions \cup {None}
    PROVE  v \in Int /\ None <= v /\ (v # None => v \in Versions)
    BY MaxEditsIsNatural DEF Versions, None

\* So are those of the sources and their copies.
LEMMA SnapType ==
    ASSUME TypeOK, NEW t \in Target
    PROVE  /\ snap[t] \in Versions \cup {None} /\ None <= snap[t] /\ snap[t] \in Int
           /\ src[t] \in Versions /\ src[t] \in Int
<1>1. snap[t] \in Versions \cup {None} /\ src[t] \in Versions
    BY DEF TypeOK
<1> QED BY <1>1, VersionType

\* The target that main is looking at, before it is past the last one.
LEMMA CurrentType ==
    ASSUME TypeOK, step <= Len(SelfTargets)
    PROVE  Current \in Own /\ Own \subseteq Target /\ step \in 1 .. 2
<1>1. step \in 1 .. 2
  <2>1. Len(SelfTargets) = 2
      BY DEF SelfTargets
  <2>2. step \in 1 .. Len(SelfTargets) + 1
      BY DEF TypeOK
  <2> QED BY <2>1, <2>2
<1>2. SelfTargets[1] \in Own /\ SelfTargets[2] \in Own
    BY DEF SelfTargets, Own
<1> QED BY <1>1, <1>2 DEF Current, Target

-----------------------------------------------------------------------------
(* Type correctness.                                                       *)

\* However a run ends, if what it leaves on the disk is of the right kind.
LEMMA EndsType ==
    ASSUME TypeInv, Ends, UNCHANGED <<src, fate, now, snap>>,
           manifest' \in {manifest, TornFile, File(info)},
           bootstrap' \in [Own -> Versions \cup {None, Torn}],
           artifact' \in [Target -> Versions \cup {None, Torn}],
           orphans' \subseteq Target \X Versions,
           spoilt' \subseteq Target
    PROVE  TypeInv'
<1>1. pc' = "idle" /\ info' = Empty /\ todo' = {} /\ busy' = {} /\ failures' = {}
    BY DEF Ends, Goto
<1>2. Empty \in Infos /\ info \in Infos
    BY ManifestType DEF TypeInv, TypeOK
<1>3. TypeOK'
  <2>1. manifest' \in {NoFile, TornFile} \cup [state : {"file"}, of : Infos]
    <3>1. CASE manifest' = File(info)
        BY <1>2, <3>1 DEF File
    <3>2. CASE manifest' # File(info)
        BY <3>2 DEF TypeInv, TypeOK
    <3> QED BY <3>1, <3>2
  <2>2. step' \in 1 .. Len(SelfTargets) + 1
      BY DEF Ends, SelfTargets
  <2> QED BY <1>1, <1>2, <2>1, <2>2 DEF TypeInv, TypeOK, Ends
<1>4. VersionsGrow'
  <2> SUFFICES ASSUME NEW t \in Target
               PROVE  /\ src[t] < now /\ snap[t] <= src[t]
                      /\ manifest'.of[t].ver <= snap[t] /\ None <= snap[t]
      BY <1>1 DEF VersionsGrow, Empty, NoInfo
  <2>1. snap[t] \in Versions \cup {None} /\ None <= snap[t]
      BY SnapType DEF TypeInv
  <2>2. CASE manifest' = manifest
      BY <2>1, <2>2 DEF TypeInv, VersionsGrow
  <2>3. CASE manifest' = TornFile
      BY <2>1, <2>3 DEF TypeInv, VersionsGrow, TornFile, Empty, NoInfo
  <2>4. CASE manifest' = File(info)
      BY <2>1, <2>4 DEF TypeInv, VersionsGrow, File
  <2> QED BY <2>2, <2>3, <2>4
<1> QED BY <1>1, <1>3, <1>4 DEF TypeInv, LocalsOK, Generated, Replacing, Loaded

\* A run that panics.
LEMMA FailsType ==
    ASSUME TypeInv, Fails, UNCHANGED <<editVars, orphans>>
    PROVE  TypeInv'
<1>1. /\ Ends /\ UNCHANGED <<src, fate, now, snap>> /\ manifest' = manifest
      /\ UNCHANGED <<bootstrap, artifact, orphans, spoilt>>
    BY DEF Fails, editVars, diskVars
<1>2. /\ bootstrap \in [Own -> Versions \cup {None, Torn}]
      /\ artifact \in [Target -> Versions \cup {None, Torn}]
      /\ orphans \subseteq Target \X Versions
      /\ spoilt \subseteq Target
    BY DEF TypeInv, TypeOK
<1> QED BY <1>1, <1>2, EndsType

\* Edits, removals, repairs and compilers without a builder.
LEMMA BesideType == TypeInv /\ Beside => TypeInv'
<1> SUFFICES ASSUME TypeInv, Beside PROVE TypeInv'
    OBVIOUS
<1>1. ASSUME NEW S \in IncludedBy, NEW x \in {"good", "no_preprocess", "no_compile"}, Edit(S, x)
      PROVE  TypeInv'
  <2>1. now \in Versions /\ now \in Int /\ now + 1 \in 1 .. MaxEdits + 1
    <3>1. now \in 1 .. MaxEdits + 1
        BY DEF TypeInv, TypeOK
    <3>2. now <= MaxEdits
        BY <1>1 DEF Edit
    <3> QED BY <3>1, <3>2, MaxEditsIsNatural DEF Versions
  <2>2. /\ src' \in [Target -> Versions]
        /\ fate' \in [Versions -> {"good", "no_preprocess", "no_compile"}]
        /\ now' \in 1 .. MaxEdits + 1
    <3>1. src' \in [Target -> Versions]
        BY <1>1, <2>1 DEF Edit, TypeInv, TypeOK
    <3>2. fate' \in [Versions -> {"good", "no_preprocess", "no_compile"}]
        BY <1>1, <2>1 DEF Edit, TypeInv, TypeOK
    <3>3. now' \in 1 .. MaxEdits + 1
        BY <1>1, <2>1 DEF Edit
    <3> QED BY <3>1, <3>2, <3>3
  <2>3. UNCHANGED <<diskVars, orphans, pc, memVars>>
      BY <1>1 DEF Edit
  <2>4. VersionsGrow'
    <3> SUFFICES ASSUME NEW t \in Target PROVE src'[t] < now' /\ snap[t] <= src'[t]
        BY <2>3 DEF TypeInv, VersionsGrow, diskVars, memVars
    <3>1. src[t] < now /\ snap[t] <= src[t] /\ src[t] \in Int /\ snap[t] \in Int
        BY SnapType DEF TypeInv, VersionsGrow
    <3>2. src'[t] \in {now, src[t]} /\ now' = now + 1
        BY <1>1 DEF Edit
    <3> QED BY <2>1, <3>1, <3>2
  <2> QED BY <2>2, <2>3, <2>4 DEF TypeInv, TypeOK, LocalsOK, Current, diskVars, memVars
<1>2. ASSUME NEW t \in Target, RemoveArtifact(t) PROVE TypeInv'
  <2>1. /\ artifact' \in [Target -> Versions \cup {None, Torn}]
        /\ spoilt' \subseteq Target
      BY <1>2 DEF RemoveArtifact, TypeInv, TypeOK
  <2> QED BY <1>2, <2>1 DEF RemoveArtifact, TypeInv, TypeOK, LocalsOK, VersionsGrow,
                            editVars, memVars
<1>3. CASE Repair
  <2>1. /\ bootstrap' \in [Own -> Versions \cup {None, Torn}]
        /\ manifest' \in {NoFile, TornFile} \cup [state : {"file"}, of : Infos]
        /\ manifest'.of = manifest.of
    <3>1. bootstrap' \in [Own -> Versions \cup {None, Torn}]
        BY <1>3 DEF Repair, TypeInv, TypeOK
    <3>2. manifest' \in {NoFile, manifest}
        BY <1>3 DEF Repair
    <3>3. manifest'.of = manifest.of
        BY <1>3 DEF Repair, NoFile, TornFile
    <3> QED BY <3>1, <3>2, <3>3 DEF TypeInv, TypeOK
  <2> QED BY <1>3, <2>1 DEF Repair, TypeInv, TypeOK, LocalsOK, VersionsGrow, editVars, memVars
<1>4. ASSUME NEW o \in orphans, OrphanEnds(o) PROVE TypeInv'
  <2>1. o[1] \in Target /\ o[2] \in Versions
      BY DEF TypeInv, TypeOK
  <2>2. /\ artifact' \in [Target -> Versions \cup {None, Torn}]
        /\ spoilt' \subseteq Target
        /\ orphans' \subseteq orphans
      BY <1>4, <2>1 DEF OrphanEnds, TypeInv, TypeOK
  <2>3. UNCHANGED <<editVars, snap, manifest, bootstrap, pc, memVars>>
      BY <1>4 DEF OrphanEnds
  <2> QED BY <2>2, <2>3 DEF TypeInv, TypeOK, LocalsOK, VersionsGrow, editVars, memVars
<1> QED BY <1>1, <1>2, <1>3, <1>4 DEF Beside

\* The generator makes new copies, from bootstrap.sh as from the builder.
LEMMA GeneratesType ==
    ASSUME TypeInv, UNCHANGED <<editVars, orphans>>,
           \/ pc = "bootstrap" /\ bootstrap[Self] = None /\ Generates("bootstrap_builder")
           \/ pc = "generate" /\ Generates("self")
    PROVE  TypeInv'
<1>1. CASE Fails
    BY <1>1, FailsType
<1>2. CASE ~Fails
  <2>1. /\ Whole(bootstrap[Generator]) /\ snap' = src /\ generator' = bootstrap[Generator]
        /\ UNCHANGED <<manifest, bootstrap, artifact, spoilt, info, me, step, requested, todo,
                       busy, failures>>
        /\ \/ pc = "bootstrap" /\ bootstrap[Self] = None /\ pc' = "bootstrap_builder"
           \/ pc = "generate" /\ pc' = "self"
      BY <1>2 DEF Generates, Goto
  <2>2. UNCHANGED <<src, fate, now, orphans>>
      BY DEF editVars
  <2>3. generator' \in Versions \cup {None}
      BY <2>1 DEF TypeInv, TypeOK, Whole, Own
  <2>4. TypeOK'
      BY <2>1, <2>2, <2>3 DEF TypeInv, TypeOK
  <2>5. VersionsGrow'
    <3> SUFFICES ASSUME NEW t \in Target
                 PROVE  src[t] < now /\ manifest.of[t].ver <= src[t] /\ info[t].ver <= src[t]
                        /\ src[t] <= src[t]
        BY <2>1, <2>2 DEF VersionsGrow
    <3>1. info[t].ver \in Int /\ manifest.of[t].ver \in Int
        BY ManifestType, InfoType, VersionType DEF TypeInv, TypeOK
    <3> QED BY <3>1, SnapType DEF TypeInv, VersionsGrow
  <2>6. \A t \in Target : snap'[t] # None
      BY <2>1, MaxEditsIsNatural DEF TypeInv, TypeOK, Versions, None
  <2> QED BY <2>1, <2>4, <2>5, <2>6 DEF TypeInv, LocalsOK, Generated, Replacing, Loaded
<1> QED BY <1>1, <1>2

\* The start of a run, and the rest of bootstrap.sh.
LEMMA BootstrapType ==
    ASSUME TypeInv, UNCHANGED <<editVars, orphans>>,
           \/ \E T \in SUBSET User : Run(T)
           \/ BootstrapGenerator \/ BootstrapGenerate \/ BootstrapBuilder
    PROVE  TypeInv'
<1>1. CASE Fails
    BY <1>1, FailsType
<1>2. ASSUME NEW T \in SUBSET User, Run(T) PROVE TypeInv'
  <2>1. pc' = "bootstrap_generator" /\ requested' = T /\ pc = "idle"
      BY <1>2 DEF Run, Goto
  <2>2. UNCHANGED <<editVars, orphans, diskVars, info, me, generator, step, todo, busy, failures>>
      BY <1>2 DEF Run
  <2>3. todo = {} /\ busy = {} /\ failures = {}
      BY <2>1 DEF TypeInv, LocalsOK
  <2> QED BY <2>1, <2>2, <2>3 DEF TypeInv, TypeOK, VersionsGrow, LocalsOK, editVars, diskVars,
                             Generated, Replacing, Loaded
<1>3. CASE ~Fails /\ (BootstrapGenerator \/ BootstrapBuilder \/ BootstrapGenerate)
  <2>1. CASE BootstrapGenerate /\ ~Exists(bootstrap[Self])
      BY <2>1, GeneratesType DEF BootstrapGenerate, Exists
  <2>2. CASE \/ BootstrapGenerator \/ BootstrapBuilder
             \/ BootstrapGenerate /\ Exists(bootstrap[Self])
    <3>1. /\ UNCHANGED <<editVars, orphans, snap, manifest, artifact, spoilt, memVars>>
          /\ pc' \in {"bootstrap", "exec"}
          /\ pc \in {"bootstrap_generator", "bootstrap", "bootstrap_builder"}
        BY <1>3, <2>2 DEF BootstrapGenerator, BootstrapBuilder, BootstrapGenerate, Goto, diskVars
    <3>2. bootstrap' \in [Own -> Versions \cup {None, Torn}]
      <4>1. src[Generator] \in Versions /\ src[Self] \in Versions
            /\ snap[Self] \in Versions \cup {None}
          BY DEF TypeInv, TypeOK, Target, Own
      <4> QED BY <1>3, <2>2, <4>1 DEF BootstrapGenerator, BootstrapBuilder, BootstrapGenerate,
                                     TypeInv, TypeOK, diskVars
    <3> QED BY <3>1, <3>2 DEF TypeInv, TypeOK, VersionsGrow, LocalsOK, editVars, memVars,
                              Generated, Replacing, Loaded
  <2> QED BY <1>3, <2>1, <2>2
<1> QED BY <1>1, <1>2, <1>3

\* The manifest is loaded.
LEMMA LoadType ==
    ASSUME TypeInv, UNCHANGED <<editVars, orphans>>, Load
    PROVE  TypeInv'
<1>1. CASE Fails
    BY <1>1, FailsType
<1>2. CASE ~Fails
  <2>1. /\ Whole(bootstrap[Self]) /\ me' = bootstrap[Self] /\ info' = manifest.of
        /\ step' = 1 /\ pc' = "generate" /\ pc = "exec"
        /\ UNCHANGED <<diskVars, generator, requested, todo, busy, failures>>
      BY <1>2 DEF Load, Goto
  <2>2. me' \in Versions \cup {None}
      BY <2>1 DEF TypeInv, TypeOK, Whole, Own
  <2>3. info' \in Infos /\ step' \in 1 .. Len(SelfTargets) + 1
      BY <2>1, ManifestType DEF TypeInv, SelfTargets
  <2>4. TypeOK'
      BY <2>1, <2>2, <2>3 DEF TypeInv, TypeOK, editVars, diskVars
  <2>5. VersionsGrow'
      BY <2>1 DEF TypeInv, VersionsGrow, editVars, diskVars
  <2> QED BY <2>1, <2>4, <2>5 DEF TypeInv, LocalsOK, Generated, Replacing, Loaded
<1> QED BY <1>1, <1>2

\* Entries replaced by what get_pp returns are of the right kind, and no newer than
\* the copies.
LEMMA LookedUpType ==
    ASSUME TypeInv, NEW t \in Target
    PROVE  /\ get_pp(t) \in [ver : Versions \cup {None}, built : BOOLEAN]
           /\ get_pp(t).ver <= snap[t]
<1>1. get_pp(t).ver \in {snap[t], None}
    BY GetPP DEF TypeInv, NoInfo
<1>2. snap[t] \in Int /\ None <= snap[t]
    BY SnapType DEF TypeInv
<1> QED BY <1>1, <1>2, GetPP DEF TypeInv

\* The generator and the builder are brought up to date.
LEMMA SelfType ==
    ASSUME TypeInv, UNCHANGED <<editVars, orphans>>,
           SelfLook \/ SelfBuild \/ SelfRemove \/ SelfCopy \/ SelfSave
    PROVE  TypeInv'
<1>1. CASE Fails
    BY <1>1, FailsType
<1>2. CASE ~Fails /\ SelfLook
  <2>1. /\ pc = "self" /\ step <= Len(SelfTargets)
        /\ info' = [info EXCEPT ![Current] = get_pp(Current)]
        /\ \/ step' = step + 1 /\ pc' = "self"
           \/ step' = step /\ pc' = "self_build"
        /\ UNCHANGED <<diskVars, me, generator, requested, todo, busy, failures>>
      BY <1>2 DEF SelfLook, Goto
  <2>2. Current \in Target /\ step \in 1 .. 2
      BY <2>1, CurrentType DEF TypeInv
  <2>3. info' \in Infos
      BY <2>1, <2>2, LookedUpType DEF TypeInv, TypeOK, Infos
  <2>4. step' \in 1 .. Len(SelfTargets) + 1
      BY <2>1, <2>2 DEF SelfTargets
  <2>5. TypeOK'
      BY <2>1, <2>3, <2>4 DEF TypeInv, TypeOK, editVars, diskVars
  <2>6. \A t \in Target : info'[t].ver <= snap[t]
      BY <2>1, <2>2, LookedUpType DEF TypeInv, TypeOK, VersionsGrow, Infos
  <2>7. VersionsGrow'
      BY <2>1, <2>6 DEF TypeInv, VersionsGrow, editVars, diskVars
  <2> QED BY <2>1, <2>5, <2>7 DEF TypeInv, LocalsOK, Generated, Replacing, Loaded, diskVars
<1>3. CASE ~Fails /\ SelfBuild
  <2>1. /\ pc = "self_build" /\ pc' = "self_remove"
        /\ artifact' = [artifact EXCEPT ![Current] = snap[Current]]
        /\ spoilt' = spoilt \ {Current}
        /\ info' = [info EXCEPT ![Current].built = TRUE]
        /\ UNCHANGED <<snap, manifest, bootstrap, me, generator, step, requested, todo,
                       busy, failures>>
      BY <1>3 DEF SelfBuild, Goto
  <2>2. Current \in Target /\ step <= Len(SelfTargets)
      BY <2>1, CurrentType DEF TypeInv, LocalsOK, Replacing
  <2>3. /\ info' \in Infos
        /\ \A t \in Target : info'[t].ver = info[t].ver
      BY <2>1, <2>2 DEF TypeInv, TypeOK, Infos
  <2>4. artifact' \in [Target -> Versions \cup {None, Torn}]
      BY <2>1, <2>2 DEF TypeInv, TypeOK
  <2>5. TypeOK'
      BY <2>1, <2>3, <2>4 DEF TypeInv, TypeOK, editVars
  <2>6. VersionsGrow'
      BY <2>1, <2>3 DEF TypeInv, VersionsGrow, editVars
  <2> QED BY <2>1, <2>2, <2>5, <2>6 DEF TypeInv, LocalsOK, Generated, Replacing, Loaded
<1>4. CASE SelfRemove \/ SelfCopy
  <2>1. /\ pc \in {"self_remove", "self_copy"} /\ pc' \in {"self_copy", "self_save"}
        /\ bootstrap' \in {[bootstrap EXCEPT ![Current] = None],
                           [bootstrap EXCEPT ![Current] = artifact[Current]]}
        /\ UNCHANGED <<snap, manifest, artifact, spoilt, memVars>>
      BY <1>4 DEF SelfRemove, SelfCopy, Goto
  <2>2. Current \in Target /\ step <= Len(SelfTargets)
      BY <2>1, CurrentType DEF TypeInv, LocalsOK, Replacing
  <2>3. bootstrap' \in [Own -> Versions \cup {None, Torn}]
      BY <2>1, <2>2 DEF TypeInv, TypeOK
  <2> QED BY <2>1, <2>2, <2>3 DEF TypeInv, TypeOK, VersionsGrow, LocalsOK, editVars, memVars,
                                 Generated, Replacing, Loaded
<1>5. CASE SelfSave
  <2>1. /\ pc = "self_save" /\ pc' = "exec" /\ manifest' = File(info) /\ info' = Empty /\ me' = None
        /\ UNCHANGED <<snap, bootstrap, artifact, spoilt, generator, step, requested, todo, busy,
                       failures>>
      BY <1>5 DEF SelfSave, Saved, Goto
  <2>2. info' \in Infos /\ info \in Infos
      BY <2>1, ManifestType DEF TypeInv, TypeOK
  <2>3. manifest' \in [state : {"file"}, of : Infos] /\ manifest'.of = info
      BY <2>1, <2>2 DEF File
  <2>4. TypeOK'
      BY <2>1, <2>2, <2>3 DEF TypeInv, TypeOK, editVars
  <2>5. \A t \in Target : info'[t].ver = None
      BY <2>1 DEF Empty, NoInfo
  <2>6. VersionsGrow'
      BY <2>1, <2>3, <2>5, SnapType DEF TypeInv, VersionsGrow, editVars
  <2> QED BY <2>1, <2>4, <2>6 DEF TypeInv, LocalsOK, Generated, Replacing, Loaded
<1> QED BY <1>1, <1>2, <1>3, <1>4, <1>5

\* The requested targets are looked up, compiled and saved.
LEMMA WorkType ==
    ASSUME TypeInv, UNCHANGED <<editVars, orphans>>,
           \/ PickTargets \/ PickFails \/ Join \/ Save
           \/ \E t \in User : Take(t) \/ Compiled(t)
    PROVE  TypeInv'
<1> USE DEF editVars
<1>1. CASE PickFails
    BY <1>1, FailsType DEF PickFails
<1>2. CASE PickTargets
  <2>1. /\ pc = "self" /\ pc' = "work"
        /\ info' = [t \in Target |-> IF t \in requested THEN get_pp(t) ELSE info[t]]
        /\ todo' \subseteq requested
        /\ UNCHANGED <<diskVars, me, generator, step, requested, busy, failures>>
      BY <1>2 DEF PickTargets, Picked, Goto
  <2>2. info' \in Infos
      BY <2>1, LookedUpType DEF TypeInv, TypeOK, Infos
  <2>3. TypeOK'
      BY <2>1, <2>2 DEF TypeInv, TypeOK, diskVars
  <2>4. \A t \in Target : info'[t].ver <= snap[t]
      BY <2>1, LookedUpType DEF TypeInv, VersionsGrow
  <2>5. VersionsGrow'
      BY <2>1, <2>4 DEF TypeInv, VersionsGrow, diskVars
  <2> QED BY <2>1, <2>3, <2>5 DEF TypeInv, LocalsOK, Generated, Replacing, Loaded, diskVars
<1>3. ASSUME NEW t \in User, Take(t) PROVE TypeInv'
  <2>1. /\ pc = "work" /\ pc' = "work" /\ todo' \subseteq todo /\ busy' \subseteq busy \cup todo
        /\ UNCHANGED <<diskVars, info, me, generator, step, requested, failures>>
      BY <1>3 DEF Take
  <2> QED BY <2>1 DEF TypeInv, TypeOK, VersionsGrow, LocalsOK, diskVars,
                      Generated, Replacing, Loaded
<1>4. ASSUME NEW t \in User, Compiled(t) PROVE TypeInv'
  <2>1. /\ pc = "work" /\ pc' = "work" /\ t \in busy /\ busy' \subseteq busy
        /\ info' = [info EXCEPT ![t].built = Compiles(snap[t])]
        /\ UNCHANGED <<snap, manifest, bootstrap, me, generator, step, requested, todo>>
      BY <1>4 DEF Compiled, Flagged
  <2>2. t \in Target /\ t \in requested /\ Compiles(snap[t]) \in BOOLEAN
      BY <2>1 DEF TypeInv, TypeOK, Target, Compiles
  <2>3. /\ info' \in Infos
        /\ \A u \in Target : info'[u].ver = info[u].ver
      BY <2>1, <2>2 DEF TypeInv, TypeOK, Infos
  <2>4. /\ artifact' \in {artifact, [artifact EXCEPT ![t] = None], [artifact EXCEPT ![t] = snap[t]]}
        /\ spoilt' \subseteq spoilt /\ failures' \subseteq failures \cup {t}
      BY <1>4 DEF Compiled
  <2>5. artifact' \in [Target -> Versions \cup {None, Torn}]
      BY <2>2, <2>4 DEF TypeInv, TypeOK
  <2>6. TypeOK'
      BY <2>1, <2>2, <2>3, <2>4, <2>5 DEF TypeInv, TypeOK
  <2>7. VersionsGrow'
      BY <2>1, <2>3 DEF TypeInv, VersionsGrow
  <2> QED BY <2>1, <2>6, <2>7 DEF TypeInv, LocalsOK, Generated, Replacing, Loaded
<1>5. CASE Join
    BY <1>5 DEF Join, Goto, TypeInv, TypeOK, VersionsGrow, LocalsOK, diskVars, memVars,
                Generated, Replacing, Loaded
<1>6. CASE Save
  <2>1. /\ Ends /\ manifest' = File(info) /\ UNCHANGED <<snap, bootstrap, artifact, spoilt, orphans>>
      BY <1>6 DEF Save, Saved
  <2> QED BY <2>1, EndsType DEF TypeInv, TypeOK
<1> QED BY <1>1, <1>2, <1>3, <1>4, <1>5, <1>6

\* What is being compiled when a run is killed is a target, of copies that exist.
LEMMA CompilingType ==
    ASSUME TypeInv, NEW t \in Compiling
    PROVE  t \in Target /\ snap[t] \in Versions /\ pc \in Loaded
<1>1. CASE pc = "self_build"
  <2>1. t = Current /\ step <= Len(SelfTargets)
      BY <1>1 DEF Compiling, TypeInv, LocalsOK, Replacing
  <2>2. t \in Target
      BY <2>1, CurrentType DEF TypeInv
  <2> QED BY <1>1, <2>2, SnapType DEF TypeInv, LocalsOK, Generated, Replacing, Loaded
<1>2. CASE pc # "self_build"
  <2>1. t \in busy /\ pc = "work"
      BY <1>2 DEF Compiling, TypeInv, LocalsOK
  <2>2. t \in Target
      BY <2>1 DEF TypeInv, TypeOK, Target
  <2> QED BY <2>1, <2>2, SnapType DEF TypeInv, LocalsOK, Generated, Loaded
<1> QED BY <1>1, <1>2

\* A run is killed.
LEMMA DieType == TypeInv /\ Die => TypeInv'
<1> SUFFICES ASSUME TypeInv, Die PROVE TypeInv'
    OBVIOUS
<1>1. Ends /\ UNCHANGED <<src, fate, now, snap, spoilt>>
    BY DEF Die, editVars
<1>2. manifest' \in {manifest, TornFile}
    BY DEF Die
<1>3. bootstrap' \in [Own -> Versions \cup {None, Torn}]
    BY DEF Die, MaybeTorn, TypeInv, TypeOK
<1>4. artifact' \in [Target -> Versions \cup {None, Torn}]
    BY DEF Die, MaybeTorn, TypeInv, TypeOK
<1>5. orphans' \subseteq Target \X Versions
    BY CompilingType DEF Die, TypeInv, TypeOK
<1> QED BY <1>1, <1>2, <1>3, <1>4, <1>5, EndsType DEF TypeInv, TypeOK

\* Every step keeps the types, the order of versions and what the locations rely on.
LEMMA NextType == TypeInv /\ [Next]_vars => TypeInv'
<1> SUFFICES ASSUME TypeInv, [Next]_vars PROVE TypeInv'
    OBVIOUS
<1>1. CASE Beside
    BY <1>1, BesideType
<1>2. ASSUME NEW T \in SUBSET User, Run(T), UNCHANGED <<editVars, orphans>> PROVE TypeInv'
    BY <1>2, BootstrapType
<1>3. CASE Build
  <2>1. UNCHANGED <<editVars, orphans>>
      BY <1>3 DEF Build
  <2>2. CASE BootstrapGenerator \/ BootstrapGenerate \/ BootstrapBuilder
      BY <2>1, <2>2, BootstrapType
  <2>3. CASE Load
      BY <2>1, <2>3, LoadType
  <2>4. CASE Generate
      BY <2>1, <2>4, GeneratesType DEF Generate
  <2>5. CASE SelfLook \/ SelfBuild \/ SelfRemove \/ SelfCopy \/ SelfSave
      BY <2>1, <2>5, SelfType
  <2>6. CASE PickTargets \/ PickFails \/ Join \/ Save \/ \E t \in User : Take(t) \/ Compiled(t)
      BY <2>1, <2>6, WorkType
  <2> QED BY <1>3, <2>2, <2>3, <2>4, <2>5, <2>6 DEF Build
<1>4. CASE Die
    BY <1>4, DieType
<1>5. CASE UNCHANGED vars
    BY <1>5 DEF vars, editVars, diskVars, memVars, TypeInv, TypeOK, VersionsGrow, LocalsOK, Current
<1> QED BY <1>1, <1>2, <1>3, <1>4, <1>5 DEF Next

\* The first state.
LEMMA InitType == Init => TypeInv
<1> SUFFICES ASSUME Init PROVE TypeInv
    OBVIOUS
<1>1. 0 \in Versions /\ now \in 1 .. MaxEdits + 1 /\ step \in 1 .. Len(SelfTargets) + 1
    BY MaxEditsIsNatural DEF Init, Versions, SelfTargets
<1>2. Empty \in Infos /\ manifest.of = Empty
    BY DEF Init, Empty, NoInfo, Infos, NoFile
<1>3. TypeOK
    BY <1>1, <1>2 DEF Init, TypeOK
<1>4. VersionsGrow
    BY <1>2 DEF Init, VersionsGrow, Empty, NoInfo, None
<1> QED BY <1>3, <1>4 DEF Init, TypeInv, LocalsOK, Generated, Replacing, Loaded

\* The variables of the builder have their types, for any targets, headers, threads,
\* edits and faults.
THEOREM TypeCorrect == Spec => []TypeInv
    BY InitType, NextType, PTL DEF Spec

\* The invariant the runs check.
COROLLARY TypeOKHolds == Spec => []TypeOK
<1>1. TypeInv => TypeOK
    BY DEF TypeInv
<1> QED BY <1>1, TypeCorrect, PTL

-----------------------------------------------------------------------------
(* What is flagged as built is there.                                      *)

\* Steps that leave what the manifests say alone, and no binary worse off.
LEMMA FrameFlags ==
    ASSUME TypeInv, FlagInv, UNCHANGED <<snap, info, step>>, manifest'.of = manifest.of,
           \A t \in Target : There(t) => There(t)',
           todo' \cup busy' \subseteq todo \cup busy,
           \A t \in busy' : ~info[t].built,
           pc' \in Loaded => pc \in Loaded,
           pc' \in Replacing => pc \in Replacing /\ (pc' = "self_build" <=> pc = "self_build")
    PROVE  FlagInv'
<1>1. Current' = Current
    BY DEF Current
<1>2. \A t \in Target : /\ Says(manifest.of, t)' <=> Says(manifest.of, t)
                        /\ Says(info, t)' <=> Says(info, t)
    BY DEF Says
<1>3. SaidIsThere'
    BY <1>2 DEF FlagInv, SaidIsThere
<1>4. ReplacedIsMarked'
    BY <1>1 DEF FlagInv, ReplacedIsMarked, Says
<1>5. FileIsKnown' /\ WorkIsUnbuilt' /\ FlagsHaveVersions'
    BY <1>2 DEF FlagInv, FileIsKnown, WorkIsUnbuilt, FlagsHaveVersions
<1> QED BY <1>3, <1>4, <1>5 DEF FlagInv

\* However a run ends, if what it leaves in place of a binary is not said to be built.
LEMMA EndsFlags ==
    ASSUME TypeInv, FlagInv, Ends, snap' = snap,
           manifest' \in {manifest, TornFile, File(info)},
           \A t \in Target : Says(manifest.of, t)' /\ There(t) => There(t)'
    PROVE  FlagInv'
<1>1. pc' = "idle" /\ info' = Empty /\ todo' = {} /\ busy' = {}
    BY DEF Ends, Goto
<1>2. manifest'.of \in {manifest.of, Empty, info}
    BY DEF TornFile, File
<1>3. \A t \in Target : ~Empty[t].built
    BY DEF Empty, NoInfo
<1>4. FlagsHaveVersions'
    BY <1>1, <1>2, <1>3 DEF FlagInv, FlagsHaveVersions
<1>5. FileIsKnown' /\ ReplacedIsMarked' /\ WorkIsUnbuilt'
    BY <1>1 DEF FileIsKnown, ReplacedIsMarked, WorkIsUnbuilt, Loaded, Generated, Replacing
<1>6. ASSUME NEW t \in Target, Says(manifest.of, t)' PROVE There(t)'
    BY <1>2, <1>3, <1>6 DEF FlagInv, SaidIsThere, Says
<1>7. SaidIsThere'
    BY <1>1, <1>3, <1>6 DEF SaidIsThere, Says
<1> QED BY <1>4, <1>5, <1>7 DEF FlagInv

\* A run that panics.
LEMMA FailsFlags == TypeInv /\ FlagInv /\ Fails => FlagInv'
    BY EndsFlags DEF Fails, diskVars, There

\* New copies make flags outdated, never true: versions do not come back.
LEMMA GeneratesFlags ==
    ASSUME TypeInv, FlagInv,
           \/ pc = "bootstrap" /\ Generates("bootstrap_builder")
           \/ pc = "generate" /\ Generates("self")
    PROVE  FlagInv'
<1>1. CASE Fails
    BY <1>1, FailsFlags
<1>2. CASE ~Fails
  <2>1. /\ snap' = src
        /\ UNCHANGED <<manifest, artifact, spoilt, info, step, todo, busy>>
        /\ \/ pc = "bootstrap" /\ pc' = "bootstrap_builder"
           \/ pc = "generate" /\ pc' = "self"
      BY <1>2 DEF Generates, Goto
  <2>2. todo = {} /\ busy = {}
      BY <2>1 DEF TypeInv, LocalsOK
  <2>3. ASSUME NEW t \in Target, NEW m \in {manifest.of, info}, m[t].ver = src[t]
        PROVE  src[t] = snap[t]
    <3>1. m[t].ver <= snap[t] /\ snap[t] <= src[t]
        BY DEF TypeInv, VersionsGrow
    <3> QED BY <2>3, <3>1, SnapType DEF TypeInv
  <2>4. \A t \in Target : /\ Says(manifest.of, t)' => Says(manifest.of, t) /\ src[t] = snap[t]
                          /\ Says(info, t)' => Says(info, t) /\ src[t] = snap[t]
      BY <2>1, <2>3 DEF Says
  <2>5. SaidIsThere'
      BY <2>1, <2>4 DEF FlagInv, SaidIsThere, There
  <2>6. FileIsKnown'
    <3> SUFFICES ASSUME pc' \in Loaded, NEW t \in Target, Says(manifest.of, t)' PROVE Says(info, t)'
        BY DEF FileIsKnown
    <3>1. pc = "generate" /\ Says(manifest.of, t) /\ src[t] = snap[t]
        BY <2>1, <2>4 DEF Loaded, Generated, Replacing
    <3>2. Says(info, t)
        BY <3>1 DEF FlagInv, FileIsKnown, Loaded
    <3> QED BY <2>1, <3>1, <3>2 DEF Says
  <2>7. ReplacedIsMarked'
      BY <2>1 DEF ReplacedIsMarked, Replacing
  <2>8. WorkIsUnbuilt' /\ FlagsHaveVersions'
      BY <2>1, <2>2 DEF FlagInv, WorkIsUnbuilt, FlagsHaveVersions
  <2> QED BY <2>5, <2>6, <2>7, <2>8 DEF FlagInv
<1> QED BY <1>1, <1>2

\* main looks at the generator and at itself.
LEMMA LookFlags ==
    ASSUME TypeInv, FlagInv, SelfLook
    PROVE  FlagInv'
<1>1. CASE Fails
    BY <1>1, FailsFlags
<1>2. CASE ~Fails
  <2>1. /\ pc = "self" /\ step <= Len(SelfTargets) /\ get_pp(Current) # NoInfo
        /\ info' = [info EXCEPT ![Current] = get_pp(Current)]
        /\ \/ get_pp(Current).built /\ pc' = "self"
           \/ ~get_pp(Current).built /\ step' = step /\ pc' = "self_build"
        /\ UNCHANGED <<diskVars, todo, busy>>
      BY <1>2 DEF SelfLook, Goto
  <2>2. Current \in Target /\ snap[Current] # None
      BY <2>1, CurrentType DEF TypeInv, LocalsOK, Generated
  <2>3. /\ get_pp(Current).ver = snap[Current]
        /\ Says(info, Current) => get_pp(Current) = info[Current]
        /\ get_pp(Current).built => get_pp(Current) = info[Current] /\ Says(info, Current)
      BY <2>1, <2>2, GetPP DEF TypeInv, Says
  <2>4. /\ info'[Current] = get_pp(Current)
        /\ \A t \in Target : t # Current => info'[t] = info[t]
      BY <2>1, <2>2 DEF TypeInv, TypeOK, Infos
  <2>5. \A t \in Target : /\ Says(info, t)' <=> Says(info, t)
                          /\ Says(manifest.of, t)' <=> Says(manifest.of, t)
      BY <2>1, <2>3, <2>4 DEF Says, diskVars
  <2>6. SaidIsThere' /\ FileIsKnown'
      BY <2>1, <2>5 DEF FlagInv, SaidIsThere, There, diskVars, FileIsKnown,
                        Loaded, Generated, Replacing
  <2>7. ReplacedIsMarked'
    <3> SUFFICES ASSUME pc' \in Replacing
                 PROVE  /\ info'[Current'].ver = snap'[Current']
                        /\ info'[Current'].built = (pc' # "self_build")
                        /\ ~Says(manifest.of, Current)'
        BY DEF ReplacedIsMarked
    <3>1. Current' = Current /\ pc' = "self_build" /\ get_pp(Current).built = FALSE
        BY <2>1, <2>2, GetPP DEF TypeInv, Replacing, Current
    <3>2. ~Says(manifest.of, Current)
        BY <2>1, <2>2, <2>3, <3>1 DEF FlagInv, FileIsKnown, Loaded, Generated, Says
    <3>3. info'[Current'].ver = snap'[Current'] /\ info'[Current'].built = FALSE
        BY <2>1, <2>3, <2>4, <3>1 DEF diskVars
    <3>4. ~Says(manifest.of, Current)'
        BY <2>1, <3>1, <3>2 DEF Says, diskVars
    <3> QED BY <3>1, <3>3, <3>4
  <2>8. FlagsHaveVersions'
      BY <2>1, <2>2, <2>3, <2>4 DEF FlagInv, FlagsHaveVersions, diskVars
  <2>9. WorkIsUnbuilt'
      BY <2>1 DEF TypeInv, LocalsOK, WorkIsUnbuilt
  <2> QED BY <2>6, <2>7, <2>8, <2>9 DEF FlagInv
<1> QED BY <1>1, <1>2

\* The compiler of a generator or a builder is done.
LEMMA BuildFlags ==
    ASSUME TypeInv, FlagInv, SelfBuild
    PROVE  FlagInv'
<1>1. CASE Fails
    BY <1>1, FailsFlags
<1>2. CASE ~Fails
  <2>1. /\ pc = "self_build" /\ pc' = "self_remove"
        /\ artifact' = [artifact EXCEPT ![Current] = snap[Current]]
        /\ spoilt' = spoilt \ {Current}
        /\ info' = [info EXCEPT ![Current].built = TRUE]
        /\ UNCHANGED <<snap, manifest, step, todo, busy>>
      BY <1>2 DEF SelfBuild, Goto
  <2>2. Current \in Target /\ Current' = Current /\ snap[Current] # None /\ pc \in Loaded
      BY <2>1, CurrentType DEF TypeInv, LocalsOK, Replacing, Generated, Loaded, Current
  <2>3. /\ info'[Current].built = TRUE /\ info'[Current].ver = info[Current].ver
        /\ \A t \in Target : t # Current => info'[t] = info[t]
      BY <2>1, <2>2 DEF TypeInv, TypeOK, Infos
  <2>4. info[Current].ver = snap[Current] /\ ~Says(manifest.of, Current)
      BY <2>1 DEF FlagInv, ReplacedIsMarked, Replacing
  <2>5. \A t \in Target : There(t) \/ t = Current => There(t)'
      BY <2>1, <2>2 DEF There, TypeInv, TypeOK
  <2>6. \A t \in Target : /\ t # Current => (Says(info, t)' <=> Says(info, t))
                          /\ t = Current => Says(info, t)'
                          /\ Says(manifest.of, t)' <=> Says(manifest.of, t)
      BY <2>1, <2>2, <2>3, <2>4 DEF Says
  <2>7. SaidIsThere'
      BY <2>5, <2>6 DEF FlagInv, SaidIsThere
  <2>8. FileIsKnown'
      BY <2>2, <2>6 DEF FlagInv, FileIsKnown
  <2>9. ReplacedIsMarked'
      BY <2>1, <2>2, <2>3, <2>4 DEF ReplacedIsMarked, Says
  <2>10. FlagsHaveVersions'
      BY <2>1, <2>2, <2>3, <2>4 DEF FlagInv, FlagsHaveVersions
  <2>11. WorkIsUnbuilt'
      BY <2>1 DEF TypeInv, LocalsOK, WorkIsUnbuilt
  <2> QED BY <2>7, <2>8, <2>9, <2>10, <2>11 DEF FlagInv
<1> QED BY <1>1, <1>2

\* The manifest is loaded, and saved before the builder re-executes.
LEMMA LoadSaveFlags ==
    ASSUME TypeInv, FlagInv, Load \/ SelfSave
    PROVE  FlagInv'
<1>1. CASE Fails
    BY <1>1, FailsFlags
<1>2. CASE Load /\ ~Fails
  <2>1. /\ info' = manifest.of /\ pc = "exec" /\ pc' = "generate"
        /\ UNCHANGED <<diskVars, todo, busy>>
      BY <1>2 DEF Load, Goto
  <2>2. SaidIsThere' /\ FileIsKnown' /\ FlagsHaveVersions'
      BY <2>1 DEF FlagInv, SaidIsThere, FileIsKnown, FlagsHaveVersions, There, Says, diskVars
  <2>3. ReplacedIsMarked' /\ WorkIsUnbuilt'
      BY <2>1 DEF TypeInv, LocalsOK, ReplacedIsMarked, Replacing, WorkIsUnbuilt
  <2> QED BY <2>2, <2>3 DEF FlagInv
<1>3. CASE SelfSave
  <2>1. /\ pc = "self_save" /\ pc' = "exec" /\ manifest' = File(info) /\ info' = Empty
        /\ UNCHANGED <<snap, artifact, spoilt, todo, busy>>
      BY <1>3 DEF SelfSave, Saved, Goto
  <2>2. manifest'.of = info /\ \A t \in Target : ~Empty[t].built
      BY <2>1 DEF File, Empty, NoInfo
  <2>3. SaidIsThere' /\ FlagsHaveVersions'
      BY <2>1, <2>2 DEF FlagInv, SaidIsThere, FlagsHaveVersions, There, Says
  <2>4. FileIsKnown' /\ ReplacedIsMarked' /\ WorkIsUnbuilt'
      BY <2>1 DEF TypeInv, LocalsOK, FileIsKnown, ReplacedIsMarked, WorkIsUnbuilt,
                  Loaded, Generated, Replacing
  <2> QED BY <2>3, <2>4 DEF FlagInv
<1> QED BY <1>1, <1>2, <1>3

\* The requested targets are looked up.
LEMMA PickFlags ==
    ASSUME TypeInv, FlagInv, PickTargets
    PROVE  FlagInv'
<1>1. /\ info' = [t \in Target |-> IF t \in requested THEN get_pp(t) ELSE info[t]]
      /\ todo' = Picked /\ pc = "self" /\ pc' = "work" /\ UNCHANGED <<diskVars, busy>>
    BY DEF PickTargets, Goto
<1>2. \A t \in Target : snap[t] # None
    BY <1>1 DEF TypeInv, LocalsOK, Generated
<1>3. \A t \in Target : /\ Says(info, t) => info'[t] = info[t]
                        /\ info'[t].built => info'[t] = info[t]
    BY <1>1, <1>2, GetPP DEF TypeInv
<1>4. \A t \in Target : /\ Says(manifest.of, t)' <=> Says(manifest.of, t)
                        /\ Says(info, t)' <=> Says(info, t)
    BY <1>1, <1>3 DEF Says, diskVars
<1>5. SaidIsThere' /\ FileIsKnown' /\ FlagsHaveVersions'
    BY <1>1, <1>3, <1>4 DEF FlagInv, SaidIsThere, FileIsKnown, FlagsHaveVersions, There, diskVars,
                            Loaded, Generated
<1>6. ReplacedIsMarked'
    BY <1>1 DEF ReplacedIsMarked, Replacing
<1>7. WorkIsUnbuilt'
  <2>1. busy' = {} /\ Picked \subseteq Target
      BY <1>1 DEF TypeInv, TypeOK, LocalsOK, Picked, Target
  <2>2. \A t \in todo' : t \in requested /\ get_pp(t) # NoInfo
      BY <1>1 DEF Picked
  <2>3. \A t \in todo' : info'[t].ver = snap[t]
      BY <1>1, <2>1, <2>2, GetPP DEF TypeInv
  <2> QED BY <1>1, <2>1, <2>3 DEF WorkIsUnbuilt, diskVars
<1> QED BY <1>5, <1>6, <1>7 DEF FlagInv

\* A compiler of a worker is done: the flag follows the exit code.
LEMMA CompiledFlags ==
    ASSUME TypeInv, FlagInv, NEW t \in User, Compiled(t)
    PROVE  FlagInv'
<1>1. /\ pc = "work" /\ pc' = "work" /\ t \in busy /\ busy' = busy \ {t}
      /\ info' = [info EXCEPT ![t].built = Compiles(snap[t])]
      /\ UNCHANGED <<snap, manifest, step, todo>>
    BY DEF Compiled, Flagged
<1>2. t \in Target /\ snap[t] # None /\ Compiles(snap[t]) \in BOOLEAN
    BY <1>1 DEF Target, TypeInv, LocalsOK, Generated, Compiles
<1>3. info[t].ver = snap[t] /\ ~info[t].built
    BY <1>1 DEF FlagInv, WorkIsUnbuilt
<1>4. /\ info'[t].built = Compiles(snap[t])
      /\ \A u \in Target : info'[u].ver = info[u].ver /\ (u # t => info'[u] = info[u])
    BY <1>1, <1>2 DEF TypeInv, TypeOK, Infos
<1>5. ~Says(manifest.of, t)
    BY <1>1, <1>2, <1>3 DEF FlagInv, FileIsKnown, Loaded, Generated, Says
<1>6. \A u \in Target : /\ Says(manifest.of, u)' <=> Says(manifest.of, u)
                        /\ u # t => (Says(info, u)' <=> Says(info, u))
                        /\ u = t => (Says(info, u)' => Compiles(snap[t]))
    BY <1>1, <1>4 DEF Says
<1>7. \A u \in Target : /\ u # t => (There(u) => There(u)')
                        /\ u = t => (Compiles(snap[t]) => There(u)')
    BY <1>1, <1>2 DEF Compiled, There, TypeInv, TypeOK
<1>8. SaidIsThere'
    BY <1>5, <1>6, <1>7 DEF FlagInv, SaidIsThere
<1>9. FileIsKnown'
    BY <1>1, <1>5, <1>6 DEF FlagInv, FileIsKnown, Loaded, Generated
<1>10. FlagsHaveVersions' /\ ReplacedIsMarked'
    BY <1>1, <1>2, <1>3, <1>4 DEF FlagInv, FlagsHaveVersions, ReplacedIsMarked, Replacing
<1>11. WorkIsUnbuilt'
  <2>1. todo \cup busy \subseteq Target
      BY DEF TypeInv, TypeOK, Target
  <2> QED BY <1>1, <1>4, <2>1 DEF FlagInv, WorkIsUnbuilt
<1> QED BY <1>8, <1>9, <1>10, <1>11 DEF FlagInv

\* A run is killed with half written binaries, none of which is said to be built.
LEMMA DieFlags ==
    ASSUME TypeInv, FlagInv, Die
    PROVE  FlagInv'
<1>1. /\ Ends /\ UNCHANGED <<src, fate, now, snap, spoilt>>
      /\ manifest' \in {manifest, TornFile}
    BY DEF Die, editVars
<1>2. \A t \in Compiling : ~Says(manifest.of, t)
  <2>1. CASE pc = "self_build"
    <3>1. \A t \in Compiling : t = Current
        BY <2>1 DEF Compiling
    <3> QED BY <2>1, <3>1 DEF FlagInv, ReplacedIsMarked, Replacing
  <2>2. CASE pc # "self_build"
    <3>1. Compiling = busy
        BY <2>2 DEF Compiling
    <3> QED BY <3>1, CompilingType DEF FlagInv, FileIsKnown, WorkIsUnbuilt, Says
  <2> QED BY <2>1, <2>2
<1>3. \A t \in Target : t \notin Compiling => artifact'[t] = artifact[t]
    BY DEF Die, MaybeTorn, TypeInv, TypeOK
<1>4. \A t \in Target : Says(manifest.of, t)' => Says(manifest.of, t)
    BY <1>1 DEF Says, TornFile, Empty, NoInfo
<1>5. \A t \in Target : Says(manifest.of, t)' /\ There(t) => There(t)'
    BY <1>1, <1>2, <1>3, <1>4 DEF There
<1> QED BY <1>1, <1>5, EndsFlags

\* Every step keeps the flags true.
LEMMA NextFlags == TypeInv /\ FlagInv /\ [Next]_vars => FlagInv'
<1> SUFFICES ASSUME TypeInv, FlagInv, [Next]_vars PROVE FlagInv'
    OBVIOUS
<1>1. CASE Beside
  <2>1. UNCHANGED <<snap, memVars, pc>>
      BY <1>1 DEF Beside, Edit, RemoveArtifact, Repair, OrphanEnds, diskVars
  <2>2. manifest'.of = manifest.of
      BY <1>1 DEF Beside, Edit, RemoveArtifact, Repair, OrphanEnds, diskVars, TornFile, NoFile
  <2>3. \A t \in Target : There(t) => There(t)'
      BY <1>1 DEF Beside, Edit, RemoveArtifact, Repair, OrphanEnds, diskVars, There, TypeInv, TypeOK
  <2> QED BY <2>1, <2>2, <2>3, FrameFlags DEF memVars, FlagInv, WorkIsUnbuilt
<1>2. CASE \/ \E T \in SUBSET User : Run(T)
           \/ ~Fails /\ (BootstrapGenerator \/ BootstrapBuilder)
           \/ BootstrapGenerate /\ Exists(bootstrap[Self])
           \/ SelfRemove \/ SelfCopy \/ Join
           \/ UNCHANGED vars
  <2>1. UNCHANGED <<snap, manifest, artifact, spoilt, info, step, todo, busy>>
      BY <1>2 DEF Run, BootstrapGenerator, BootstrapBuilder, BootstrapGenerate, SelfRemove, SelfCopy,
                  Join, vars, diskVars, memVars
  <2>2. /\ pc' \in Loaded => pc \in Loaded
        /\ pc' \in Replacing => pc \in Replacing /\ (pc' = "self_build" <=> pc = "self_build")
      BY <1>2 DEF Run, BootstrapGenerator, BootstrapBuilder, BootstrapGenerate, SelfRemove, SelfCopy,
                  Join, Goto, vars, Loaded, Generated, Replacing
  <2> QED BY <2>1, <2>2, FrameFlags DEF There, FlagInv, WorkIsUnbuilt
<1>3. ASSUME NEW t \in User, Take(t) PROVE FlagInv'
  <2>1. /\ t \in todo /\ busy' = (IF info[t].built THEN busy ELSE busy \cup {t})
        /\ todo' = todo \ {t} /\ pc' = pc /\ UNCHANGED <<snap, manifest, artifact, spoilt, info, step>>
      BY <1>3 DEF Take, diskVars
  <2> QED BY <2>1, FrameFlags DEF There, FlagInv, WorkIsUnbuilt
<1>4. CASE Save
  <2>1. Ends /\ manifest' = File(info) /\ UNCHANGED <<snap, artifact, spoilt>>
      BY <1>4 DEF Save, Saved
  <2> QED BY <2>1, EndsFlags DEF There
<1>5. CASE Build
    BY <1>2, <1>3, <1>4, <1>5, FailsFlags, GeneratesFlags, LookFlags, BuildFlags, LoadSaveFlags,
       PickFlags, CompiledFlags
       DEF Build, BootstrapGenerator, BootstrapBuilder, BootstrapGenerate, Generate, PickFails
<1> QED BY <1>1, <1>2, <1>5, DieFlags DEF Next

\* The flags of the first state.
LEMMA InitFlags == Init => FlagInv
<1> SUFFICES ASSUME Init PROVE FlagInv
    OBVIOUS
<1>1. manifest.of = Empty /\ info = Empty /\ \A t \in Target : ~Empty[t].built
    BY DEF Init, NoFile, Empty, NoInfo
<1>2. SaidIsThere /\ FlagsHaveVersions
    BY <1>1 DEF SaidIsThere, FlagsHaveVersions, Says
<1> QED BY <1>2 DEF Init, FlagInv, FileIsKnown, ReplacedIsMarked, WorkIsUnbuilt,
                    Loaded, Generated, Replacing

\* The inductive invariant behind the flags.
LEMMA FlagInvariant == Spec => []FlagInv
    BY InitFlags, NextFlags, TypeCorrect, PTL DEF Spec

\* What is said to be built of the copied sources is there; what is said to be built of
\* other sources is of older ones.
LEMMA SaidMeansFlag ==
    ASSUME TypeInv, SaidIsThere
    PROVE  BuiltFlagsAreTrue
<1> SUFFICES ASSUME NEW m \in {manifest.of, info}, NEW t \in Target, m[t].built
             PROVE  artifact[t] = m[t].ver \/ m[t].ver < snap[t] \/ t \in spoilt
    BY DEF BuiltFlagsAreTrue, FlagsAreTrue
<1>1. m[t].ver <= snap[t] /\ m[t].ver \in Int /\ snap[t] \in Int
  <2>1. m \in Infos
      BY ManifestType DEF TypeInv, TypeOK
  <2> QED BY <2>1, InfoType, VersionType, SnapType DEF TypeInv, VersionsGrow
<1>2. m[t].ver = snap[t] => There(t)
    BY DEF SaidIsThere, Says
<1> QED BY <1>1, <1>2 DEF There

\* A binary is skipped only when it is there: for any number of targets, headers, edits,
\* threads, failures and kills, with compilers that outlive the run that started them.
THEOREM FlagsHold == Spec => []BuiltFlagsAreTrue
<1>1. TypeInv /\ FlagInv => BuiltFlagsAreTrue
    BY SaidMeansFlag DEF FlagInv
<1> QED BY <1>1, TypeCorrect, FlagInvariant, PTL

-----------------------------------------------------------------------------
(* A run without failures has built all it was asked for.                  *)

\* Steps after which every requested target is where it was, or further on.
LEMMA FrameWork ==
    ASSUME WorkIsAccounted, UNCHANGED <<snap, info, requested>>, pc' \in {"work", "save"} => pc \in {"work", "save"},
           \A t \in Target : fate[snap[t]] = "no_preprocess" => fate'[snap[t]] = "no_preprocess",
           requested \subseteq Target,
           \A t \in requested : t \in todo \cup busy \cup failures
                                => t \in todo' \cup busy' \cup failures' \/ Says(info, t)
    PROVE  WorkIsAccounted'
    BY DEF WorkIsAccounted, Says

\* Every step accounts for the requested targets.
LEMMA NextWork == TypeInv /\ FlagInv /\ WorkIsAccounted /\ [Next]_vars => WorkIsAccounted'
<1> SUFFICES ASSUME TypeInv, FlagInv, WorkIsAccounted, [Next]_vars, pc' \in {"work", "save"}
             PROVE  WorkIsAccounted'
    BY DEF WorkIsAccounted
<1> USE DEF diskVars, memVars, editVars
<1>1. requested \subseteq Target /\ ~Ends
    BY DEF TypeInv, TypeOK, Target, Ends, Goto
<1>2. CASE Beside
  <2>1. UNCHANGED <<snap, memVars, pc>>
      BY <1>2 DEF Beside, Edit, RemoveArtifact, Repair, OrphanEnds
  <2>2. \A t \in Target : snap[t] # None => fate'[snap[t]] = fate[snap[t]]
    <3> SUFFICES ASSUME NEW t \in Target, snap[t] # None
                 PROVE  snap[t] \in Versions /\ snap[t] # now
        BY <1>2 DEF Beside, Edit, RemoveArtifact, Repair, OrphanEnds, TypeInv, TypeOK
    <3>1. snap[t] \in Versions /\ snap[t] <= src[t] /\ src[t] < now /\ snap[t] \in Int
          /\ src[t] \in Int
        BY SnapType DEF TypeInv, VersionsGrow
    <3>2. now \in Int
        BY MaxEditsIsNatural DEF TypeInv, TypeOK
    <3> QED BY <3>1, <3>2
  <2>3. \A t \in Target : snap[t] # None
      BY <2>1 DEF TypeInv, LocalsOK, Generated
  <2> QED BY <1>1, <2>1, <2>2, <2>3, FrameWork
<1>3. CASE PickTargets /\ UNCHANGED fate
  <2>1. /\ info' = [t \in Target |-> IF t \in requested THEN get_pp(t) ELSE info[t]]
        /\ todo' = Picked /\ pc = "self" /\ UNCHANGED <<snap, requested>>
      BY <1>3 DEF PickTargets
  <2>2. \A t \in requested : get_pp(t) = NoInfo => fate[snap[t]] = "no_preprocess"
      BY <1>1, <2>1, GetPP DEF TypeInv, LocalsOK, Generated
  <2>3. \A t \in requested : get_pp(t) # NoInfo => t \in todo'
      BY <2>1 DEF Picked
  <2> QED BY <1>3, <2>1, <2>2, <2>3 DEF WorkIsAccounted
<1>4. ASSUME NEW t \in User, Take(t), UNCHANGED fate PROVE WorkIsAccounted'
  <2>1. /\ t \in todo /\ busy' = (IF info[t].built THEN busy ELSE busy \cup {t})
        /\ todo' = todo \ {t} /\ pc' = pc /\ UNCHANGED <<snap, info, requested, failures>>
      BY <1>4 DEF Take
  <2>2. info[t].built => Says(info, t)
      BY <2>1 DEF FlagInv, WorkIsUnbuilt, Says
  <2> QED BY <1>1, <1>4, <2>1, <2>2, FrameWork
<1>5. ASSUME NEW t \in User, Compiled(t), UNCHANGED fate PROVE WorkIsAccounted'
  <2>1. /\ pc = "work" /\ t \in busy /\ busy' = busy \ {t}
        /\ info' = [info EXCEPT ![t].built = Compiles(snap[t])]
        /\ failures' = (IF Compiles(snap[t]) THEN failures ELSE failures \cup {t})
        /\ UNCHANGED <<snap, requested, todo>>
      BY <1>5 DEF Compiled, Flagged
  <2>2. info[t].ver = snap[t] /\ t \in Target
      BY <2>1 DEF FlagInv, WorkIsUnbuilt, Target
  <2>3. /\ Compiles(snap[t]) => \A u \in Target : u = t => Says(info, u)'
        /\ \A u \in Target : u # t => (Says(info, u)' <=> Says(info, u))
      BY <2>1, <2>2 DEF TypeInv, TypeOK, Infos, Says
  <2> QED BY <1>1, <1>5, <2>1, <2>2, <2>3 DEF WorkIsAccounted
<1>6. CASE (Join \/ UNCHANGED vars) /\ UNCHANGED fate
  <2>1. UNCHANGED <<snap, info, requested, todo, busy, failures>> /\ pc \in {"work", "save"}
      BY <1>6 DEF Join, vars
  <2> QED BY <1>1, <1>6, <2>1, FrameWork
<1>7. CASE Build
  <2>1. \/ PickTargets \/ Join
        \/ \E t \in User : Take(t) \/ Compiled(t)
      BY <1>1, <1>7 DEF Build, BootstrapGenerator, BootstrapGenerate, BootstrapBuilder, Generates, Load,
                  Generate, SelfLook, SelfBuild, SelfRemove, SelfCopy, SelfSave, PickFails, Save,
                  Fails, Goto
  <2> QED BY <1>3, <1>4, <1>5, <1>6, <1>7, <2>1 DEF Build
<1>8. ~Die /\ ~\E T \in SUBSET User : Run(T)
    BY <1>1 DEF Die, Run, Goto
<1> QED BY <1>2, <1>6, <1>7, <1>8 DEF Next, vars

\* The inductive invariant behind SuccessMeansBuilt.
LEMMA WorkInvariant == Spec => []WorkIsAccounted
<1>1. Init => WorkIsAccounted
    BY DEF Init, WorkIsAccounted
<1> QED BY <1>1, NextWork, TypeCorrect, FlagInvariant, PTL DEF Spec

\* When a run ends without failures each requested target that preprocesses has a binary
\* of the copied sources, in whatever order the workers took them.
THEOREM SuccessHolds == Spec => []SuccessMeansBuilt
<1>1. TypeInv /\ FlagInv /\ WorkIsAccounted => SuccessMeansBuilt
  <2> SUFFICES ASSUME TypeInv, FlagInv, WorkIsAccounted, pc = "save", failures = {},
                      NEW t \in requested, fate[snap[t]] # "no_preprocess"
               PROVE  There(t)
      BY DEF SuccessMeansBuilt, There
  <2>1. t \in Target /\ todo \cup busy \cup failures = {}
      BY DEF TypeInv, TypeOK, LocalsOK, Target
  <2>2. Says(info, t)
      BY <2>1 DEF WorkIsAccounted
  <2> QED BY <2>1, <2>2 DEF FlagInv, SaidIsThere
<1> QED BY <1>1, TypeCorrect, FlagInvariant, WorkInvariant, PTL

-----------------------------------------------------------------------------
(* The builder and the generator in use are those that were built.         *)

\* The targets that main is past.
LEMMA OwnSteps ==
    ASSUME TypeOK
    PROVE  step \in 1 .. 3 /\ \A k \in 1 .. step - 1 : k \in 1 .. 2 /\ SelfTargets[k] \in Own
<1>1. Len(SelfTargets) = 2 /\ SelfTargets[1] \in Own /\ SelfTargets[2] \in Own
    BY DEF SelfTargets, Own
<1>2. step \in 1 .. Len(SelfTargets) + 1
    BY DEF TypeOK
<1>3. step \in 1 .. 3 /\ \A k \in 1 .. step - 1 : k \in 1 .. 2
    BY <1>1, <1>2
<1> QED BY <1>1, <1>3

\* What is said to be built in a manifest exists where it is installed, unless spoilt.
LEMMA InstalledExists ==
    ASSUME FlagInv, InstalledInv, NEW s \in Own, Says(manifest.of, s), ~Exists(bootstrap[s])
    PROVE  s \in spoilt
<1>1. snap[s] # None /\ s \in Target
    BY DEF FlagInv, FlagsHaveVersions, Says, Target
<1> QED BY <1>1 DEF InstalledInv, FileInstalled, Installed, Exists

\* Steps that leave the copies and the entries of the own targets alone, and no
\* installed binary worse off.
LEMMA FrameInstalled ==
    ASSUME TypeInv, InstalledInv, UNCHANGED <<snap, me, generator, step>>,
           \A s \in Own : info'[s] = info[s] /\ manifest'.of[s] = manifest.of[s],
           pc' \in Loaded => UNCHANGED bootstrap,
           \A s \in Own : Installed(s) => Installed(s)' \/ ~Says(manifest.of, s),
           pc' \in Loaded => \A s \in Own : Installed(s) => Installed(s)',
           pc' = pc \/ pc' \notin Loaded \/ (pc = "work" /\ pc' = "save")
    PROVE  InstalledInv'
<1>1. \A s \in Own : /\ Says(manifest.of, s)' <=> Says(manifest.of, s)
                     /\ Says(info, s)' <=> Says(info, s)
    BY DEF Says
<1>2. Current' = Current
    BY DEF Current
<1>3. FileInstalled'
    BY <1>1 DEF InstalledInv, FileInstalled
<1>4. MemoryInstalled'
    BY <1>1, <1>2 DEF InstalledInv, MemoryInstalled, Loaded, Generated, Replacing
<1>5. RunsInstalled'
    BY DEF InstalledInv, RunsInstalled, Loaded, Generated, Replacing
<1>6. SelfIsBuilt'
  <2>1. pc' = "generate" => step' = 1
      BY DEF InstalledInv, SelfIsBuilt, Loaded
  <2>2. pc' \in {"work", "save"} => \A s \in Own : Says(info, s)'
      BY <1>1 DEF InstalledInv, SelfIsBuilt, Loaded, Generated
  <2>3. ASSUME pc' = "self", NEW k \in 1 .. step' - 1 PROVE Says(info, SelfTargets[k])'
    <3>1. pc = "self" /\ step' = step
        BY <2>3 DEF Loaded, Generated
    <3>2. Says(info, SelfTargets[k]) /\ SelfTargets[k] \in Own
        BY <2>3, <3>1, OwnSteps DEF InstalledInv, SelfIsBuilt, TypeInv
    <3> QED BY <1>1, <3>2
  <2> QED BY <2>1, <2>2, <2>3 DEF SelfIsBuilt
<1> QED BY <1>3, <1>4, <1>5, <1>6 DEF InstalledInv

\* However a run ends: what is half written is not said to be built.
LEMMA EndsInstalled ==
    ASSUME TypeInv, InstalledInv, Ends, snap' = snap,
           \/ manifest' \in {manifest, TornFile}
           \/ manifest' = File(info) /\ pc = "save",
           \A s \in Own : Installed(s) => Installed(s)' \/ ~Says(manifest.of, s)'
    PROVE  InstalledInv'
<1>1. pc' = "idle"
    BY DEF Ends, Goto
<1>2. ASSUME NEW s \in Own, Says(manifest.of, s)' PROVE Installed(s)
  <2>1. CASE manifest' = File(info) /\ pc = "save"
      BY <2>1 DEF InstalledInv, MemoryInstalled, SelfIsBuilt, Loaded, Generated
  <2>2. CASE manifest' \in {manifest, TornFile}
    <3>1. Says(manifest.of, s)
        BY <1>2, <2>2 DEF Says, TornFile, Empty, NoInfo, Target
    <3> QED BY <3>1 DEF InstalledInv, FileInstalled
  <2> QED BY <2>1, <2>2
<1>3. FileInstalled'
    BY <1>2 DEF FileInstalled
<1>4. MemoryInstalled' /\ RunsInstalled' /\ SelfIsBuilt'
    BY <1>1 DEF MemoryInstalled, RunsInstalled, SelfIsBuilt, Loaded, Generated, Replacing
<1> QED BY <1>3, <1>4 DEF InstalledInv

\* A run that panics.
LEMMA FailsInstalled == TypeInv /\ InstalledInv /\ Fails => InstalledInv'
    BY EndsInstalled DEF Fails, diskVars, Installed

\* bootstrap.sh makes what is missing.
LEMMA BootstrapInstalled ==
    ASSUME TypeInv, FlagInv, InstalledInv, BootstrapGenerator \/ BootstrapBuilder
    PROVE  InstalledInv'
<1>1. CASE Fails
    BY <1>1, FailsInstalled
<1>2. CASE ~Fails
  <2>1. UNCHANGED <<snap, manifest, spoilt, info, me, generator, step>> /\ pc' \in {"bootstrap", "exec"}
      BY <1>2 DEF BootstrapGenerator, BootstrapBuilder, Goto, diskVars, memVars
  <2>2. \A s \in Own : Exists(bootstrap[s]) => bootstrap'[s] = bootstrap[s]
      BY <1>2 DEF BootstrapGenerator, BootstrapBuilder, diskVars, Exists, TypeInv, TypeOK, LocalsOK
  <2>3. \A s \in Own : Installed(s) => Installed(s)' \/ ~Says(manifest.of, s)
      BY <2>1, <2>2, InstalledExists DEF Installed
  <2> QED BY <2>1, <2>3, FrameInstalled DEF Loaded, Generated, Replacing
<1> QED BY <1>1, <1>2

\* The generator that makes new copies is the installed one.
LEMMA GeneratesInstalled ==
    ASSUME TypeInv, InstalledInv,
           \/ pc = "bootstrap" /\ Generates("bootstrap_builder")
           \/ pc = "generate" /\ Generates("self")
    PROVE  InstalledInv'
<1>1. CASE Fails
    BY <1>1, FailsInstalled
<1>2. CASE ~Fails
  <2>1. /\ snap' = src /\ generator' = bootstrap[Generator]
        /\ UNCHANGED <<manifest, bootstrap, spoilt, info, me, step>>
        /\ \/ pc = "bootstrap" /\ pc' = "bootstrap_builder"
           \/ pc = "generate" /\ pc' = "self"
      BY <1>2 DEF Generates, Goto
  <2>2. ASSUME NEW t \in Target, NEW m \in {manifest.of, info}, m[t].ver = src[t]
        PROVE  src[t] = snap[t]
    <3>1. m[t].ver <= snap[t] /\ snap[t] <= src[t]
        BY DEF TypeInv, VersionsGrow
    <3> QED BY <2>2, <3>1, SnapType DEF TypeInv
  <2>3. \A s \in Own : /\ Says(manifest.of, s)' => Says(manifest.of, s) /\ src[s] = snap[s]
                       /\ Says(info, s)' => Says(info, s) /\ src[s] = snap[s]
      BY <2>1, <2>2 DEF Says, Target
  <2>4. \A s \in Own : Installed(s) /\ src[s] = snap[s] => Installed(s)'
      BY <2>1 DEF Installed
  <2>5. FileInstalled'
      BY <2>3, <2>4 DEF InstalledInv, FileInstalled
  <2>6. MemoryInstalled'
      BY <2>1, <2>3, <2>4 DEF InstalledInv, MemoryInstalled, Loaded, Generated, Replacing
  <2>7. RunsInstalled'
      BY <2>1 DEF InstalledInv, RunsInstalled
  <2>8. SelfIsBuilt'
      BY <2>1 DEF InstalledInv, SelfIsBuilt
  <2> QED BY <2>5, <2>6, <2>7, <2>8 DEF InstalledInv
<1> QED BY <1>1, <1>2

\* The builder that loads the manifest is the installed one.
LEMMA LoadInstalled ==
    ASSUME TypeInv, InstalledInv, Load
    PROVE  InstalledInv'
<1>1. CASE Fails
    BY <1>1, FailsInstalled
<1>2. CASE ~Fails
  <2>1. /\ me' = bootstrap[Self] /\ info' = manifest.of /\ step' = 1 /\ pc' = "generate"
        /\ UNCHANGED <<snap, manifest, bootstrap, spoilt>>
      BY <1>2 DEF Load, Goto, diskVars
  <2>2. FileInstalled' /\ MemoryInstalled'
      BY <2>1 DEF InstalledInv, FileInstalled, MemoryInstalled, Installed, Says
  <2> QED BY <2>1, <2>2 DEF InstalledInv, RunsInstalled, SelfIsBuilt
<1> QED BY <1>1, <1>2

\* main goes past an own target only when it is said to be built.
LEMMA LookInstalled ==
    ASSUME TypeInv, InstalledInv, SelfLook
    PROVE  InstalledInv'
<1>1. CASE Fails
    BY <1>1, FailsInstalled
<1>2. CASE ~Fails
  <2>1. /\ pc = "self" /\ step <= Len(SelfTargets) /\ get_pp(Current) # NoInfo
        /\ info' = [info EXCEPT ![Current] = get_pp(Current)]
        /\ \/ get_pp(Current).built /\ pc' = "self" /\ step' = step + 1
           \/ step' = step /\ pc' = "self_build"
        /\ UNCHANGED <<snap, manifest, bootstrap, spoilt, me, generator>>
      BY <1>2 DEF SelfLook, Goto, diskVars
  <2>2. Current \in Target /\ snap[Current] # None
      BY <2>1, CurrentType DEF TypeInv, LocalsOK, Generated
  <2>3. /\ get_pp(Current).ver = snap[Current]
        /\ Says(info, Current) => get_pp(Current) = info[Current]
        /\ get_pp(Current).built => get_pp(Current) = info[Current] /\ Says(info, Current)
      BY <2>1, <2>2, GetPP DEF TypeInv, Says
  <2>4. /\ info'[Current] = get_pp(Current)
        /\ \A t \in Target : t # Current => info'[t] = info[t]
      BY <2>1, <2>2 DEF TypeInv, TypeOK, Infos
  <2>5. \A t \in Own : /\ Says(info, t)' <=> Says(info, t)
                       /\ Says(manifest.of, t)' <=> Says(manifest.of, t)
                       /\ Installed(t)' <=> Installed(t)
      BY <2>1, <2>3, <2>4 DEF Says, Installed, Target
  <2>6. FileInstalled'
      BY <2>5 DEF InstalledInv, FileInstalled
  <2>7. MemoryInstalled'
      BY <2>1, <2>5 DEF InstalledInv, MemoryInstalled, Loaded, Generated
  <2>8. RunsInstalled'
      BY <2>1 DEF InstalledInv, RunsInstalled
  <2>9. ASSUME pc' = "self", NEW k \in 1 .. step' - 1 PROVE Says(info, SelfTargets[k])'
    <3>1. step' = step + 1 /\ Says(info, SelfTargets[step])
        BY <2>1, <2>3, <2>9 DEF Current
    <3>2. step \in 1 .. 2 /\ SelfTargets[step] \in Own
        BY <2>1, CurrentType DEF TypeInv, Current
    <3>3. CASE k = step
        BY <2>5, <3>1, <3>2, <3>3
    <3>4. CASE k # step
      <4>1. k \in 1 .. step - 1
          BY <3>1, <3>2, <3>4
      <4>2. Says(info, SelfTargets[k]) /\ SelfTargets[k] \in Own
          BY <2>1, <4>1, OwnSteps DEF InstalledInv, SelfIsBuilt, TypeInv
      <4> QED BY <2>5, <4>2
    <3> QED BY <3>3, <3>4
  <2>10. SelfIsBuilt'
      BY <2>1, <2>9 DEF SelfIsBuilt
  <2> QED BY <2>6, <2>7, <2>8, <2>10 DEF InstalledInv
<1> QED BY <1>1, <1>2

\* An own target is compiled, its installed binary removed and replaced.
LEMMA ReplaceInstalled ==
    ASSUME TypeInv, FlagInv, InstalledInv, SelfBuild \/ SelfRemove \/ SelfCopy
    PROVE  InstalledInv'
<1>1. CASE Fails
    BY <1>1, FailsInstalled
<1>2. CASE ~Fails
  <2>1. /\ pc \in Replacing /\ pc' \in Replacing \ {"self_build"}
        /\ pc' = "self_save" <=> pc = "self_copy"
        /\ UNCHANGED <<snap, manifest, step>>
        /\ pc # "self_build" => UNCHANGED info
        /\ pc = "self_copy" => SelfCopy
      BY <1>2 DEF SelfBuild, SelfRemove, SelfCopy, Goto, Replacing, memVars
  <2>2. /\ Current \in Own /\ Current' = Current /\ pc \in Loaded
        /\ info[Current].ver = snap[Current] /\ ~Says(manifest.of, Current)
        /\ info[Current].built = (pc # "self_build")
      BY <2>1, CurrentType DEF TypeInv, LocalsOK, FlagInv, ReplacedIsMarked, Current, Loaded, Generated
  <2>3. \A s \in Own : s # Current => /\ Installed(s) => Installed(s)'
                                      /\ Says(info, s)' => Says(info, s)
    <3> SUFFICES ASSUME NEW s \in Own, s # Current
                 PROVE  /\ bootstrap'[s] = bootstrap[s] /\ (s \in spoilt => s \in spoilt')
                        /\ info'[s] = info[s]
        BY <2>1 DEF Installed, Says
    <3> QED BY <1>2, <2>2 DEF SelfBuild, SelfRemove, SelfCopy, TypeInv, TypeOK, memVars, Infos, Target
  <2>4. \A s \in Own : Says(manifest.of, s)' => Says(manifest.of, s) /\ s # Current
      BY <2>1, <2>2 DEF Says
  <2>5. FileInstalled'
      BY <2>3, <2>4 DEF InstalledInv, FileInstalled
  <2>6. ASSUME pc' = "self_save", NEW s \in Own, s = Current PROVE Installed(s)'
    <3>1. /\ bootstrap' = [bootstrap EXCEPT ![Current] = artifact[Current]]
          /\ UNCHANGED <<snap, spoilt>>
        BY <2>1, <2>6 DEF SelfCopy
    <3>2. Says(info, s) /\ s \in Target
        BY <2>1, <2>2, <2>6 DEF Says, Target
    <3>3. There(s)
        BY <3>2 DEF FlagInv, SaidIsThere
    <3> QED BY <2>6, <3>1, <3>3 DEF There, Installed, TypeInv, TypeOK
  <2>7. MemoryInstalled'
      BY <2>1, <2>2, <2>3, <2>6 DEF InstalledInv, MemoryInstalled, Replacing
  <2>8. RunsInstalled' /\ SelfIsBuilt'
      BY <2>1 DEF RunsInstalled, SelfIsBuilt, Replacing
  <2> QED BY <2>5, <2>7, <2>8 DEF InstalledInv
<1> QED BY <1>1, <1>2

\* The file says so only after the replacement.
LEMMA SaveInstalled ==
    ASSUME TypeInv, InstalledInv, SelfSave
    PROVE  InstalledInv'
<1>1. /\ pc = "self_save" /\ pc' = "exec" /\ manifest' = File(info)
      /\ UNCHANGED <<snap, bootstrap, spoilt>>
    BY DEF SelfSave, Saved, Goto
<1>2. \A s \in Own : Says(info, s) => Installed(s)
    BY <1>1 DEF InstalledInv, MemoryInstalled, Loaded, Generated, Replacing
<1>3. FileInstalled'
    BY <1>1, <1>2 DEF FileInstalled, Says, Installed, File
<1> QED BY <1>1, <1>3 DEF InstalledInv, MemoryInstalled, RunsInstalled, SelfIsBuilt,
                          Loaded, Generated, Replacing

\* By the time the targets are picked, both own targets are up to date.
LEMMA PickInstalled ==
    ASSUME TypeInv, InstalledInv, PickTargets
    PROVE  InstalledInv'
<1>1. /\ pc = "self" /\ step > Len(SelfTargets) /\ pc' = "work"
      /\ info' = [t \in Target |-> IF t \in requested THEN get_pp(t) ELSE info[t]]
      /\ UNCHANGED <<snap, manifest, bootstrap, spoilt, me, generator, step>>
    BY DEF PickTargets, Goto, diskVars
<1>2. \A s \in Own : info'[s] = info[s]
    BY <1>1, UserHasOthers DEF TypeInv, TypeOK, Target
<1>3. \A s \in Own : /\ Says(info, s)' <=> Says(info, s)
                     /\ Says(manifest.of, s)' <=> Says(manifest.of, s)
                     /\ Installed(s)' <=> Installed(s)
    BY <1>1, <1>2 DEF Says, Installed
<1>4. \A s \in Own : Says(info, s)
  <2>1. Len(SelfTargets) = 2 /\ Own = {SelfTargets[1], SelfTargets[2]}
      BY DEF SelfTargets, Own
  <2>2. 1 \in 1 .. step - 1 /\ 2 \in 1 .. step - 1
      BY <1>1, <2>1, OwnSteps DEF TypeInv
  <2> QED BY <1>1, <2>1, <2>2 DEF InstalledInv, SelfIsBuilt
<1>5. FileInstalled'
    BY <1>3 DEF InstalledInv, FileInstalled
<1>6. MemoryInstalled'
    BY <1>1, <1>3 DEF InstalledInv, MemoryInstalled, Loaded, Generated
<1>7. RunsInstalled'
    BY <1>1 DEF InstalledInv, RunsInstalled
<1>8. SelfIsBuilt'
    BY <1>1, <1>3, <1>4 DEF SelfIsBuilt
<1> QED BY <1>5, <1>6, <1>7, <1>8 DEF InstalledInv

\* A killed run leaves half a binary only where nothing is said to be built, or none was.
LEMMA DieInstalled ==
    ASSUME TypeInv, FlagInv, InstalledInv, Die
    PROVE  InstalledInv'
<1>1. /\ Ends /\ UNCHANGED <<snap, spoilt>>
      /\ manifest' \in {manifest, TornFile}
    BY DEF Die, editVars
<1>2. \A s \in Own : s \notin BeingInstalled => bootstrap'[s] = bootstrap[s]
    BY DEF Die, MaybeTorn, TypeInv, TypeOK
<1>3. ASSUME NEW s \in Own, s \in BeingInstalled PROVE Says(manifest.of, s) => s \in spoilt
  <2>1. CASE pc = "self_copy"
    <3>1. s = Current
        BY <1>3, <2>1 DEF BeingInstalled
    <3> QED BY <2>1, <3>1 DEF FlagInv, ReplacedIsMarked, Replacing
  <2>2. CASE pc \in {"bootstrap_generator", "bootstrap_builder"}
    <3>1. ~Exists(bootstrap[s])
        BY <1>3, <2>2 DEF BeingInstalled, TypeInv, LocalsOK, Exists
    <3> QED BY <3>1, InstalledExists
  <2> QED BY <1>3, <2>1, <2>2 DEF BeingInstalled
<1>4. \A s \in Own : Says(manifest.of, s)' => Says(manifest.of, s)
    BY <1>1 DEF Says, TornFile, Empty, NoInfo, Target
<1>5. \A s \in Own : Installed(s) => Installed(s)' \/ ~Says(manifest.of, s)'
    BY <1>1, <1>2, <1>3, <1>4 DEF Installed
<1> QED BY <1>1, <1>5, EndsInstalled

\* Every step keeps the installed binaries those that are said to be built.
LEMMA NextInstalled == TypeInv /\ FlagInv /\ InstalledInv /\ [Next]_vars => InstalledInv'
<1> SUFFICES ASSUME TypeInv, FlagInv, InstalledInv, [Next]_vars PROVE InstalledInv'
    OBVIOUS
<1>1. CASE Repair
  <2>1. /\ pc = "idle" /\ pc' = "idle" /\ UNCHANGED <<snap, spoilt, info, me, generator, step>>
        /\ manifest'.of = manifest.of
        /\ \A s \in Own : bootstrap'[s] = bootstrap[s] \/ (bootstrap[s] = Torn /\ bootstrap'[s] = None)
      BY <1>1 DEF Repair, memVars, NoFile, TornFile, TypeInv, TypeOK
  <2>2. \A s \in Own : Installed(s) => Installed(s)'
    <3>1. \A s \in Own : snap[s] # Torn
        BY MaxEditsIsNatural DEF TypeInv, TypeOK, Target, Versions, Torn, None
    <3> QED BY <2>1, <3>1 DEF Installed
  <2> QED BY <2>1, <2>2, FrameInstalled DEF Loaded, Generated, Replacing
<1>2. CASE \/ Beside /\ ~Repair
           \/ \E T \in SUBSET User : Run(T)
           \/ BootstrapGenerate /\ Exists(bootstrap[Self])
           \/ \E t \in User : Take(t)
           \/ Join
           \/ UNCHANGED vars
  <2>1. /\ UNCHANGED <<snap, manifest, bootstrap, info, me, generator, step>>
        /\ spoilt \subseteq spoilt'
      BY <1>2 DEF Beside, Edit, RemoveArtifact, OrphanEnds, Run, BootstrapGenerate, Take, Join,
                  vars, editVars, diskVars, memVars
  <2>2. pc' = pc \/ pc' \notin Loaded \/ (pc = "work" /\ pc' = "save")
      BY <1>2 DEF Beside, Edit, RemoveArtifact, OrphanEnds, Run, BootstrapGenerate, Take, Join,
                  Goto, vars, Loaded, Generated, Replacing
  <2> QED BY <2>1, <2>2, FrameInstalled DEF Installed
<1>3. ASSUME NEW t \in User, Compiled(t) PROVE InstalledInv'
  <2>1. /\ pc' = pc /\ UNCHANGED <<snap, manifest, bootstrap, me, generator, step>>
        /\ info' = [info EXCEPT ![t].built = Compiles(snap[t])]
        /\ spoilt' \in {spoilt, spoilt \ {t}}
      BY <1>3 DEF Compiled, Flagged
  <2>2. \A s \in Own : s # t /\ info'[s] = info[s]
      BY <2>1, UserHasOthers DEF TypeInv, TypeOK, Infos, Target
  <2> QED BY <2>1, <2>2, FrameInstalled DEF Installed
<1>4. CASE Save
  <2>1. Ends /\ manifest' = File(info) /\ pc = "save" /\ UNCHANGED <<snap, bootstrap, spoilt>>
      BY <1>4 DEF Save, Saved
  <2> QED BY <2>1, EndsInstalled DEF Installed
<1>5. CASE Build
    BY <1>2, <1>3, <1>4, <1>5, FailsInstalled, BootstrapInstalled, GeneratesInstalled, LoadInstalled,
       LookInstalled, ReplaceInstalled, SaveInstalled, PickInstalled
       DEF Build, BootstrapGenerate, Generate, PickFails
<1> QED BY <1>1, <1>2, <1>5, DieInstalled DEF Next

\* The inductive invariant behind SelfIsCurrent.
LEMMA InstalledInvariant == Spec => []InstalledInv
<1>1. Init => InstalledInv
  <2> SUFFICES ASSUME Init PROVE InstalledInv
      OBVIOUS
  <2>1. \A s \in Own : ~Says(manifest.of, s)
      BY DEF Init, Says, NoFile, Empty, NoInfo, Target
  <2> QED BY <2>1 DEF Init, InstalledInv, FileInstalled, MemoryInstalled, RunsInstalled, SelfIsBuilt,
                      Loaded, Generated, Replacing
<1> QED BY <1>1, NextInstalled, TypeCorrect, FlagInvariant, PTL DEF Spec

\* Targets are compiled by a builder and from copies by a generator of the very sources
\* that are being built, however often earlier runs were killed while replacing them.
THEOREM SelfIsCurrentHolds == Spec => []SelfIsCurrent
<1>1. InstalledInv => SelfIsCurrent
    BY DEF InstalledInv, MemoryInstalled, RunsInstalled, SelfIsBuilt, Installed, SelfIsCurrent,
           Loaded, Generated, Own
<1> QED BY <1>1, InstalledInvariant, PTL

-----------------------------------------------------------------------------
(* Nothing is compiled twice, unless a run is killed.                      *)

\* Steps that make no binary, and forget none.
LEMMA FrameKnown ==
    ASSUME KnownInv, UNCHANGED <<snap, orphans>>,
           \A t \in Target : artifact'[t] = artifact[t] \/ artifact'[t] = None,
           \A t \in Target : None <= snap[t],
           pc' \in Loaded => pc \in Loaded /\ \A t \in Target : Says(info, t) => Says(info, t)',
           \/ manifest'.of = manifest.of
              /\ (\/ pc \notin {"self_remove", "self_copy", "self_save", "work", "save"}
                  \/ pc' \in {"self_remove", "self_copy", "self_save", "work", "save"})
           \/ manifest' = File(info) /\ pc \in Loaded
    PROVE  KnownInv'
<1>1. BinariesAreOld'
    BY DEF KnownInv, BinariesAreOld
<1>2. \A t \in Target : Here(t)' => Here(t)
    BY DEF Here
<1>3. MemoryHas'
    BY <1>2 DEF KnownInv, MemoryHas
<1>4. FileHas'
    BY <1>2 DEF KnownInv, FileHas, MemoryHas, Says, File
<1> QED BY <1>1, <1>3, <1>4 DEF KnownInv

\* A run that panics has made no binary since it loaded the manifest.
LEMMA FailsKnown ==
    ASSUME TypeInv, KnownInv, Fails, UNCHANGED orphans,
           pc \notin {"self_remove", "self_copy", "self_save", "work", "save"}
    PROVE  KnownInv'
<1>1. pc' = "idle" /\ UNCHANGED diskVars
    BY DEF Fails, Ends, Goto
<1> QED BY <1>1, FrameKnown, SnapType DEF TypeInv, diskVars, Loaded, Generated, Replacing

\* A binary of new copies was one of the old ones.
LEMMA GeneratesKnown ==
    ASSUME TypeInv, KnownInv, UNCHANGED orphans,
           \/ pc = "bootstrap" /\ Generates("bootstrap_builder")
           \/ pc = "generate" /\ Generates("self")
    PROVE  KnownInv'
<1>1. CASE Fails
    BY <1>1, FailsKnown
<1>2. CASE ~Fails
  <2>1. /\ snap' = src
        /\ UNCHANGED <<manifest, artifact, info>>
        /\ \/ pc = "bootstrap" /\ pc' = "bootstrap_builder"
           \/ pc = "generate" /\ pc' = "self"
      BY <1>2 DEF Generates, Goto
  <2>2. \A t \in Target : /\ artifact[t] <= snap[t] /\ snap[t] <= src[t] /\ artifact[t] \in Int
                          /\ snap[t] \in Int /\ src[t] \in Int
    <3>1. \A t \in Target : artifact[t] \in Int
        BY VersionType DEF TypeInv, TypeOK, Torn
    <3> QED BY <3>1, SnapType DEF TypeInv, VersionsGrow, KnownInv, BinariesAreOld
  <2>3. BinariesAreOld'
      BY <2>1, <2>2 DEF KnownInv, BinariesAreOld
  <2>4. \A t \in Target : Here(t)' => /\ Here(t)
                                      /\ Says(manifest.of, t) => Says(manifest.of, t)'
                                      /\ Says(info, t) => Says(info, t)'
    <3> SUFFICES ASSUME NEW t \in Target, artifact[t] = src[t] PROVE snap[t] = src[t] /\ src[t] # None
        BY <2>1 DEF Here, Says
    <3>1. src[t] # None
        BY MaxEditsIsNatural DEF TypeInv, TypeOK, Versions, None
    <3> QED BY <2>2, <3>1
  <2>5. MemoryHas' /\ FileHas'
      BY <2>1, <2>4 DEF KnownInv, MemoryHas, FileHas, Loaded, Generated, Replacing
  <2> QED BY <2>3, <2>5 DEF KnownInv
<1> QED BY <1>1, <1>2

\* Loading, looking up and picking find what the file and memory know.
LEMMA LookKnown ==
    ASSUME TypeInv, KnownInv, UNCHANGED orphans, Load \/ SelfLook \/ PickTargets
    PROVE  KnownInv'
<1>1. CASE Fails
    BY <1>1, FailsKnown DEF Load, SelfLook, PickTargets
<1>2. CASE Load /\ ~Fails
    BY <1>2 DEF Load, Goto, diskVars, KnownInv, BinariesAreOld, MemoryHas, FileHas, Here, Says
<1>3. CASE (SelfLook \/ PickTargets) /\ ~Fails
  <2>1. pc = "self" /\ UNCHANGED diskVars /\ pc' \in {"self", "self_build", "work"}
      BY <1>3 DEF SelfLook, PickTargets, Goto
  <2>2. \A t \in Target : info'[t] \in {info[t], get_pp(t)}
      BY <1>3, CurrentType DEF SelfLook, PickTargets, TypeInv, TypeOK, Infos
  <2>3. \A t \in Target : Says(info, t) => Says(info, t)'
      BY <2>1, <2>2, GetPP DEF TypeInv, LocalsOK, Generated, Says, diskVars
  <2> QED BY <2>1, <2>3, FrameKnown, SnapType DEF TypeInv, diskVars, Loaded, Generated
<1> QED BY <1>1, <1>2, <1>3

\* A binary that is made is flagged in the same step.
LEMMA CompiledKnown ==
    ASSUME TypeInv, FlagInv, KnownInv, UNCHANGED orphans,
           \/ ~Fails /\ SelfBuild
           \/ \E t \in User : Compiled(t)
    PROVE  KnownInv'
<1>1. PICK c \in Target : /\ ~Says(info, c) /\ info[c].ver = snap[c] /\ pc \in Loaded
                          /\ info' = [info EXCEPT ![c].built = Compiles(snap[c])]
                          /\ \A t \in Target : t # c => artifact'[t] = artifact[t]
                          /\ \/ artifact'[c] = snap[c] /\ Compiles(snap[c])
                             \/ artifact'[c] \in {artifact[c], None}
                          /\ UNCHANGED <<snap, manifest>>
                          /\ pc' \in {"self_remove", "work"}
  <2>1. CASE ~Fails /\ SelfBuild
    <3>1. /\ pc = "self_build" /\ pc' = "self_remove" /\ Compiles(snap[Current])
          /\ artifact' = [artifact EXCEPT ![Current] = snap[Current]]
          /\ info' = [info EXCEPT ![Current].built = TRUE]
          /\ UNCHANGED <<snap, manifest>>
        BY <2>1 DEF SelfBuild, Goto
    <3>2. Current \in Target /\ info[Current].ver = snap[Current] /\ ~Says(info, Current)
        BY <3>1, CurrentType DEF TypeInv, LocalsOK, FlagInv, ReplacedIsMarked, Replacing, Says
    <3>3. Compiles(snap[Current]) = TRUE
        BY <3>1 DEF Compiles
    <3> QED BY <3>1, <3>2, <3>3 DEF TypeInv, TypeOK, Loaded, Generated, Replacing
  <2>2. CASE \E t \in User : Compiled(t)
    <3>1. PICK t \in User : Compiled(t)
        BY <2>2
    <3>2. /\ pc = "work" /\ pc' = "work" /\ t \in busy
          /\ info' = [info EXCEPT ![t].built = Compiles(snap[t])]
          /\ \/ artifact' = [artifact EXCEPT ![t] = snap[t]] /\ Compiles(snap[t])
             \/ artifact' \in {artifact, [artifact EXCEPT ![t] = None]}
          /\ UNCHANGED <<snap, manifest>>
        BY <3>1 DEF Compiled, Flagged
    <3>3. t \in Target /\ info[t].ver = snap[t] /\ ~Says(info, t)
        BY <3>2 DEF Target, FlagInv, WorkIsUnbuilt, Says
    <3> QED BY <3>2, <3>3 DEF TypeInv, TypeOK, Loaded, Generated
  <2> QED BY <2>1, <2>2
<1>2. \A t \in Target : None <= snap[t] /\ snap[t] \in Int /\ None \in Int
    BY SnapType DEF TypeInv, None
<1>3. ~Here(c)
    BY <1>1 DEF KnownInv, MemoryHas
<1>4. /\ info'[c].built = Compiles(snap[c]) /\ info'[c].ver = info[c].ver
      /\ \A t \in Target : t # c => info'[t] = info[t]
    BY <1>1 DEF TypeInv, TypeOK, Infos
<1>5. BinariesAreOld'
    BY <1>1, <1>2 DEF KnownInv, BinariesAreOld
<1>6. MemoryHas'
  <2> SUFFICES ASSUME NEW t \in Target, Here(t)' PROVE Says(info, t)'
      BY DEF MemoryHas
  <2>1. CASE t # c
      BY <1>1, <1>4, <2>1 DEF KnownInv, MemoryHas, Here, Says
  <2>2. CASE t = c
    <3>1. Compiles(snap[c])
        BY <1>1, <1>3, <2>2 DEF Here
    <3> QED BY <1>1, <1>4, <2>2, <3>1 DEF Says
  <2> QED BY <2>1, <2>2
<1>7. FileHas'
    BY <1>1 DEF FileHas
<1> QED BY <1>5, <1>6, <1>7 DEF KnownInv

\* Every step but a kill keeps the binaries known.
LEMMA NextKnown ==
    ASSUME "die" \notin Fault, TypeInv, FlagInv, KnownInv, [Next]_vars
    PROVE  KnownInv'
<1> USE DEF Loaded, Generated, Replacing
<1>0. /\ ~Die /\ orphans = {}
      /\ \A t \in Target : None <= snap[t]
    BY SnapType DEF Die, KnownInv, BinariesAreOld, TypeInv
<1>1. CASE Beside
  <2>1. UNCHANGED <<snap, info, pc>>
      BY <1>1 DEF Beside, Edit, RemoveArtifact, Repair, OrphanEnds, diskVars, memVars
  <2>2. manifest'.of = manifest.of
      BY <1>1 DEF Beside, Edit, RemoveArtifact, Repair, OrphanEnds, diskVars, TornFile, NoFile
  <2>3. /\ \A t \in Target : artifact'[t] = artifact[t] \/ artifact'[t] = None
        /\ UNCHANGED orphans
      BY <1>0, <1>1 DEF Beside, Edit, RemoveArtifact, Repair, diskVars, TypeInv, TypeOK
  <2> QED BY <1>0, <2>1, <2>2, <2>3, FrameKnown DEF Says
<1>2. CASE /\ UNCHANGED orphans
           /\ \/ \E T \in SUBSET User : Run(T)
              \/ ~Fails /\ (BootstrapGenerator \/ BootstrapBuilder)
              \/ BootstrapGenerate /\ Exists(bootstrap[Self])
              \/ SelfRemove \/ SelfCopy \/ Join
              \/ \E t \in User : Take(t)
              \/ UNCHANGED vars
  <2>1. UNCHANGED <<snap, manifest, artifact, info>>
      BY <1>2 DEF Run, BootstrapGenerator, BootstrapBuilder, BootstrapGenerate, SelfRemove, SelfCopy,
                  Join, Take, vars, diskVars, memVars
  <2>2. /\ pc' \in Loaded => pc \in Loaded
        /\ \/ pc \notin {"self_remove", "self_copy", "self_save", "work", "save"}
           \/ pc' \in {"self_remove", "self_copy", "self_save", "work", "save"}
      BY <1>2 DEF Run, BootstrapGenerator, BootstrapBuilder, BootstrapGenerate, SelfRemove, SelfCopy,
                  Join, Take, Goto, vars
  <2> QED BY <1>0, <1>2, <2>1, <2>2, FrameKnown DEF Says
<1>3. CASE (SelfSave \/ Save) /\ UNCHANGED orphans
  <2>1. /\ manifest' = File(info) /\ UNCHANGED <<snap, artifact>>
        /\ pc \in Loaded /\ pc' \notin Loaded
      BY <1>3 DEF SelfSave, Save, Saved, Ends, Goto
  <2> QED BY <1>0, <1>3, <2>1, FrameKnown
<1>4. CASE Build
  <2>1. UNCHANGED orphans
      BY <1>4 DEF Build
  <2> QED BY <1>2, <1>3, <1>4, <2>1, FailsKnown, GeneratesKnown, LookKnown, CompiledKnown
          DEF Build, BootstrapGenerator, BootstrapBuilder, BootstrapGenerate, Generate, SelfBuild,
              PickFails
<1> QED BY <1>0, <1>1, <1>2, <1>4 DEF Next, vars

\* The inductive invariant behind NothingIsBuiltTwice.
LEMMA KnownInvariant ==
    ASSUME "die" \notin Fault
    PROVE  Spec => []KnownInv
<1>1. Init => KnownInv
    BY DEF Init, KnownInv, BinariesAreOld, MemoryHas, FileHas, Here, None
<1>2. TypeInv /\ FlagInv /\ KnownInv /\ [Next]_vars => KnownInv'
    BY NextKnown
<1> QED BY <1>1, <1>2, TypeCorrect, FlagInvariant, PTL DEF Spec

\* As long as no run is killed no compiler is started for a target whose binary is there:
\* failed siblings, panics, re-executions and removed binaries make no flag go missing.
THEOREM NothingIsBuiltTwiceHolds ==
    ASSUME "die" \notin Fault
    PROVE  Spec => NothingIsBuiltTwice
<1>1. TypeInv /\ KnownInv /\ [Next]_vars => [\A t \in busy' \ busy : artifact[t] # snap[t]]_vars
  <2> SUFFICES ASSUME TypeInv, KnownInv, Next, NEW t \in busy' \ busy PROVE artifact[t] # snap[t]
      OBVIOUS
  <2>1. Take(t)
      BY DEF Next, Beside, Edit, RemoveArtifact, Repair, OrphanEnds, Run, Build, BootstrapGenerator,
             BootstrapBuilder, BootstrapGenerate, Generates, Load, Generate, SelfLook, SelfBuild,
             SelfRemove, SelfCopy, SelfSave, PickTargets, PickFails, Take, Compiled, Join, Save, Die,
             Fails, Ends, memVars
  <2>2. pc = "work" /\ t \in todo /\ ~info[t].built
      BY <2>1 DEF Take
  <2>3. t \in Target /\ snap[t] # None
      BY <2>2 DEF TypeInv, TypeOK, LocalsOK, Generated, Target
  <2>4. ~Here(t)
      BY <2>2, <2>3 DEF KnownInv, MemoryHas, Says, Loaded, Generated
  <2> QED BY <2>3, <2>4 DEF Here
<1> QED BY <1>1, TypeCorrect, KnownInvariant, PTL DEF Spec, NothingIsBuiltTwice

=============================================================================
