----------------------------- MODULE SourceSync -----------------------------
(***************************************************************************)
(* generate_build_sources (src/ivl/build_system/generate_build_sources.cpp)*)
(* keeps a copy of every source under build/source_copy, current exactly   *)
(* when it has the mtime of its source, and links the copies into          *)
(* build/include_dirs, which is what the builder compiles.  Meanwhile the  *)
(* sources may be edited, and the program may die between any two steps.   *)
(*                                                                         *)
(* A version of a source is named by its mtime: each edit gets a time of   *)
(* its own.  One generator runs at a time (nothing locks build/).          *)
(***************************************************************************)
EXTENDS Integers, FiniteSets

CONSTANTS File,     \* paths that may hold a source
          MaxEdits  \* bound on edits, so that times are finite

ASSUME FileIsFinite == IsFiniteSet(File)
ASSUME MaxEditsIsNatural == MaxEdits \in Nat

VARIABLES
  src,      \* [File -> version there, or None]
  past,     \* [File -> its versions so far; backups may come back]
  now,      \* the time of the next edit
  pc,       \* where the generator is
  infiles,  \* sources found
  todo,     \* files the current loop has still to visit
  cur,      \* locals of sync_file
  copy,     \* [File -> its copy, or Missing]
  linked,   \* [File -> what include_dirs has for it, or Missing]
  during,   \* [File -> versions it had during the run, None when absent (history)]
  outcome   \* how the last run ended

editVars == <<src, past, now, during>>
vars == <<editVars, pc, infiles, todo, cur, copy, linked, outcome>>

None == 0
Versions == 1 .. MaxEdits

\* A copy being written carries the time it was opened, which no version has.
OwnTime == -1
Torn == -2

Missing == [content |-> None, mtime |-> None]
Copies == [content : Versions \cup {None, Torn}, mtime : Versions \cup {None, OwnTime}]

NoFile == [file |-> None, lwt_start |-> None, read |-> None]

Present(dir) == {f \in File : dir[f] # Missing}

-----------------------------------------------------------------------------
(* The editor.                                                             *)

\* v is what the file now is; a run under way takes note.
Becomes(f, v) ==
    /\ src' = [src EXCEPT ![f] = v]
    /\ during' = IF pc = "idle" THEN during ELSE [during EXCEPT ![f] = @ \cup {v}]
    /\ UNCHANGED <<pc, infiles, todo, cur, copy, linked, outcome>>

Edit(f) ==
    /\ now <= MaxEdits
    /\ past' = [past EXCEPT ![f] = @ \cup {now}]
    /\ now' = now + 1
    /\ Becomes(f, now)

Delete(f) ==
    /\ src[f] # None
    /\ Becomes(f, None)
    /\ UNCHANGED <<past, now>>

\* A backup is moved back with its old mtime, between runs only: inside one, the
\* two looks at the mtime in sync_file could not tell.
Restore(f) ==
    /\ pc = "idle"
    /\ \E v \in past[f] : Becomes(f, v)
    /\ UNCHANGED <<past, now>>

-----------------------------------------------------------------------------
(* The generator.                                                          *)

Ends(how) ==
    /\ pc' = "idle"
    /\ outcome' = how
    /\ infiles' = {}
    /\ todo' = {}
    /\ cur' = NoFile

\* An assertion fails or a filesystem call throws, which ends the program.
Fails == Ends("failed") /\ UNCHANGED <<editVars, copy, linked>>

\* find_sources, and find_files of what is there already.
Start ==
    /\ pc = "idle"
    /\ infiles' = {f \in File : src[f] # None}
    /\ todo' = Present(copy)
    /\ pc' = "purge"
    /\ during' = [f \in File |-> {src[f]}]
    /\ outcome' = "none"
    /\ UNCHANGED <<src, past, now, cur, copy, linked>>

\* Faulty: looks at the mtime first.
SourceVanishedUnlisted(f) == src[f] = None

\* last_write_time throws for a source deleted since it was listed.
SourceVanished(f) == f \in infiles /\ src[f] = None

\* Faulty: trusts a copy that is newer.
OutdatedByAge(f) == f \notin infiles \/ (copy[f].mtime # OwnTime /\ copy[f].mtime < src[f])

Outdated(f) == f \notin infiles \/ copy[f].mtime # src[f]

Purge(f) ==
    /\ pc = "purge"
    /\ f \in todo
    /\ IF SourceVanished(f) THEN Fails
       ELSE /\ copy' = IF Outdated(f) THEN [copy EXCEPT ![f] = Missing] ELSE copy
            /\ todo' = todo \ {f}
            /\ UNCHANGED <<editVars, pc, infiles, cur, linked, outcome>>

PurgeEnds ==
    /\ pc = "purge"
    /\ todo = {}
    /\ todo' = infiles
    /\ pc' = "sync"
    /\ UNCHANGED <<editVars, infiles, cur, copy, linked, outcome>>

\* Faulty: writes what is there already again.
CopiedNever(f) == FALSE

Copied(f) == copy[f] # Missing

\* sync_file up to its early return.
Stat(f) ==
    /\ pc = "sync"
    /\ f \in todo
    /\ IF src[f] = None THEN Fails
       ELSE /\ todo' = todo \ {f}
            /\ IF Copied(f) THEN UNCHANGED <<pc, cur>>
               ELSE /\ cur' = [NoFile EXCEPT !.file = f, !.lwt_start = src[f]]
                    /\ pc' = "open"
            /\ UNCHANGED <<editVars, infiles, copy, linked, outcome>>

\* The source is opened and mapped, the target created.
Open ==
    /\ pc = "open"
    /\ IF src[cur.file] = None THEN Fails
       ELSE /\ cur' = [cur EXCEPT !.read = src[cur.file]]
            /\ copy' = [copy EXCEPT ![cur.file] = [content |-> Torn, mtime |-> OwnTime]]
            /\ pc' = "copy"
            /\ UNCHANGED <<editVars, infiles, todo, linked, outcome>>

\* A source edited in place meanwhile may leave a mixture.
CopyBytes ==
    /\ pc = "copy"
    /\ \E c \in IF src[cur.file] = cur.read THEN {cur.read} ELSE {cur.read, Torn} :
          copy' = [copy EXCEPT ![cur.file].content = c]
    /\ pc' = "stamp"
    /\ UNCHANGED <<editVars, infiles, todo, cur, linked, outcome>>

\* Faulty: the second look at the mtime is not compared with the first.
UndisturbedAlways == src[cur.file] # None

\* lwt_start == lwt_end.
Undisturbed == src[cur.file] = cur.lwt_start

Stamp ==
    /\ pc = "stamp"
    /\ IF ~Undisturbed THEN Fails
       ELSE /\ copy' = [copy EXCEPT ![cur.file].mtime = src[cur.file]]
            /\ cur' = NoFile
            /\ pc' = "sync"
            /\ UNCHANGED <<editVars, infiles, todo, linked, outcome>>

\* Faulty: include_dirs is not removed.
SyncEndsKeeping ==
    /\ pc = "sync"
    /\ todo = {}
    /\ todo' = Present(copy)
    /\ pc' = "link"
    /\ UNCHANGED <<editVars, infiles, cur, copy, linked, outcome>>

\* include_dirs is removed and made anew.
SyncEnds ==
    /\ pc = "sync"
    /\ todo = {}
    /\ linked' = [f \in File |-> Missing]
    /\ todo' = Present(copy)
    /\ pc' = "link"
    /\ UNCHANGED <<editVars, infiles, cur, copy, outcome>>

Link(f) ==
    /\ pc = "link"
    /\ f \in todo
    /\ linked' = [linked EXCEPT ![f] = copy[f]]
    /\ todo' = todo \ {f}
    /\ UNCHANGED <<editVars, pc, infiles, cur, copy, outcome>>

Done ==
    /\ pc = "link"
    /\ todo = {}
    /\ Ends("ok")
    /\ UNCHANGED <<editVars, copy, linked>>

Killed ==
    /\ pc # "idle"
    /\ Ends("killed")
    /\ UNCHANGED <<editVars, copy, linked>>

-----------------------------------------------------------------------------
Init ==
    /\ src = [f \in File |-> None]
    /\ past = [f \in File |-> {}]
    /\ now = 1
    /\ pc = "idle"
    /\ infiles = {}
    /\ todo = {}
    /\ cur = NoFile
    /\ copy = [f \in File |-> Missing]
    /\ linked = [f \in File |-> Missing]
    /\ during = [f \in File |-> {}]
    /\ outcome = "none"

Editor == \E f \in File : Edit(f) \/ Delete(f) \/ Restore(f)

Generator ==
    \/ Start
    \/ \E f \in File : Purge(f) \/ Stat(f) \/ Link(f)
    \/ PurgeEnds \/ Open \/ CopyBytes \/ Stamp \/ SyncEnds \/ Done \/ Killed

Next == Editor \/ Generator

Spec == Init /\ [][Next]_vars

-----------------------------------------------------------------------------
(* Properties.                                                             *)

\* Types of all variables.
TypeOK ==
    /\ src \in [File -> Versions \cup {None}]
    /\ past \in [File -> SUBSET Versions]
    /\ now \in 1 .. MaxEdits + 1
    /\ pc \in {"idle", "purge", "sync", "open", "copy", "stamp", "link"}
    /\ infiles \subseteq File
    /\ todo \subseteq File
    /\ cur \in [file : File \cup {None}, lwt_start : Versions \cup {None},
                read : Versions \cup {None}]
    /\ copy \in [File -> Copies]
    /\ linked \in [File -> Copies]
    /\ during \in [File -> SUBSET (Versions \cup {None})]
    /\ outcome \in {"none", "ok", "failed", "killed"}

\* purge_outdated may trust the mtime: at any moment, also after a run that died
\* or was disturbed, a copy with the mtime of a version has its content.
StampedIsComplete ==
    \A f \in File : copy[f].mtime \in past[f] => copy[f].content = copy[f].mtime

\* After a run that succeeded, include_dirs has each file complete, as it was at
\* some moment during that run, and none that was there all the time is left out.
LinkedIsFromThisRun ==
    (pc = "idle" /\ outcome = "ok") =>
        \A f \in File : linked[f].content = linked[f].mtime /\ linked[f].content \in during[f]

\* What an earlier run left behind never makes a run fail: one fails only when a
\* source changed under it.
FailsOnlyWhenDisturbed ==
    outcome = "failed" => \E f \in File : \E v, w \in during[f] : v # w

\* What is in place was written at an earlier time.
History ==
    \A f \in File :
        /\ past[f] \subseteq 1 .. now - 1
        /\ src[f] \in past[f] \cup {None}
        /\ copy[f].mtime < now

\* The history of the run knows each version now in place, the sources that were
\* listed, and the ones that were not.
DuringIsKept ==
    pc # "idle" =>
        \A f \in File :
            /\ src[f] \in during[f]
            /\ f \in infiles => \E v \in during[f] : v # None
            /\ f \notin infiles => None \in during[f]

Copying == pc \in {"open", "copy", "stamp"}

\* What is being copied is what lwt_start saw, unless the mtime has changed since.
CurIsTracked ==
    /\ pc = "sync" \/ Copying => todo \subseteq infiles
    /\ Copying =>
        /\ cur.file \in File
        /\ cur.lwt_start \in past[cur.file] \cap during[cur.file]
        /\ copy[cur.file] = Missing <=> pc = "open"
        /\ pc \in {"copy", "stamp"} => copy[cur.file].mtime = OwnTime
        /\ (pc = "copy" /\ src[cur.file] = cur.lwt_start) => cur.read = cur.lwt_start
        /\ (pc = "stamp" /\ src[cur.file] = cur.lwt_start)
               => copy[cur.file].content = cur.lwt_start

\* A file done with has a copy of a version the source had during the run, or was
\* not listed.
InProgress(f) == Copying /\ cur.file = f

DoneIsFromThisRun ==
    /\ pc = "purge" => \A f \in File \ todo :
           copy[f] = Missing \/ copy[f].mtime \in past[f] \cap during[f]
    /\ pc \in {"sync", "open", "copy", "stamp", "link"} => \A f \in File :
           \/ InProgress(f)
           \/ copy[f].mtime \in past[f] \cap during[f]
           \/ copy[f] = Missing /\ (f \in infiles => pc # "link" /\ f \in todo)
    /\ pc = "link" => \A f \in File \ todo : linked[f] = copy[f]

\* Inductive strengthening of the invariants above.
IInv ==
    /\ TypeOK
    /\ History
    /\ DuringIsKept
    /\ CurIsTracked
    /\ DoneIsFromThisRun
    /\ StampedIsComplete
    /\ LinkedIsFromThisRun
    /\ FailsOnlyWhenDisturbed

\* A finished copy is replaced by a new file, never rewritten: include_dirs still
\* has a hard link to it.
FinishedIsNeverRewritten ==
    [][\A f \in File :
          (copy[f].mtime \in past[f] /\ copy'[f] # Missing) => copy'[f] = copy[f]]_vars
=============================================================================
