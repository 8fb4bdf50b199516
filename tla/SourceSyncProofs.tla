-------------------------- MODULE SourceSyncProofs --------------------------
(***************************************************************************)
(* The invariants of SourceSync for any set of files and any number of     *)
(* edits.  One lemma per action: it keeps the inductive invariant IInv,    *)
(* one step per conjunct.                                                  *)
(***************************************************************************)
EXTENDS SourceSync, TLAPS

USE DEF None, OwnTime, Torn, Missing, NoFile

\* A run that stops at a failed assertion or call, having seen two versions of a source.
LEMMA FailsIInv ==
    ASSUME IInv, Fails, pc # "idle",
           NEW g \in File, NEW v \in during[g], NEW w \in during[g], v # w
    PROVE  IInv'
<1>1. TypeOK'
    BY DEF IInv, TypeOK, Copies, Versions, Fails, Ends, editVars
<1>2. History'
    BY DEF IInv, History, Fails, Ends, editVars
<1>3. DuringIsKept'
    BY DEF IInv, DuringIsKept, Fails, Ends, editVars
<1>4. CurIsTracked'
    BY DEF IInv, CurIsTracked, Copying, Fails, Ends, editVars
<1>5. DoneIsFromThisRun'
    BY DEF IInv, DoneIsFromThisRun, InProgress, Copying, Fails, Ends, editVars
<1>6. StampedIsComplete'
    BY DEF IInv, StampedIsComplete, Fails, Ends, editVars
<1>7. LinkedIsFromThisRun'
    BY DEF IInv, LinkedIsFromThisRun, Fails, Ends, editVars
<1>8. FailsOnlyWhenDisturbed'
    BY DEF IInv, FailsOnlyWhenDisturbed, Fails, Ends, editVars
<1>q. QED
    BY <1>1, <1>2, <1>3, <1>4, <1>5, <1>6, <1>7, <1>8 DEF IInv

\* A new version has a time that no copy has.
LEMMA EditIInv ==
    ASSUME IInv, NEW f \in File, Edit(f)
    PROVE  IInv'
<1>1. TypeOK'
    BY MaxEditsIsNatural DEF IInv, TypeOK, Copies, Versions, Edit, Becomes
<1>2. History'
    BY DEF IInv, History, TypeOK, Copies, Versions, Edit, Becomes
<1>3. DuringIsKept'
    BY DEF IInv, DuringIsKept, TypeOK, Copies, Edit, Becomes
<1>4. CurIsTracked'
    BY DEF IInv, CurIsTracked, Copying, TypeOK, Copies, History, Edit, Becomes
<1>5. DoneIsFromThisRun'
    BY DEF IInv, DoneIsFromThisRun, InProgress, Copying, Edit, Becomes
<1>6. StampedIsComplete'
    BY DEF IInv, StampedIsComplete, TypeOK, Copies, History, Edit, Becomes
<1>7. LinkedIsFromThisRun'
    BY DEF IInv, LinkedIsFromThisRun, Edit, Becomes
<1>8. FailsOnlyWhenDisturbed'
    BY DEF IInv, FailsOnlyWhenDisturbed, Edit, Becomes
<1>q. QED
    BY <1>1, <1>2, <1>3, <1>4, <1>5, <1>6, <1>7, <1>8 DEF IInv

\* A deleted source was there during the run.
LEMMA DeleteIInv ==
    ASSUME IInv, NEW f \in File, Delete(f)
    PROVE  IInv'
<1>1. TypeOK'
    BY DEF IInv, TypeOK, Copies, Versions, Delete, Becomes
<1>2. History'
    BY DEF IInv, History, Delete, Becomes
<1>3. DuringIsKept'
    BY DEF IInv, DuringIsKept, TypeOK, Copies, Delete, Becomes
<1>4. CurIsTracked'
    BY DEF IInv, CurIsTracked, Copying, TypeOK, Copies, Versions, Delete, Becomes
<1>5. DoneIsFromThisRun'
    BY DEF IInv, DoneIsFromThisRun, InProgress, Copying, Delete, Becomes
<1>6. StampedIsComplete'
    BY DEF IInv, StampedIsComplete, Delete, Becomes
<1>7. LinkedIsFromThisRun'
    BY DEF IInv, LinkedIsFromThisRun, Delete, Becomes
<1>8. FailsOnlyWhenDisturbed'
    BY DEF IInv, FailsOnlyWhenDisturbed, Delete, Becomes
<1>q. QED
    BY <1>1, <1>2, <1>3, <1>4, <1>5, <1>6, <1>7, <1>8 DEF IInv

\* An old version comes back between runs, where no comparison is under way.
LEMMA RestoreIInv ==
    ASSUME IInv, NEW f \in File, Restore(f)
    PROVE  IInv'
<1>1. TypeOK'
    BY DEF IInv, TypeOK, Copies, Versions, Restore, Becomes
<1>2. History'
    BY DEF IInv, History, Restore, Becomes
<1>3. DuringIsKept'
    BY DEF IInv, DuringIsKept, Restore, Becomes
<1>4. CurIsTracked'
    BY DEF IInv, CurIsTracked, Copying, Restore, Becomes
<1>5. DoneIsFromThisRun'
    BY DEF IInv, DoneIsFromThisRun, InProgress, Copying, Restore, Becomes
<1>6. StampedIsComplete'
    BY DEF IInv, StampedIsComplete, Restore, Becomes
<1>7. LinkedIsFromThisRun'
    BY DEF IInv, LinkedIsFromThisRun, Restore, Becomes
<1>8. FailsOnlyWhenDisturbed'
    BY DEF IInv, FailsOnlyWhenDisturbed, Restore, Becomes
<1>q. QED
    BY <1>1, <1>2, <1>3, <1>4, <1>5, <1>6, <1>7, <1>8 DEF IInv

\* The history of a run starts with what is in place.
LEMMA StartIInv ==
    ASSUME IInv, Start
    PROVE  IInv'
<1>1. TypeOK'
    BY DEF IInv, TypeOK, Copies, Versions, Start, Present
<1>2. History'
    BY DEF IInv, History, Start, Present
<1>3. DuringIsKept'
    BY DEF IInv, DuringIsKept, Start, Present
<1>4. CurIsTracked'
    BY DEF IInv, CurIsTracked, Copying, Start, Present
<1>5. DoneIsFromThisRun'
    BY DEF IInv, DoneIsFromThisRun, InProgress, Copying, Start, Present
<1>6. StampedIsComplete'
    BY DEF IInv, StampedIsComplete, Start, Present
<1>7. LinkedIsFromThisRun'
    BY DEF IInv, LinkedIsFromThisRun, Start, Present
<1>8. FailsOnlyWhenDisturbed'
    BY DEF IInv, FailsOnlyWhenDisturbed, Start, Present
<1>q. QED
    BY <1>1, <1>2, <1>3, <1>4, <1>5, <1>6, <1>7, <1>8 DEF IInv

\* What purge_outdated keeps is the version now in place.
LEMMA PurgeIInv ==
    ASSUME IInv, NEW f \in File, Purge(f)
    PROVE  IInv'
<1>a. SUFFICES ASSUME ~(SourceVanished(f)) PROVE IInv'
    BY FailsIInv DEF IInv, DuringIsKept, CurIsTracked, History, Copying, TypeOK, Copies,
       Purge, Outdated, editVars, SourceVanished
<1>b. Missing \in Copies
    BY DEF Copies
<1>1. TypeOK'
    BY <1>a, <1>b DEF IInv, TypeOK, Purge, editVars
<1>2. History'
    BY <1>a DEF IInv, History, TypeOK, Copies, Purge, Outdated, editVars, SourceVanished
<1>3. DuringIsKept'
    BY <1>a DEF IInv, DuringIsKept, Purge, Outdated, editVars, SourceVanished
<1>4. CurIsTracked'
    BY <1>a DEF IInv, CurIsTracked, Copying, Purge, Outdated, editVars, SourceVanished
<1>5. DoneIsFromThisRun'
    BY <1>a DEF IInv, DoneIsFromThisRun, InProgress, Copying, TypeOK, Copies, DuringIsKept,
       History, Purge, Outdated, editVars, SourceVanished
<1>6. StampedIsComplete'
    BY <1>a DEF IInv, StampedIsComplete, TypeOK, Copies, Purge, Outdated, editVars,
       SourceVanished
<1>7. LinkedIsFromThisRun'
    BY <1>a DEF IInv, LinkedIsFromThisRun, Purge, Outdated, editVars, SourceVanished
<1>8. FailsOnlyWhenDisturbed'
    BY <1>a DEF IInv, FailsOnlyWhenDisturbed, Purge, Outdated, editVars, SourceVanished
<1>q. QED
    BY <1>1, <1>2, <1>3, <1>4, <1>5, <1>6, <1>7, <1>8 DEF IInv

\* All copies left are of versions of this run.
LEMMA PurgeEndsIInv ==
    ASSUME IInv, PurgeEnds
    PROVE  IInv'
<1>1. TypeOK'
    BY DEF IInv, TypeOK, Copies, Versions, PurgeEnds, editVars
<1>2. History'
    BY DEF IInv, History, PurgeEnds, editVars
<1>3. DuringIsKept'
    BY DEF IInv, DuringIsKept, PurgeEnds, editVars
<1>4. CurIsTracked'
    BY DEF IInv, CurIsTracked, Copying, PurgeEnds, editVars
<1>5. DoneIsFromThisRun'
    BY DEF IInv, DoneIsFromThisRun, InProgress, Copying, PurgeEnds, editVars
<1>6. StampedIsComplete'
    BY DEF IInv, StampedIsComplete, PurgeEnds, editVars
<1>7. LinkedIsFromThisRun'
    BY DEF IInv, LinkedIsFromThisRun, PurgeEnds, editVars
<1>8. FailsOnlyWhenDisturbed'
    BY DEF IInv, FailsOnlyWhenDisturbed, PurgeEnds, editVars
<1>q. QED
    BY <1>1, <1>2, <1>3, <1>4, <1>5, <1>6, <1>7, <1>8 DEF IInv

\* sync_file returns early only for such a copy.
LEMMA StatIInv ==
    ASSUME IInv, NEW f \in File, Stat(f)
    PROVE  IInv'
<1>a. SUFFICES ASSUME ~(src[f] = None) PROVE IInv'
    BY FailsIInv DEF IInv, DuringIsKept, CurIsTracked, History, Copying, TypeOK, Copies,
       Stat, Copied, editVars
<1>1. TypeOK'
    BY <1>a DEF IInv, TypeOK, Copies, Versions, Stat, Copied, editVars
<1>2. History'
    BY <1>a DEF IInv, History, Stat, Copied, editVars
<1>3. DuringIsKept'
    BY <1>a DEF IInv, DuringIsKept, Stat, Copied, editVars
<1>4. CurIsTracked'
    BY <1>a DEF IInv, CurIsTracked, Copying, TypeOK, Copies, DuringIsKept, History, Stat,
       Copied, editVars
<1>5. DoneIsFromThisRun'
    BY <1>a DEF IInv, DoneIsFromThisRun, InProgress, Copying, Stat, Copied, editVars
<1>6. StampedIsComplete'
    BY <1>a DEF IInv, StampedIsComplete, Stat, Copied, editVars
<1>7. LinkedIsFromThisRun'
    BY <1>a DEF IInv, LinkedIsFromThisRun, Stat, Copied, editVars
<1>8. FailsOnlyWhenDisturbed'
    BY <1>a DEF IInv, FailsOnlyWhenDisturbed, Stat, Copied, editVars
<1>q. QED
    BY <1>1, <1>2, <1>3, <1>4, <1>5, <1>6, <1>7, <1>8 DEF IInv

\* The bytes mapped are lwt_start's unless the mtime has changed.
LEMMA OpenIInv ==
    ASSUME IInv, Open
    PROVE  IInv'
<1>a. SUFFICES ASSUME ~(src[cur.file] = None) PROVE IInv'
    BY FailsIInv DEF IInv, DuringIsKept, CurIsTracked, History, Copying, TypeOK, Copies,
       Open, editVars
<1>b. /\ pc = "open" /\ cur.file \in File
      /\ src[cur.file] \in Versions
    BY <1>a DEF IInv, TypeOK, CurIsTracked, Copying, Open
<1>c. [content |-> Torn, mtime |-> OwnTime] \in Copies
    BY DEF Copies
<1>1. TypeOK'
    BY <1>a, <1>b, <1>c DEF IInv, TypeOK, Open, editVars
<1>2. History'
    BY <1>a DEF IInv, History, TypeOK, Copies, Open, editVars
<1>3. DuringIsKept'
    BY <1>a DEF IInv, DuringIsKept, Open, editVars
<1>4. CurIsTracked'
    BY <1>a DEF IInv, CurIsTracked, Copying, TypeOK, Copies, Open, editVars
<1>5. DoneIsFromThisRun'
    BY <1>a DEF IInv, DoneIsFromThisRun, InProgress, Copying, TypeOK, Copies, Open, editVars
<1>6. StampedIsComplete'
    BY <1>a DEF IInv, StampedIsComplete, TypeOK, Copies, Versions, Open, editVars
<1>7. LinkedIsFromThisRun'
    BY <1>a DEF IInv, LinkedIsFromThisRun, Open, editVars
<1>8. FailsOnlyWhenDisturbed'
    BY <1>a DEF IInv, FailsOnlyWhenDisturbed, Open, editVars
<1>q. QED
    BY <1>1, <1>2, <1>3, <1>4, <1>5, <1>6, <1>7, <1>8 DEF IInv

\* So are the bytes written.
LEMMA CopyBytesIInv ==
    ASSUME IInv, CopyBytes
    PROVE  IInv'
<1>1. TypeOK'
    BY DEF IInv, TypeOK, Copies, Versions, CurIsTracked, Copying, CopyBytes, editVars
<1>2. History'
    BY DEF IInv, History, CopyBytes, editVars
<1>3. DuringIsKept'
    BY DEF IInv, DuringIsKept, CopyBytes, editVars
<1>4. CurIsTracked'
    BY DEF IInv, CurIsTracked, Copying, TypeOK, Copies, CopyBytes, editVars
<1>5. DoneIsFromThisRun'
    BY DEF IInv, DoneIsFromThisRun, InProgress, Copying, CopyBytes, editVars
<1>6. StampedIsComplete'
    BY DEF IInv, StampedIsComplete, TypeOK, Copies, Versions, History, DuringIsKept,
       CurIsTracked, Copying, CopyBytes, editVars
<1>7. LinkedIsFromThisRun'
    BY DEF IInv, LinkedIsFromThisRun, CopyBytes, editVars
<1>8. FailsOnlyWhenDisturbed'
    BY DEF IInv, FailsOnlyWhenDisturbed, CopyBytes, editVars
<1>q. QED
    BY <1>1, <1>2, <1>3, <1>4, <1>5, <1>6, <1>7, <1>8 DEF IInv

\* lwt_start == lwt_end makes the copy one of the version it is stamped with.
LEMMA StampIInv ==
    ASSUME IInv, Stamp
    PROVE  IInv'
<1>a. SUFFICES ASSUME ~(~Undisturbed) PROVE IInv'
    BY FailsIInv DEF IInv, DuringIsKept, CurIsTracked, History, Copying, TypeOK, Copies,
       Stamp, Undisturbed, editVars, Undisturbed
<1>b. cur.file \in File /\ src[cur.file] \in Versions
    BY <1>a DEF IInv, TypeOK, CurIsTracked, Copying, Stamp, Undisturbed
<1>c. [copy[cur.file] EXCEPT !.mtime = src[cur.file]] \in Copies
    BY <1>b DEF IInv, TypeOK, Copies
<1>1. TypeOK'
    BY <1>a, <1>b, <1>c DEF IInv, TypeOK, Stamp, editVars
<1>2. History'
    BY <1>a DEF IInv, History, TypeOK, Copies, Stamp, Undisturbed, editVars
<1>3. DuringIsKept'
    BY <1>a DEF IInv, DuringIsKept, Stamp, Undisturbed, editVars
<1>4. CurIsTracked'
    BY <1>a DEF IInv, CurIsTracked, Copying, Stamp, Undisturbed, editVars
<1>5. DoneIsFromThisRun'
    BY <1>a DEF IInv, DoneIsFromThisRun, InProgress, Copying, TypeOK, Copies, CurIsTracked,
       Stamp, Undisturbed, editVars
<1>6. StampedIsComplete'
    BY <1>a DEF IInv, StampedIsComplete, TypeOK, Copies, CurIsTracked, Copying, Stamp,
       Undisturbed, editVars
<1>7. LinkedIsFromThisRun'
    BY <1>a DEF IInv, LinkedIsFromThisRun, Stamp, Undisturbed, editVars
<1>8. FailsOnlyWhenDisturbed'
    BY <1>a DEF IInv, FailsOnlyWhenDisturbed, Stamp, Undisturbed, editVars
<1>q. QED
    BY <1>1, <1>2, <1>3, <1>4, <1>5, <1>6, <1>7, <1>8 DEF IInv

\* Every source listed has its copy.
LEMMA SyncEndsIInv ==
    ASSUME IInv, SyncEnds
    PROVE  IInv'
<1>1. TypeOK'
    BY DEF IInv, TypeOK, Copies, Versions, SyncEnds, Present, editVars
<1>2. History'
    BY DEF IInv, History, SyncEnds, Present, editVars
<1>3. DuringIsKept'
    BY DEF IInv, DuringIsKept, SyncEnds, Present, editVars
<1>4. CurIsTracked'
    BY DEF IInv, CurIsTracked, Copying, SyncEnds, Present, editVars
<1>5. DoneIsFromThisRun'
    BY DEF IInv, DoneIsFromThisRun, InProgress, Copying, SyncEnds, Present, editVars
<1>6. StampedIsComplete'
    BY DEF IInv, StampedIsComplete, SyncEnds, Present, editVars
<1>7. LinkedIsFromThisRun'
    BY DEF IInv, LinkedIsFromThisRun, SyncEnds, Present, editVars
<1>8. FailsOnlyWhenDisturbed'
    BY DEF IInv, FailsOnlyWhenDisturbed, SyncEnds, Present, editVars
<1>q. QED
    BY <1>1, <1>2, <1>3, <1>4, <1>5, <1>6, <1>7, <1>8 DEF IInv

\* The links are to those copies.
LEMMA LinkIInv ==
    ASSUME IInv, NEW f \in File, Link(f)
    PROVE  IInv'
<1>1. TypeOK'
    BY DEF IInv, TypeOK, Copies, Versions, Link, editVars
<1>2. History'
    BY DEF IInv, History, Link, editVars
<1>3. DuringIsKept'
    BY DEF IInv, DuringIsKept, Link, editVars
<1>4. CurIsTracked'
    BY DEF IInv, CurIsTracked, Copying, Link, editVars
<1>5. DoneIsFromThisRun'
    BY DEF IInv, DoneIsFromThisRun, InProgress, Copying, TypeOK, Copies, Link, editVars
<1>6. StampedIsComplete'
    BY DEF IInv, StampedIsComplete, Link, editVars
<1>7. LinkedIsFromThisRun'
    BY DEF IInv, LinkedIsFromThisRun, Link, editVars
<1>8. FailsOnlyWhenDisturbed'
    BY DEF IInv, FailsOnlyWhenDisturbed, Link, editVars
<1>q. QED
    BY <1>1, <1>2, <1>3, <1>4, <1>5, <1>6, <1>7, <1>8 DEF IInv

\* A successful run leaves all of them linked.
LEMMA DoneIInv ==
    ASSUME IInv, Done
    PROVE  IInv'
<1>1. TypeOK'
    BY DEF IInv, TypeOK, Copies, Versions, Done, Ends, editVars
<1>2. History'
    BY DEF IInv, History, Done, Ends, editVars
<1>3. DuringIsKept'
    BY DEF IInv, DuringIsKept, Done, Ends, editVars
<1>4. CurIsTracked'
    BY DEF IInv, CurIsTracked, Copying, Done, Ends, editVars
<1>5. DoneIsFromThisRun'
    BY DEF IInv, DoneIsFromThisRun, InProgress, Copying, Done, Ends, editVars
<1>6. StampedIsComplete'
    BY DEF IInv, StampedIsComplete, Done, Ends, editVars
<1>7. LinkedIsFromThisRun'
    BY DEF IInv, LinkedIsFromThisRun, TypeOK, Copies, Versions, History, DuringIsKept,
       DoneIsFromThisRun, InProgress, CurIsTracked, Copying, StampedIsComplete, Done, Ends,
       editVars
<1>8. FailsOnlyWhenDisturbed'
    BY DEF IInv, FailsOnlyWhenDisturbed, Done, Ends, editVars
<1>q. QED
    BY <1>1, <1>2, <1>3, <1>4, <1>5, <1>6, <1>7, <1>8 DEF IInv

\* Dying leaves the copies as they are.
LEMMA KilledIInv ==
    ASSUME IInv, Killed
    PROVE  IInv'
<1>1. TypeOK'
    BY DEF IInv, TypeOK, Copies, Versions, Killed, Ends, editVars
<1>2. History'
    BY DEF IInv, History, Killed, Ends, editVars
<1>3. DuringIsKept'
    BY DEF IInv, DuringIsKept, Killed, Ends, editVars
<1>4. CurIsTracked'
    BY DEF IInv, CurIsTracked, Copying, Killed, Ends, editVars
<1>5. DoneIsFromThisRun'
    BY DEF IInv, DoneIsFromThisRun, InProgress, Copying, Killed, Ends, editVars
<1>6. StampedIsComplete'
    BY DEF IInv, StampedIsComplete, Killed, Ends, editVars
<1>7. LinkedIsFromThisRun'
    BY DEF IInv, LinkedIsFromThisRun, Killed, Ends, editVars
<1>8. FailsOnlyWhenDisturbed'
    BY DEF IInv, FailsOnlyWhenDisturbed, Killed, Ends, editVars
<1>q. QED
    BY <1>1, <1>2, <1>3, <1>4, <1>5, <1>6, <1>7, <1>8 DEF IInv

\* Nothing changes.
LEMMA StutterIInv ==
    ASSUME IInv, UNCHANGED vars
    PROVE  IInv'
<1>1. TypeOK'
    BY DEF IInv, TypeOK, Copies, Versions, vars, editVars
<1>2. History'
    BY DEF IInv, History, vars, editVars
<1>3. DuringIsKept'
    BY DEF IInv, DuringIsKept, vars, editVars
<1>4. CurIsTracked'
    BY DEF IInv, CurIsTracked, Copying, vars, editVars
<1>5. DoneIsFromThisRun'
    BY DEF IInv, DoneIsFromThisRun, InProgress, Copying, vars, editVars
<1>6. StampedIsComplete'
    BY DEF IInv, StampedIsComplete, vars, editVars
<1>7. LinkedIsFromThisRun'
    BY DEF IInv, LinkedIsFromThisRun, vars, editVars
<1>8. FailsOnlyWhenDisturbed'
    BY DEF IInv, FailsOnlyWhenDisturbed, vars, editVars
<1>q. QED
    BY <1>1, <1>2, <1>3, <1>4, <1>5, <1>6, <1>7, <1>8 DEF IInv

\* Nothing has been copied yet.
LEMMA InitIInv == Init => IInv
BY MaxEditsIsNatural
DEF Init, IInv, TypeOK, Copies, Versions, History, DuringIsKept, CurIsTracked, Copying,
    DoneIsFromThisRun, StampedIsComplete, LinkedIsFromThisRun, FailsOnlyWhenDisturbed

\* IInv is an invariant of generate_build_sources under any edits and deaths.
THEOREM IInvInvariant == Spec => []IInv
<1>1. IInv /\ [Next]_vars => IInv'
  <2>1. SUFFICES ASSUME IInv, [Next]_vars PROVE IInv'
    OBVIOUS
  <2>2. CASE Editor
    BY <2>1, <2>2, EditIInv, DeleteIInv, RestoreIInv DEF Editor
  <2>3. CASE Generator
    BY <2>1, <2>3, StartIInv, PurgeIInv, PurgeEndsIInv, StatIInv, OpenIInv, CopyBytesIInv,
       StampIInv, SyncEndsIInv, LinkIInv, DoneIInv, KilledIInv DEF Generator
  <2>4. CASE UNCHANGED vars
    BY <2>1, <2>4, StutterIInv
  <2>q. QED
    BY <2>1, <2>2, <2>3, <2>4 DEF Next
<1>q. QED
  BY <1>1, InitIInv, PTL DEF Spec

\* purge_outdated may trust the mtime of a copy, whatever died or was edited before.
THEOREM StampedInvariant == Spec => []StampedIsComplete
<1>1. IInv => StampedIsComplete
  BY DEF IInv
<1>q. QED
  BY <1>1, IInvInvariant, PTL

\* What a successful run links is each source as it was during that run.
THEOREM LinkedInvariant == Spec => []LinkedIsFromThisRun
<1>1. IInv => LinkedIsFromThisRun
  BY DEF IInv
<1>q. QED
  BY <1>1, IInvInvariant, PTL

\* Leftovers of earlier runs never make a run fail.
THEOREM FailsInvariant == Spec => []FailsOnlyWhenDisturbed
<1>1. IInv => FailsOnlyWhenDisturbed
  BY DEF IInv
<1>q. QED
  BY <1>1, IInvInvariant, PTL

\* No step rewrites a finished copy in place, so hard links to it keep their content.
THEOREM NeverRewritten == Spec => FinishedIsNeverRewritten
<1> DEFINE Keeps == \A f \in File :
              (copy[f].mtime \in past[f] /\ copy'[f] # Missing) => copy'[f] = copy[f]
<1>1. IInv /\ [Next]_vars => [Keeps]_vars
  <2>1. SUFFICES ASSUME IInv, Next PROVE Keeps
    OBVIOUS
  <2>2. CASE Editor
    BY <2>2 DEF Editor, Edit, Delete, Restore, Becomes
  <2>3. ASSUME NEW f \in File, Purge(f) PROVE Keeps
    BY <2>1, <2>3 DEF IInv, TypeOK, Purge, Fails
  <2>4. CASE Open
    BY <2>1, <2>4 DEF IInv, TypeOK, CurIsTracked, Copying, History, Open, Fails
  <2>5. CASE CopyBytes
    BY <2>1, <2>5 DEF IInv, TypeOK, CurIsTracked, Copying, History, CopyBytes
  <2>6. CASE Stamp
    BY <2>1, <2>6 DEF IInv, TypeOK, CurIsTracked, Copying, History, Stamp, Fails
  <2>7. CASE Start \/ PurgeEnds \/ SyncEnds \/ Done \/ Killed
    BY <2>7 DEF Start, PurgeEnds, SyncEnds, Done, Killed
  <2>8. ASSUME NEW f \in File, Stat(f) \/ Link(f) PROVE Keeps
    BY <2>8 DEF Stat, Link, Fails
  <2>q. QED
    BY <2>1, <2>2, <2>3, <2>4, <2>5, <2>6, <2>7, <2>8 DEF Next, Generator
<1>2. Spec => [][Keeps]_vars
  BY <1>1, IInvInvariant, PTL DEF Spec
<1>q. QED
  BY <1>2 DEF FinishedIsNeverRewritten
=============================================================================
