----------------------- MODULE StateMachineRefinement -----------------------
(***************************************************************************)
(* The store moves forward only, the log reaches back to its newest         *)
(* snapshot, and it implements ReplicatedMap.                               *)
(***************************************************************************)
EXTENDS StateMachineStoreProofs, FiniteSetTheorems

\* The newest file covers every file.
LoadedOK ==
    /\ Loaded.la \in Nat /\ Loaded.la <= Len(log)
    /\ \A f \in disk : f.db.la \in Nat /\ f.db.la <= Loaded.la

LEMMA LoadedCovers == Inv => LoadedOK
<1> SUFFICES ASSUME Inv PROVE LoadedOK
  OBVIOUS
<1>1. Loaded.la \in Nat /\ Loaded.la <= Len(log)
  BY LoadedSnapshot
<1>2. ASSUME NEW f \in disk PROVE f.db.la \in Nat /\ f.db.la <= Loaded.la
  <2>1. LastFile \in disk /\ ~Later(f, LastFile) /\ Loaded = LastFile.db
    BY LastFileExists DEF Loaded
  <2>2. f.db.la \in Nat /\ LastFile.db.la \in Nat
    <3>1. f.db \in DB /\ LastFile.db \in DB
      BY <2>1 DEF Inv, Types
    <3> QED  BY <3>1 DEF DB
  <2> QED  BY <2>1, <2>2 DEF Later
<1> QED  BY <1>1, <1>2 DEF LoadedOK

LEMMA LoadedGrows ==
    ASSUME LoadedOK', Inv, disk \subseteq disk'
    PROVE  Loaded.la <= Loaded'.la
<1>1. CASE disk = {}
  <2>1. Loaded.la = 0
    BY <1>1 DEF Loaded, EmptyDB
  <2> QED  BY <2>1 DEF LoadedOK
<1>2. CASE disk # {}
  <2>1. LastFile \in disk /\ Loaded = LastFile.db
    BY <1>2, LastFileExists DEF Loaded
  <2> QED  BY <2>1 DEF LoadedOK
<1> QED  BY <1>1, <1>2

\* clean_old_snapshots never removes the newest file.
LEMMA CleanKeepsLast ==
    ASSUME Inv, LoadedOK', BuildClean \/ BuildCleanFails
    PROVE  Loaded'.la = Loaded.la
<1>1. disk' \subseteq disk
  BY DEF BuildClean, BuildCleanFails
<1>2. CASE disk = {}
  BY <1>1, <1>2 DEF Loaded
<1>3. CASE disk # {}
  <2>1. LastFile \in disk /\ \A g \in disk : ~Later(g, LastFile)
    BY <1>3, LastFileExists
  <2>2. {g \in disk : Later(g, LastFile)} = {}
    BY <2>1
  <2>3. LastFile \in disk'
    <3>1. Cardinality({g \in disk : Later(g, LastFile)}) = 0
      BY <2>2, FS_EmptySet
    <3>2. CASE BuildClean
      BY <3>1, <3>2, <2>1, BoundsAssumption DEF BuildClean
    <3>3. CASE BuildCleanFails
      BY <3>1, <3>3, <2>1, BoundsAssumption DEF BuildCleanFails
    <3> QED  BY <3>2, <3>3
  <2>4. Loaded = LastFile.db
    BY <1>3 DEF Loaded
  <2>5. Loaded.la <= Loaded'.la /\ Loaded'.la \in Nat
    BY <2>3, <2>4 DEF LoadedOK
  <2>6. disk' # {} /\ disk' \subseteq disk
    BY <1>1, <2>3
  <2>7. \A f \in disk : f.db.la \in Nat /\ f.db.la <= Loaded.la
    BY LoadedCovers DEF LoadedOK
  <2>8. Loaded.la \in Nat
    BY <2>1, <2>4, <2>7
  <2>9. \E f \in disk' : Loaded' = f.db
    \* the new directory is not empty and has a last file too
    <3>1. LastFile \in disk' /\ \A g \in disk' : ~Later(g, LastFile)
      BY <1>1, <2>1, <2>3
    <3>2. LastFile' = CHOOSE f \in disk' : \A g \in disk' : ~Later(g, f)
      BY DEF LastFile, Later
    <3>3. LastFile' \in disk'
      BY <3>1, <3>2
    <3> QED  BY <3>3, <2>6 DEF Loaded
  <2> QED  BY <2>5, <2>6, <2>7, <2>8, <2>9
<1> QED  BY <1>2, <1>3

-----------------------------------------------------------------------------
(***************************************************************************)
(* The log reaches the newest snapshot.                                     *)
(***************************************************************************)
\* Whatever raft was told of, or will be told of, is on disk or older.
Reaches ==
    /\ purged <= Loaded.la /\ raftSnap <= Loaded.la
    /\ install.db.la <= Loaded.la
    /\ builder.pc \in {"written", "replaced", "clean"} =>
         builder.file.la <= Loaded.la

LEMMA InitReaches == Init => Reaches
<1> SUFFICES ASSUME Init PROVE Reaches
  OBVIOUS
<1>1. /\ Loaded.la = 0 /\ purged = 0 /\ raftSnap = 0 /\ builder.pc = "idle"
      /\ install.db.la = 0
  BY DEF Init, Loaded, EmptyDB, NoBuild, NoFile
<1> QED  BY <1>1 DEF Reaches

LEMMA ReachesStep ==
    ASSUME Inv, Inv', LoadedOK', Reaches, [Next]_vars
    PROVE  Reaches'
<1>1. /\ purged \in Nat /\ raftSnap \in Nat /\ builder.file.la \in Nat
      /\ install.db.la \in Nat /\ NoFile.db.la = 0
      /\ Loaded.la \in Nat /\ Loaded'.la \in Nat
  <2>1. builder.file \in DB /\ install.db \in DB /\ NoFile.db.la = 0
    BY DEF Inv, Types, BuilderType, NoFile, EmptyDB
  <2> QED  BY <2>1, LoadedCovers DEF LoadedOK, Inv, Types, DB
<1>2. CASE /\ UNCHANGED <<disk, purged, raftSnap, install>>
           /\ builder'.pc \in {"written", "replaced", "clean"} =>
                /\ builder.pc \in {"written", "replaced", "clean"}
                /\ builder'.file = builder.file
  BY <1>2 DEF Reaches, Loaded, LastFile, Later
<1>3. ASSUME NEW i \in 1 .. Len(log), Purge(i) PROVE Reaches'
  <2>1. i \in Nat /\ i <= raftSnap /\ purged' = i
        /\ UNCHANGED <<disk, raftSnap, builder, install>>
    BY <1>3, CommittedTypes DEF Purge
  <2>2. Loaded' = Loaded
    BY <2>1 DEF Loaded, LastFile, Later
  <2> QED  BY <1>1, <2>1, <2>2 DEF Reaches
<1>4. ASSUME NEW i \in 1 .. Len(log), NEW u, InstallMove(i, u) PROVE Reaches'
  <2>1. /\ UNCHANGED <<purged, raftSnap, builder>>
        /\ disk' = disk \cup {install'}
    BY <1>4 DEF InstallMove
  <2>2. Loaded.la <= Loaded'.la
    BY <2>1, LoadedGrows
  <2>3. install'.db.la <= Loaded'.la
    BY <2>1 DEF LoadedOK
  <2> QED  BY <1>1, <2>1, <2>2, <2>3 DEF Reaches
<1>12. CASE InstallReplace \/ InstallError
  <2>1. /\ raftSnap' \in {raftSnap, install.db.la} /\ install'.db.la = 0
        /\ UNCHANGED <<purged, builder, disk>>
    BY <1>1, <1>12 DEF InstallReplace, InstallError
  <2>2. Loaded' = Loaded
    BY <2>1 DEF Loaded, LastFile, Later
  <2> QED  BY <1>1, <2>1, <2>2 DEF Reaches
<1>5. CASE BuildWrite
  <2>1. /\ UNCHANGED <<purged, raftSnap, install>>
        /\ disk' = disk \cup {FreshFile(CompactIntoDB(builder.imm, builder.db))}
        /\ builder.pc = "frozen"
        /\ builder'.file = CompactIntoDB(builder.imm, builder.db)
    BY <1>5 DEF BuildWrite, Inv, Types, BuilderType
  <2>2. Loaded.la <= Loaded'.la
    BY <2>1, LoadedGrows
  <2>3. CompactIntoDB(builder.imm, builder.db) \in DB
    BY <2>1, BuiltFile, SnapshotAtSound
  <2>4. FreshFile(CompactIntoDB(builder.imm, builder.db)).db = builder'.file
    BY <2>1, <2>3, FreshFileTypes
  <2>5. builder'.file.la <= Loaded'.la
    BY <2>1, <2>4 DEF LoadedOK
  <2> QED  BY <1>1, <2>1, <2>2, <2>5 DEF Reaches
<1>6. CASE BuildClean \/ BuildCleanFails
  <2>1. /\ builder.pc = "clean" /\ raftSnap' \in {raftSnap, builder.file.la}
        /\ UNCHANGED <<purged, install>> /\ builder'.pc = "idle"
    BY <1>6 DEF BuildClean, BuildCleanFails, NoBuild
  <2>2. Loaded'.la = Loaded.la
    BY <1>6, CleanKeepsLast
  <2> QED  BY <2>1, <2>2 DEF Reaches
<1>7. CASE Restart
  <2>1. /\ raftSnap' = Loaded.la /\ builder'.pc = "idle" /\ install'.db.la = 0
        /\ UNCHANGED <<disk, purged>>
    BY <1>1, <1>7 DEF Restart, NoBuild
  <2>2. Loaded' = Loaded
    BY <2>1 DEF Loaded, LastFile, Later
  <2> QED  BY <1>1, <2>1, <2>2 DEF Reaches
<1>8. CASE BuildReplace
  <2>1. /\ builder.pc = "written" /\ builder'.file = builder.file
        /\ UNCHANGED <<disk, purged, raftSnap, install>>
    <3>1. NoBuild \in BuilderType
      BY EmptyTypes
    <3> QED  BY <1>8, <3>1 DEF BuildReplace, BuilderType
  <2> QED  BY <2>1, <1>2
<1>9. CASE BuildStart \/ BuildPermit \/ BuildFreeze \/ BuildError
  <2>1. /\ builder'.pc \notin {"written", "replaced", "clean"}
        /\ UNCHANGED <<disk, purged, raftSnap, install>>
    <3>0. builder \in BuilderType
      BY DEF Inv, Types
    <3>1. CASE BuildStart
      BY <3>0, <3>1 DEF BuildStart, BuilderType
    <3>2. CASE BuildPermit
      BY <3>0, <3>2 DEF BuildPermit, BuilderType
    <3>3. CASE BuildFreeze
      BY <3>0, <3>3 DEF BuildFreeze, BuilderType
    <3>4. CASE BuildError
      BY <3>4 DEF BuildError, NoBuild
    <3> QED  BY <1>9, <3>1, <3>2, <3>3, <3>4
  <2> QED  BY <2>1, <1>2
<1>10. CASE \/ Watch \/ Compact \/ ApplyStart \/ ApplyEntry \/ ApplyCommit
            \/ UNCHANGED vars
  <2>1. UNCHANGED <<disk, purged, raftSnap, builder, install>>
    BY <1>10 DEF Watch, WatchPermit, WatchDone, Compact, CompactStart, CompactStop, CompactPermit, CompactFreeze,
                 CompactSkip, CompactMerge, ApplyStart, ApplyEntry, ApplyCommit, vars
  <2> QED  BY <2>1, <1>2
<1>11. ASSUME NEW e \in Entry, Propose(e) PROVE Reaches'
  <2>1. UNCHANGED <<disk, purged, raftSnap, builder, install>>
    BY <1>11 DEF Propose
  <2> QED  BY <2>1, <1>2
<1>13. CASE BuildRelease
  <2>1. /\ builder.pc = "replaced" /\ builder'.file = builder.file
        /\ UNCHANGED <<disk, purged, raftSnap, install>>
    BY <1>13 DEF BuildRelease, Inv, Types, BuilderType
  <2> QED  BY <2>1, <1>2
<1>14. CASE BuildOpenError
  <2>1. /\ disk \subseteq disk' /\ builder'.pc = "idle"
        /\ UNCHANGED <<purged, raftSnap, install>>
    BY <1>14 DEF BuildOpenError, NoBuild
  <2>2. Loaded.la <= Loaded'.la
    BY <2>1, LoadedGrows
  <2> QED  BY <1>1, <2>1, <2>2 DEF Reaches
<1> QED  BY <1>3, <1>4, <1>5, <1>6, <1>7, <1>8, <1>9, <1>10, <1>11, <1>12, <1>13,
            <1>14 DEF Next, Build

\* Whenever the process dies, the raft log still has every entry after the
\* snapshot that the restart loads (clean_old_snapshots, raft's log purge).
THEOREM LogIsComplete == Spec => []LogReachesSnapshot
<1>1. Inv /\ Inv' /\ LoadedOK' /\ Reaches /\ [Next]_vars => Reaches'
  BY ReachesStep
<1>2. Reaches => LogReachesSnapshot
  BY DEF Reaches, LogReachesSnapshot
<1> QED  BY Invariance, InitReaches, LoadedCovers, <1>1, <1>2, PTL DEF Spec

-----------------------------------------------------------------------------
(***************************************************************************)
(* The store moves forward only.                                            *)
(***************************************************************************)
\* What every step but a restart and a growth of the log does to the three
\* positions.
Forward ==
    /\ UNCHANGED <<hist, crashes>>
    /\ Committed(Cur) <= Committed(Cur)'
    /\ Loaded.la <= Loaded'.la

LEMMA SamePosition ==
    ASSUME Inv, UNCHANGED applier, Len(sms') = Len(sms),
           \A j \in 1 .. Len(sms) : sms'[j].writable.la = sms[j].writable.la
    PROVE  Committed(Cur)' = Committed(Cur)
BY CommittedTypes DEF Committed, Cur, Applying

LEMMA SameFiles ==
    ASSUME UNCHANGED disk
    PROVE  Loaded' = Loaded
BY DEF Loaded, LastFile, Later

LEMMA LevelsForward ==
    ASSUME Inv, BuildFreeze \/ BuildReplace \/ CompactFreeze \/ CompactMerge
    PROVE  Forward
<1>1. UNCHANGED <<hist, crashes, applier, disk>>
  BY DEF BuildFreeze, BuildReplace, CompactFreeze, CompactMerge
<1>2. \A lm \in LMType : \A u : Freeze(lm, u).writable.la = lm.writable.la
  BY DEF Freeze, NewLevel, LMType, Level
<1>3. /\ sms \in Seq(LMType) /\ 1 \in 1 .. Len(sms)
      /\ \A j \in 1 .. Len(sms) : sms[j] \in LMType
      /\ builder.pc # "idle" => builder.sm \in 1 .. Len(sms)
  <2>1. sms \in Seq(LMType)
    BY DEF Inv, Types
  <2>2. builder.pc # "idle" => builder.sm \in 1 .. Len(sms)
    BY DEF Inv, Types, BuildOK
  <2> QED  BY <2>1, <2>2, CommittedTypes
<1>4. ASSUME NEW n \in 1 .. Len(sms), NEW lm, sms' = [sms EXCEPT ![n] = lm],
             lm.writable.la = sms[n].writable.la
      PROVE  /\ Len(sms') = Len(sms)
             /\ \A j \in 1 .. Len(sms) : sms'[j].writable.la = sms[j].writable.la
  BY <1>3, <1>4
<1>6. /\ Len(sms') = Len(sms)
      /\ \A j \in 1 .. Len(sms) : sms'[j].writable.la = sms[j].writable.la
  <2>1. CASE BuildFreeze
    <3>1. /\ sms' = [sms EXCEPT ![builder.sm] = Freeze(sms[builder.sm], uniq)]
          /\ builder.pc = "permit"
      BY <2>1 DEF BuildFreeze
    <3>2. builder.sm \in 1 .. Len(sms) /\ sms[builder.sm] \in LMType
      BY <1>3, <3>1
    <3>3. Freeze(sms[builder.sm], uniq).writable.la = sms[builder.sm].writable.la
      BY <1>2, <3>2
    <3> QED  BY <1>4, <3>1, <3>2, <3>3
  <2>2. CASE BuildReplace
    <3> DEFINE lm == ReplaceWithCompacted(sms[builder.sm], NewestIndex(builder.imm),
                                          builder.file)
    <3>1. sms' = [sms EXCEPT ![builder.sm] = lm] /\ builder.pc = "written"
      BY <2>2 DEF BuildReplace
    <3>2. lm.writable.la = sms[builder.sm].writable.la
      BY DEF ReplaceWithCompacted
    <3> HIDE DEF lm
    <3> QED  BY <1>3, <1>4, <3>1, <3>2
  <2>3. CASE CompactFreeze
    <3>1. sms' = [sms EXCEPT ![1] = Freeze(sms[1], uniq)]
      BY <2>3 DEF CompactFreeze
    <3>2. Freeze(sms[1], uniq).writable.la = sms[1].writable.la
      BY <1>2, <1>3
    <3> QED  BY <1>3, <1>4, <3>1, <3>2
  <2>4. CASE CompactMerge
    <3>1. PICK imm : sms' = [sms EXCEPT ![1] = ReplaceImmutableLevels(sms[1], imm)]
      BY <2>4 DEF CompactMerge
    <3>2. ReplaceImmutableLevels(sms[1], imm).writable.la = sms[1].writable.la
      BY DEF ReplaceImmutableLevels
    <3> QED  BY <1>3, <1>4, <3>1, <3>2
  <2> QED  BY <2>1, <2>2, <2>3, <2>4
<1>7. Committed(Cur)' = Committed(Cur) /\ Loaded' = Loaded
  BY <1>1, <1>6, SamePosition, SameFiles
<1>8. Committed(Cur) \in Nat /\ Loaded.la \in Nat
  BY CommittedTypes, LoadedCovers DEF LoadedOK
<1> QED  BY <1>1, <1>7, <1>8 DEF Forward

LEMMA ApplyForward ==
    ASSUME Inv, ApplyStart \/ ApplyEntry \/ ApplyCommit
    PROVE  Forward
<1>1. UNCHANGED <<hist, crashes, disk>>
  BY DEF ApplyStart, ApplyEntry, ApplyCommit
<1>2. Cur \in 1 .. Len(sms) /\ sms[Cur].writable.la \in Nat /\ sms \in Seq(LMType)
  BY CommittedTypes DEF Inv, Types
<1>3. applier \in ApplierType
  BY DEF Inv, Types
<1>4. CASE ApplyStart
  <2>1. /\ UNCHANGED sms /\ applier.pc = "idle" /\ applier'.pc = "apply"
        /\ applier'.start = sms[Cur].writable.la
    BY <1>4 DEF ApplyStart
  <2>2. Committed(Cur)' = Committed(Cur)
    BY <1>2, <2>1 DEF Committed, Applying, Cur
  <2> QED  BY <1>1, <1>2, <2>2, SameFiles, CommittedTypes, LoadedCovers
           DEF Forward, LoadedOK
<1>5. CASE ApplyEntry
  <2>1. /\ applier.pc = "apply" /\ applier'.pc = "apply"
        /\ applier'.start = applier.start
    BY <1>3, <1>5 DEF ApplyEntry, Applying, ApplierType
  <2>2. Len(sms') = Len(sms)
    BY <1>2, <1>5 DEF ApplyEntry
  <2>3. Committed(Cur)' = Committed(Cur)
    BY <2>1, <2>2 DEF Committed, Applying, Cur
  <2> QED  BY <1>1, <1>2, <2>3, SameFiles, CommittedTypes, LoadedCovers
           DEF Forward, LoadedOK
<1>6. CASE ApplyCommit
  <2>1. applier.pc = "apply" /\ applier'.pc = "idle"
    BY <1>6 DEF ApplyCommit, Applying, Idle
  <2>2. Len(sms') = Len(sms) /\ sms'[Cur].writable.la = sms[Cur].writable.la
    BY <1>2, <1>6 DEF ApplyCommit, Commit
  <2>3. Committed(Cur)' = sms[Cur].writable.la /\ Committed(Cur) = applier.start
    BY <2>1, <2>2 DEF Committed, Applying, Cur
  <2>4. applier.start <= sms[Cur].writable.la
    BY <2>1 DEF Inv, ViewOK, Applying
  <2> QED  BY <1>1, <2>3, <2>4, SameFiles, LoadedCovers DEF Forward, LoadedOK
<1> QED  BY <1>4, <1>5, <1>6

\* The test of do_install_snapshot whether the node is ahead of a snapshot.
LEMMA NotBeyond ==
    ASSUME NEW a \in Nat, NEW b \in Nat, ~(a > 0 /\ a >= b)
    PROVE  a <= b
  OBVIOUS

LEMMA LastAppended ==
    ASSUME NEW S, NEW s \in Seq(S), NEW x \in S
    PROVE  Append(s, x)[Len(Append(s, x))] = x
  OBVIOUS

LEMMA InstallForward ==
    ASSUME Inv, InstallReplace
    PROVE  Forward
<1> DEFINE i == install.db.la
           db == install.db
<1>1. /\ UNCHANGED <<hist, crashes, applier, disk>> /\ applier.pc = "idle"
      /\ sms' = IF sms[Cur].writable.la > 0 /\ sms[Cur].writable.la >= i
                  THEN sms ELSE Append(sms, FromDB(db))
  BY DEF InstallReplace, Inv, PermitOK
<1>2. Cur \in 1 .. Len(sms) /\ sms[Cur].writable.la \in Nat /\ sms \in Seq(LMType)
      /\ i \in Nat /\ i <= Len(log) /\ db = SnapshotAt(i)
  <2>1. sms \in Seq(LMType)
    BY DEF Inv, Types
  <2>2. i \in Nat /\ i <= Len(log) /\ db = SnapshotAt(i)
    BY DEF Inv, Types, DB, DiskOK
  <2> QED  BY <2>1, <2>2, CommittedTypes
<1> HIDE DEF i, db
<1>3. Committed(Cur) = sms[Cur].writable.la
  BY <1>1 DEF Committed, Applying
<1>4. Committed(Cur)' = sms'[Len(sms')].writable.la
  BY <1>1 DEF Committed, Applying, Cur
<1>5. Loaded.la <= Loaded'.la
  BY <1>1, SameFiles, LoadedCovers DEF LoadedOK
<1>6. CASE sms[Cur].writable.la > 0 /\ sms[Cur].writable.la >= i
  <2>1. Committed(Cur)' = sms[Cur].writable.la
    BY <1>1, <1>4, <1>6 DEF Cur
  <2>2. Committed(Cur) <= Committed(Cur)'
    BY <1>2, <1>3, <2>1
  <2> QED  BY <1>1, <1>5, <2>2 DEF Forward
<1>7. CASE ~(sms[Cur].writable.la > 0 /\ sms[Cur].writable.la >= i)
  <2>1. FromDB(db).writable.la = i /\ FromDB(db) \in LMType
    BY <1>2, SnapshotAtSound DEF Inv, Types
  <2>2. sms'[Len(sms')] = FromDB(db)
    BY <1>1, <1>2, <1>7, <2>1, LastAppended
  <2>3. Committed(Cur)' = i
    BY <1>4, <2>1, <2>2
  <2>4. sms[Cur].writable.la <= i
    BY <1>2, <1>7, NotBeyond
  <2>5. Committed(Cur) <= Committed(Cur)'
    BY <1>3, <2>3, <2>4
  <2> QED  BY <1>1, <1>5, <2>5 DEF Forward
<1> QED  BY <1>6, <1>7

LEMMA TaskForward ==
    ASSUME Inv, LoadedOK',
           \/ WatchPermit \/ WatchDone
           \/ BuildStart \/ BuildPermit \/ BuildWrite \/ BuildError
           \/ BuildOpenError \/ BuildRelease \/ BuildClean \/ BuildCleanFails
           \/ CompactStart \/ CompactStop \/ CompactPermit \/ CompactSkip
           \/ (\E i \in 1 .. Len(log), u \in {0, NextUniq} : InstallMove(i, u))
           \/ InstallError
           \/ (\E i \in 1 .. Len(log) : Purge(i)) \/ UNCHANGED vars
    PROVE  Forward
<1>1. UNCHANGED <<hist, crashes, sms>>
  BY DEF WatchPermit, WatchDone, BuildStart, BuildPermit, BuildWrite, BuildError,
         BuildOpenError, BuildRelease, BuildClean, BuildCleanFails, CompactStart,
         CompactStop, CompactPermit, CompactSkip, InstallMove, InstallError, Purge,
         vars
<1>2. Committed(Cur)' = Committed(Cur) /\ Committed(Cur) \in Nat
  <2>1. CASE InstallError
    <3>1. applier.pc # "apply" /\ applier'.pc # "apply"
      BY <2>1 DEF InstallError, Inv, PermitOK, Idle
    <3> QED  BY <1>1, <3>1, CommittedTypes DEF Committed, Applying, Cur
  <2>2. CASE ~InstallError
    <3>1. UNCHANGED applier
      BY <2>2 DEF WatchPermit, WatchDone, BuildStart, BuildPermit, BuildWrite,
                  BuildError, BuildOpenError, BuildRelease, BuildClean,
                  BuildCleanFails, CompactStart, CompactStop, CompactPermit,
                  CompactSkip, InstallMove, Purge, vars
    <3> QED  BY <1>1, <3>1, SamePosition, CommittedTypes
  <2> QED  BY <2>1, <2>2
<1>3. Loaded.la <= Loaded'.la
  <2>1. Loaded.la \in Nat
    BY LoadedCovers DEF LoadedOK
  <2>2. CASE BuildClean \/ BuildCleanFails
    BY <2>1, <2>2, CleanKeepsLast
  <2>3. CASE ~(BuildClean \/ BuildCleanFails)
    <3>1. disk \subseteq disk'
      BY <2>3 DEF WatchPermit, WatchDone, BuildStart, BuildPermit, BuildWrite,
                  BuildError, BuildOpenError, BuildRelease, CompactStart,
                  CompactStop, CompactPermit, CompactSkip, InstallMove,
                  InstallError, Purge, vars
    <3> QED  BY <3>1, LoadedGrows
  <2> QED  BY <2>2, <2>3
<1> QED  BY <1>1, <1>2, <1>3 DEF Forward

LEMMA StepForward ==
    ASSUME Inv, LoadedOK', [Next]_vars
    PROVE  \/ Forward
           \/ \E e \in Entry : Propose(e)
           \/ Restart
<1> QED  BY LevelsForward, ApplyForward, InstallForward, TaskForward
         DEF Next, Watch, Build, Compact

LEMMA GrowthAlone ==
    ASSUME Inv, NEW e \in Entry, Propose(e)
    PROVE  /\ Committed(Cur)' = Committed(Cur) /\ Loaded' = Loaded
           /\ UNCHANGED <<sms, crashes>>
           /\ Len(hist') = Len(hist) + 1
           /\ \A i \in 1 .. Len(hist) : hist'[i] = hist[i]
<1>1. UNCHANGED <<sms, applier, disk, crashes>>
  BY DEF Propose
<1>2. Committed(Cur)' = Committed(Cur) /\ Loaded' = Loaded
  BY <1>1, SamePosition, SameFiles
<1>3. /\ Len(hist') = Len(hist) + 1
      /\ \A i \in 1 .. Len(hist) : hist'[i] = hist[i]
  <2>1. hist \in Seq(State) /\ Len(log) \in Nat /\ Len(hist) = Len(log) + 1
    BY CommittedTypes DEF Inv, Types
  <2>2. \E st : hist' = Append(hist, st)
    BY DEF Propose
  <2> QED  BY <2>1, <2>2
<1> QED  BY <1>1, <1>2, <1>3

LEMMA RestartAtLoaded ==
    ASSUME Inv, Restart
    PROVE  /\ Committed(Cur)' = Loaded.la /\ Loaded' = Loaded
           /\ UNCHANGED hist /\ crashes' = crashes + 1
<1>1. /\ sms' = <<FromDB(Loaded)>> /\ applier'.pc = "idle"
      /\ UNCHANGED <<disk, hist>> /\ crashes' = crashes + 1
  BY DEF Restart, Idle
<1>2. FromDB(Loaded).writable.la = Loaded.la
  BY DEF FromDB
<1>3. Committed(Cur)' = sms'[Len(sms')].writable.la
  BY <1>1 DEF Committed, Applying, Cur
<1> QED  BY <1>1, <1>2, <1>3, SameFiles

\* No step but a restart takes the committed state back, and none makes the
\* snapshot that a restart would load an older one (apply_entries,
\* do_install_snapshot's check of last_applied, clean_old_snapshots).
THEOREM ForwardOnly == Spec => NeverBackwards
<1> DEFINE Step == /\ crashes' = crashes => Committed(Cur)' >= Committed(Cur)
                   /\ Loaded'.la >= Loaded.la
<1>1. Inv /\ Inv' /\ LoadedOK' /\ [Next]_vars => [Step]_vars
  <2> SUFFICES ASSUME Inv, Inv', LoadedOK', [Next]_vars PROVE Step
    OBVIOUS
  <2>1. /\ Committed(Cur) \in Nat /\ Loaded.la \in Nat /\ Loaded'.la \in Nat
        /\ crashes \in Nat
    BY CommittedTypes, LoadedCovers DEF LoadedOK, Inv, Types
  <2>2. CASE Forward
    BY <2>1, <2>2, LoadedCovers DEF Forward, LoadedOK
  <2>3. ASSUME NEW e \in Entry, Propose(e) PROVE Step
    BY <2>1, <2>3, GrowthAlone
  <2>4. CASE Restart
    BY <2>1, <2>4, RestartAtLoaded
  <2> QED  BY <2>2, <2>3, <2>4, StepForward
<1>2. Spec => [][Step]_vars
  BY Invariance, LoadedCovers, <1>1, PTL DEF Spec
<1> QED  BY <1>2 DEF NeverBackwards

-----------------------------------------------------------------------------
(***************************************************************************)
(* The store implements ReplicatedMap.                                      *)
(***************************************************************************)
ShownMap == [k \in Keys |-> Seen(Get(sms[Cur], k, sms[Cur].writable.seq))]

\* What a client reads is the state at the committed position.
ShownOK ==
    /\ Committed(Cur) \in Nat /\ Committed(Cur) <= Len(log)
    /\ Len(hist) = Len(log) + 1 /\ Len(log) \in Nat
    /\ ShownMap = hist[Committed(Cur) + 1].kv

LEMMA ShownState == Inv => ShownOK
<1> SUFFICES ASSUME Inv PROVE ShownOK
  OBVIOUS
<1>1. /\ Committed(Cur) \in Nat /\ Committed(Cur) <= Len(log)
      /\ hist[Committed(Cur) + 1].kv \in [Keys -> Nat]
      /\ sms[Cur] \in LMType /\ MapOK(Cur) /\ uniq \in Nat
      /\ Len(hist) = Len(log) + 1 /\ Len(log) \in Nat
  BY CommittedTypes DEF Inv, MapsOK, Types
<1>2. \A k \in Keys : Seen(Get(sms[Cur], k, sms[Cur].writable.seq))
                        = hist[Committed(Cur) + 1].kv[k]
  BY <1>1, GetShows DEF MapOK, ShowsState
<1>3. ShownMap = hist[Committed(Cur) + 1].kv
  BY <1>1, <1>2 DEF ShownMap
<1> QED  BY <1>1, <1>3 DEF ShownOK

LEMMA AbstractStep ==
    ASSUME Inv, LoadedOK, LoadedOK', ShownOK, ShownOK', [Next]_vars
    PROVE  Abstract!Next
<1>1. CASE Forward
  <2>1. /\ Committed(Cur)' \in Committed(Cur) .. (Len(hist) - 1)
        /\ Loaded'.la \in Loaded.la .. (Len(hist) - 1)
        /\ UNCHANGED hist
        /\ ShownMap' = hist[Committed(Cur)' + 1].kv
    BY <1>1 DEF Forward, LoadedOK, ShownOK
  <2> QED  BY <2>1 DEF Abstract!Next, Abstract!Advance, ShownMap
<1>2. ASSUME NEW e \in Entry, Propose(e) PROVE Abstract!Next
  <2>1. ShownMap' = ShownMap
    BY <1>2, GrowthAlone DEF ShownMap, Cur
  <2> QED  BY <1>2, <2>1, GrowthAlone DEF Abstract!Next, Abstract!Grow, ShownMap
<1>3. CASE Restart
  <2>1. /\ Committed(Cur)' = Loaded.la /\ Loaded' = Loaded /\ UNCHANGED hist
        /\ ShownMap' = hist[Committed(Cur)' + 1].kv
    BY <1>3, RestartAtLoaded DEF ShownOK
  <2> QED  BY <2>1 DEF Abstract!Next, Abstract!Recover, ShownMap
<1> QED  BY <1>1, <1>2, <1>3, StepForward

\* A client sees whole batches only, a restart shows the newest snapshot, and
\* nothing else the store does can be seen (apply_entries, do_build_snapshot,
\* in_memory_compact_once, do_install_snapshot, RaftStore::open).
THEOREM Refinement == Spec => ImplementsReplicatedMap
<1>1. Init /\ Inv /\ ShownOK => Abstract!Init
  <2> SUFFICES ASSUME Init, Inv, ShownOK PROVE Abstract!Init
    OBVIOUS
  <2>1. Len(hist) = 1 /\ Loaded.la = 0
    BY DEF Init, Loaded, EmptyDB
  <2>2. Committed(Cur) = 0 /\ ShownMap = hist[1].kv
    <3>1. Len(log) = 0
      BY DEF Init
    <3>2. Committed(Cur) = 0
      BY <3>1 DEF ShownOK
    <3> QED  BY <3>2 DEF ShownOK
  <2> QED  BY <2>1, <2>2 DEF Abstract!Init, ShownMap
<1>2. Inv /\ LoadedOK /\ LoadedOK' /\ ShownOK /\ ShownOK' /\ [Next]_vars => Abstract!Next
  BY AbstractStep
<1> QED  BY Invariance, LoadedCovers, ShownState, InitInv, <1>1, <1>2, PTL
         DEF Spec, ImplementsReplicatedMap, Abstract!Spec
=============================================================================
