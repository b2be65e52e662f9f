----------------------- MODULE StateMachineStoreProofs -----------------------
(***************************************************************************)
(* The steps on snapshot files preserve the invariant of StateMachineStore, *)
(* and the theorems: for every set of keys and every bound, the properties  *)
(* that the runs check on small instances.                                  *)
(***************************************************************************)
EXTENDS StateMachineLevelsProofs

-----------------------------------------------------------------------------
(***************************************************************************)
(* Snapshot files.                                                          *)
(***************************************************************************)
LEMMA SnapshotAtSound ==
    ASSUME Inv, NEW j \in Nat, j <= Len(log)
    PROVE  /\ SnapshotAt(j) \in DB /\ SnapshotAt(j).la = j
           /\ \A k \in Keys : SnapshotAt(j).kv[k] <= SnapshotAt(j).seq
           /\ FromDB(SnapshotAt(j)) \in LMType /\ Sound(FromDB(SnapshotAt(j)))
           /\ \A u \in Nat : IdsBelow(FromDB(SnapshotAt(j)).imm, u)
           /\ FromDB(SnapshotAt(j)).writable.la = j
           /\ ShowsState(FromDB(SnapshotAt(j)), hist[j + 1])
<1> DEFINE db == SnapshotAt(j)
<1>1. db \in DB
  BY CommittedTypes
<1>2. db.la = j /\ db.seq = hist[j + 1].seq /\ db.kv = hist[j + 1].kv
  BY DEF SnapshotAt
<1>3. \A k \in Keys : db.kv[k] <= db.seq
  <2>1. j + 1 \in 1 .. Len(hist)
    BY DEF Inv, Types
  <2> QED  BY <2>1, <1>2 DEF Inv, HistOK
<1> HIDE DEF db
<1>4. /\ FromDB(db) \in LMType /\ Sound(FromDB(db))
      /\ \A u \in Nat : IdsBelow(FromDB(db).imm, u)
      /\ FromDB(db).writable.la = db.la /\ FromDB(db).writable.seq = db.seq
      /\ \A k \in Keys : Shows(Versions(FromDB(db), k), db.kv[k])
  BY <1>1, <1>3, FromDBSound
<1>5. ShowsState(FromDB(db), hist[j + 1])
  BY <1>2, <1>4 DEF ShowsState
<1> QED  BY <1>1, <1>2, <1>3, <1>4, <1>5 DEF db

LEMMA FreshFileTypes ==
    ASSUME Inv, NEW db \in DB
    PROVE  /\ FreshFile(db) \in [db : DB, uniq : Nat] /\ FreshFile(db).db = db
           /\ \A f \in disk : f.uniq < FreshFile(db).uniq
<1> DEFINE used == {f.uniq : f \in disk}
           top == CHOOSE u \in used : \A w \in used : w <= u
<1>1. used \in SUBSET Nat /\ \E b \in Nat : \A u \in used : u <= b
  BY DEF Inv, Types, DiskOK
<1>2. FreshFile(db) = [db |-> db, uniq |-> IF used = {} THEN 0 ELSE 1 + top]
  BY DEF FreshFile, NextUniq
<1>3. CASE used = {}
  BY <1>2, <1>3
<1>4. CASE used # {}
  <2>1. top \in used /\ \A w \in used : w <= top
    <3> HIDE DEF used
    <3> QED  BY <1>1, <1>4, NatMax
  <2>2. \A f \in disk : f.uniq \in used
    OBVIOUS
  <2>3. top \in Nat /\ 1 + top \in Nat
    <3> HIDE DEF used, top
    <3> QED  BY <1>1, <2>1
  <2>4. FreshFile(db) = [db |-> db, uniq |-> 1 + top]
    BY <1>2, <1>4
  <2> HIDE DEF used, top
  <2>5. FreshFile(db).uniq = 1 + top /\ FreshFile(db).db = db
    BY <2>4
  <2>6. ASSUME NEW f \in disk PROVE f.uniq < 1 + top
    <3>1. f.uniq \in Nat /\ f.uniq <= top
      BY <1>1, <2>1, <2>2
    <3> QED  BY <3>1, <2>3
  <2> QED  BY <2>3, <2>4, <2>5, <2>6
<1> QED  BY <1>3, <1>4

LEMMA NextUniqType ==
    ASSUME Inv
    PROVE  NextUniq \in Nat
<1>1. FreshFile(EmptyDB) \in [db : DB, uniq : Nat]
  BY EmptyTypes, FreshFileTypes
<1> QED  BY <1>1 DEF FreshFile

\* A new file that holds what its name says leaves the directory right.
LEMMA NewFileDisk ==
    ASSUME Inv, NEW new \in [db : DB, uniq : Nat], new.db.la <= Len(log),
           new.db = SnapshotAt(new.db.la), UNCHANGED <<log, hist>>,
           disk' = disk \cup {new}, install' \in {install, new}
    PROVE  DiskOK' /\ disk' \subseteq [db : DB, uniq : Nat]
<1>1. disk \subseteq [db : DB, uniq : Nat]
  BY DEF Inv, Types
<1>2. disk' \subseteq [db : DB, uniq : Nat]
  BY <1>1
<1>3. \E b \in Nat : \A f \in disk' : f.uniq <= b
  <2>1. PICK b \in Nat : \A f \in disk : f.uniq <= b
    BY DEF Inv, DiskOK
  <2>2. PICK c \in Nat : b <= c /\ new.uniq <= c
    <3>1. b + new.uniq \in Nat /\ b <= b + new.uniq /\ new.uniq <= b + new.uniq
      OBVIOUS
    <3> QED  BY <3>1
  <2>3. ASSUME NEW f \in disk' PROVE f.uniq <= c
    BY <2>1, <2>2, <1>1
  <2> QED  BY <2>3
<1>4. /\ \A f \in disk' : f.db.la <= Len(log) /\ f.db = SnapshotAt(f.db.la)
      /\ install'.db.la <= Len(log) /\ install'.db = SnapshotAt(install'.db.la)
  BY DEF Inv, DiskOK
<1>5. \A i : SnapshotAt(i)' = SnapshotAt(i)
  BY DEF SnapshotAt
<1>6. DiskOK'
  BY <1>3, <1>4, <1>5 DEF DiskOK
<1> QED  BY <1>2, <1>6

\* What a build writes is the snapshot its name promises.
LEMMA BuiltFile ==
    ASSUME Inv, builder.pc \in {"frozen", "written"}
    PROVE  \E t \in DOMAIN builder.imm :
             /\ \A j \in DOMAIN builder.imm : j <= t
             /\ NewestIndex(builder.imm) = t
             /\ builder.imm[t].la \in Nat /\ builder.imm[t].la <= Len(log)
             /\ CompactIntoDB(builder.imm, builder.db) = SnapshotAt(builder.imm[t].la)
             /\ \A k \in Keys :
                  Shows(MergedVersions(builder.imm, builder.db, k) \cup {NotFound},
                        SnapshotAt(builder.imm[t].la).kv[k])
<1> DEFINE imm == builder.imm
           db == builder.db
           b == sms[builder.sm].writable.seq
<1>1. /\ imm \in ImmMap /\ db \in DB /\ b \in Nat /\ ImmSound(imm, db, b)
  <2>1. /\ builder.sm \in 1 .. Len(sms)
        /\ sms[builder.sm].imm = imm /\ sms[builder.sm].db = db
    BY DEF Inv, BuildOK
  <2>2. Sound(sms[builder.sm])
    BY <2>1 DEF Inv, MapsOK, MapOK
  <2> QED  BY <2>1, <2>2, CommittedTypes DEF Inv, Types, BuilderType, Sound
<1>2. PICK t \in DOMAIN imm :
        /\ \A j \in DOMAIN imm : j <= t
        /\ imm[t].la <= Len(log)
        /\ imm[t].seq = hist[imm[t].la + 1].seq
        /\ \A k \in Keys : Shows(MergedVersions(imm, db, k) \cup {NotFound},
                                 hist[imm[t].la + 1].kv[k])
  BY DEF Inv, BuildOK, FrozenOK
<1> DEFINE st == hist[imm[t].la + 1]
<1>3. imm[t].la \in Nat
  BY <1>1, ImmLevels
<1>4. st.kv \in [Keys -> Nat]
  BY <1>2, <1>3, CommittedTypes
<1>5. /\ NewestIndex(imm) = t
      /\ CompactIntoDB(imm, db) = [la |-> imm[t].la, seq |-> imm[t].seq, kv |-> st.kv]
  <2> DEFINE kv == st.kv
  <2>1. \A k \in Keys : Shows(MergedVersions(imm, db, k) \cup {NotFound}, kv[k])
    BY <1>2
  <2>2. kv \in [Keys -> Nat]
    BY <1>4
  <2>3. t \in DOMAIN imm /\ \A j \in DOMAIN imm : j <= t
    BY <1>2
  <2> HIDE DEF imm, db, b, kv
  <2>4. /\ NewestIndex(imm) = t
        /\ CompactIntoDB(imm, db) = [la |-> imm[t].la, seq |-> imm[t].seq, kv |-> kv]
    BY <2>1, <2>2, <2>3, <1>1, CompactIntoDBExact
  <2> QED  BY <2>4 DEF kv
<1>6. CompactIntoDB(imm, db) = SnapshotAt(imm[t].la)
  BY <1>2, <1>5 DEF SnapshotAt
<1>7. \A k \in Keys : SnapshotAt(imm[t].la).kv[k] = st.kv[k]
  BY DEF SnapshotAt
<1> QED  BY <1>2, <1>3, <1>5, <1>6, <1>7

LEMMA BuiltFileDisk ==
    ASSUME Inv, builder.pc = "frozen", UNCHANGED <<log, hist, install>>,
           disk' = disk \cup {FreshFile(CompactIntoDB(builder.imm, builder.db))}
    PROVE  /\ DiskOK' /\ disk' \subseteq [db : DB, uniq : Nat]
           /\ CompactIntoDB(builder.imm, builder.db) \in DB
<1> DEFINE file == CompactIntoDB(builder.imm, builder.db)
<1>1. PICK j \in Nat : j <= Len(log) /\ file = SnapshotAt(j)
  BY BuiltFile
<1>2. file \in DB /\ file.la = j
  BY <1>1, SnapshotAtSound
<1> HIDE DEF file
<1>3. FreshFile(file) \in [db : DB, uniq : Nat] /\ FreshFile(file).db = file
  BY <1>2, FreshFileTypes
<1>4. disk' = disk \cup {FreshFile(file)}
  BY DEF file
<1>5. DiskOK' /\ disk' \subseteq [db : DB, uniq : Nat]
  BY <1>1, <1>2, <1>3, <1>4, NewFileDisk
<1> QED  BY <1>2, <1>5 DEF file

LEMMA BuildWriteInv ==
    ASSUME Inv, BuildWrite
    PROVE  Inv'
<1> DEFINE file == CompactIntoDB(builder.imm, builder.db)
<1>1. /\ builder.pc = "frozen"
      /\ disk' = disk \cup {FreshFile(file)}
      /\ builder' = [builder EXCEPT !.pc = "written", !.file = file]
      /\ UNCHANGED <<log, hist, sms, uniq, permit, applier, inmem, raftSnap,
                     purged, installs, crashes, writer, install>>
  BY DEF BuildWrite
<1>3. file \in DB
  BY <1>1, BuiltFileDisk
<1>4. DiskOK' /\ disk' \subseteq [db : DB, uniq : Nat]
  BY <1>1, BuiltFileDisk
<1>5. /\ builder' \in BuilderType /\ builder'.pc = "written"
      /\ builder'.sm = builder.sm /\ builder'.imm = builder.imm
      /\ builder'.db = builder.db /\ builder'.file = file
  <2>1. builder \in BuilderType
    BY DEF Inv, Types
  <2> HIDE DEF file
  <2> QED  BY <2>1, <1>1, <1>3 DEF BuilderType
<1>6. Types'
  BY <1>1, <1>4, <1>5 DEF Inv, Types
<1>7. HistOK' /\ MapsOK' /\ ViewOK'
  BY <1>1 DEF Inv, HistOK, MapsOK, MapOK, ShowsState, Committed, Applying, Cur,
              ViewOK, StagedOK
<1>8. PermitOK'
  BY <1>1, <1>5 DEF Inv, PermitOK
<1>9. BuildOK'
  <2>1. FrozenOK(builder.imm, builder.db)' <=> FrozenOK(builder.imm, builder.db)
    BY <1>1, <1>5 DEF FrozenOK
  <2> HIDE DEF file
  <2>2. builder'.file = CompactIntoDB(builder'.imm, builder'.db)
    BY <1>5 DEF file
  <2> QED  BY <2>1, <2>2, <1>1, <1>5 DEF Inv, BuildOK
<1> QED  BY <1>4, <1>6, <1>7, <1>8, <1>9 DEF Inv

LEMMA BuildOpenErrorInv ==
    ASSUME Inv, BuildOpenError
    PROVE  Inv'
<1>1. /\ builder.pc = "frozen" /\ builder' = NoBuild /\ permit' = "free"
      /\ disk' = disk \cup {FreshFile(CompactIntoDB(builder.imm, builder.db))}
      /\ UNCHANGED <<log, hist, sms, uniq, writer, applier, inmem, install,
                     raftSnap, purged, installs, crashes>>
  BY DEF BuildOpenError
<1>2. DiskOK' /\ disk' \subseteq [db : DB, uniq : Nat]
  BY <1>1, BuiltFileDisk
<1>3. builder'.pc = "idle" /\ builder' \in BuilderType
  BY <1>1, EmptyTypes DEF NoBuild
<1>4. Types'
  BY <1>1, <1>2, <1>3 DEF Inv, Types
<1>5. HistOK' /\ MapsOK' /\ ViewOK'
  BY <1>1 DEF Inv, HistOK, MapsOK, MapOK, ShowsState, Committed, Applying, Cur,
              ViewOK, StagedOK
<1>6. PermitOK' /\ BuildOK'
  BY <1>1, <1>3 DEF Inv, PermitOK, BuildOK
<1> QED  BY <1>2, <1>4, <1>5, <1>6 DEF Inv

LEMMA BuildReplaceInv ==
    ASSUME Inv, BuildReplace
    PROVE  Inv'
<1> DEFINE x == builder.sm
           lm == sms[x]
<1>1. /\ builder.pc = "written"
      /\ sms' = [sms EXCEPT ![x] =
                   ReplaceWithCompacted(lm, NewestIndex(builder.imm), builder.file)]
      /\ builder' = [NoBuild EXCEPT !.pc = "replaced", !.sm = x,
                                    !.file = builder.file]
      /\ UNCHANGED <<log, hist, uniq, permit, writer, applier, inmem, install,
                     disk, raftSnap, purged, installs, crashes>>
  BY DEF BuildReplace
<1>2. PICK t \in DOMAIN builder.imm :
        /\ \A j \in DOMAIN builder.imm : j <= t
        /\ NewestIndex(builder.imm) = t
        /\ \A k \in Keys :
             Shows(MergedVersions(builder.imm, builder.db, k) \cup {NotFound},
                   builder.file.kv[k])
  <2>1. builder.file = CompactIntoDB(builder.imm, builder.db)
    BY <1>1 DEF Inv, BuildOK
  <2> QED  BY <2>1, <1>1, BuiltFile
<1> DEFINE new == ReplaceWithCompacted(lm, t, builder.file)
<1>3. /\ x \in 1 .. Len(sms) /\ lm \in LMType /\ Sound(lm) /\ uniq \in Nat
      /\ lm.imm = builder.imm /\ lm.db = builder.db
      /\ builder.file \in DB
  <2>1. x \in 1 .. Len(sms) /\ lm.imm = builder.imm /\ lm.db = builder.db
    BY <1>1 DEF Inv, BuildOK
  <2> QED  BY <2>1, CommittedTypes DEF Inv, Types, BuilderType, MapsOK, MapOK
<1>4. /\ new \in LMType /\ Sound(new) /\ \A u \in Nat : IdsBelow(new.imm, u)
      /\ new.writable = lm.writable
      /\ \A k \in Keys, n \in Nat :
           Shows(Versions(lm, k), n) => Shows(Versions(new, k), n)
  <2> DEFINE file == builder.file
  <2>1. /\ t \in DOMAIN lm.imm /\ \A j \in DOMAIN lm.imm : j <= t
        /\ \A k \in Keys : Shows(MergedVersions(lm.imm, lm.db, k) \cup {NotFound},
                                 file.kv[k])
        /\ file \in DB
    BY <1>2, <1>3
  <2>2. new = ReplaceWithCompacted(lm, t, file)
    OBVIOUS
  <2> HIDE DEF lm, file, new
  <2> QED  BY <2>1, <2>2, <1>3, ReplaceKeeps
<1>5. sms' = [sms EXCEPT ![x] = new]
  BY <1>1, <1>2
<1> HIDE DEF new
<1>6. /\ sms' \in Seq(LMType) /\ sms' # <<>> /\ Len(sms') = Len(sms)
      /\ HistOK' /\ MapsOK' /\ ViewOK'
  <2>1. uniq' \in Nat /\ uniq <= uniq' /\ IdsBelow(new.imm, uniq')
    BY <1>1, <1>3, <1>4
  <2> QED  BY <2>1, <1>1, <1>3, <1>4, <1>5, LevelsStep
<1>7. builder' \in BuilderType /\ builder'.pc = "replaced" /\ builder'.sm = x
  <2>1. NoBuild \in BuilderType /\ x \in Nat
    BY EmptyTypes, <1>3
  <2> QED  BY <2>1, <1>1, <1>3 DEF BuilderType
<1>8. Types'
  BY <1>1, <1>6, <1>7 DEF Inv, Types
<1>9. PermitOK' /\ DiskOK'
  BY <1>1, <1>7 DEF Inv, PermitOK, DiskOK, SnapshotAt
<1>10. BuildOK'
  BY <1>3, <1>6, <1>7 DEF BuildOK
<1> QED  BY <1>6, <1>8, <1>9, <1>10 DEF Inv

LEMMA BuildCleanInv ==
    ASSUME Inv, BuildClean \/ BuildCleanFails
    PROVE  Inv'
<1>1. /\ builder.pc = "clean" /\ builder' = NoBuild
      /\ disk' \subseteq disk /\ raftSnap' \in {raftSnap, builder.file.la}
      /\ UNCHANGED <<log, hist, sms, uniq, permit, applier, inmem, purged,
                     installs, crashes, writer, install>>
  BY DEF BuildClean, BuildCleanFails
<1>2. builder'.pc = "idle" /\ builder' \in BuilderType
  BY <1>1, EmptyTypes DEF NoBuild
<1>3. raftSnap' \in Nat
  BY <1>1 DEF Inv, Types, BuilderType, DB
<1>4. Types'
  BY <1>1, <1>2, <1>3 DEF Inv, Types
<1>5. HistOK' /\ MapsOK' /\ ViewOK'
  BY <1>1 DEF Inv, HistOK, MapsOK, MapOK, ShowsState, Committed, Applying, Cur,
              ViewOK, StagedOK
<1>6. PermitOK' /\ BuildOK'
  BY <1>1, <1>2 DEF Inv, PermitOK, BuildOK
<1>7. DiskOK'
  BY <1>1 DEF Inv, DiskOK, SnapshotAt
<1> QED  BY <1>4, <1>5, <1>6, <1>7 DEF Inv

LEMMA InstallMoveInv ==
    ASSUME Inv, NEW i \in 1 .. Len(log), NEW u \in Nat, InstallMove(i, u)
    PROVE  Inv'
<1> DEFINE new == [db |-> SnapshotAt(i), uniq |-> u]
<1>1. /\ applier.pc = "idle" /\ install' = new
      /\ disk' = disk \cup {new}
      /\ installs' = installs + 1
      /\ UNCHANGED <<log, hist, sms, uniq, permit, writer, applier, builder, inmem,
                     raftSnap, purged, crashes>>
  BY DEF InstallMove
<1>2. i \in Nat /\ i <= Len(log)
  BY CommittedTypes
<1>3. /\ new \in [db : DB, uniq : Nat] /\ new.db.la <= Len(log)
      /\ new.db = SnapshotAt(new.db.la)
  BY <1>2, SnapshotAtSound
<1> HIDE DEF new
<1>4. DiskOK' /\ disk' \subseteq [db : DB, uniq : Nat]
  BY <1>1, <1>3, NewFileDisk
<1>5. Types'
  <2>1. installs' \in Nat
    BY <1>1 DEF Inv, Types
  <2> QED  BY <2>1, <1>1, <1>3, <1>4 DEF Inv, Types
<1>6. HistOK' /\ MapsOK' /\ ViewOK'
  BY <1>1 DEF Inv, HistOK, MapsOK, MapOK, ShowsState, Committed, Applying, Cur,
              ViewOK, StagedOK
<1>7. PermitOK'
  BY <1>1 DEF Inv, PermitOK
<1>8. BuildOK'
  BY <1>1 DEF Inv, BuildOK, FrozenOK
<1> QED  BY <1>4, <1>5, <1>6, <1>7, <1>8 DEF Inv

\* The end of an install leaves no file under way.
LEMMA InstallEnds ==
    ASSUME Inv, install' = NoFile, UNCHANGED <<log, hist, disk>>
    PROVE  DiskOK' /\ install' \in [db : DB, uniq : Nat]
<1>1. hist[1] = InitialState /\ Len(log) \in Nat
  BY CommittedTypes DEF Inv, HistOK
<1>2. /\ NoFile \in [db : DB, uniq : Nat]
      /\ NoFile.db.la = 0 /\ NoFile.db = SnapshotAt(NoFile.db.la)
  BY <1>1, NoFileSound
<1>3. \A i : SnapshotAt(i)' = SnapshotAt(i)
  BY DEF SnapshotAt
<1>4. DiskOK'
  BY <1>1, <1>2, <1>3 DEF Inv, DiskOK
<1> QED  BY <1>2, <1>4

LEMMA InstallErrorInv ==
    ASSUME Inv, InstallError
    PROVE  Inv'
<1>1. /\ install # NoFile /\ install' = NoFile
      /\ applier' = [Idle EXCEPT !.pc = "failed"]
      /\ UNCHANGED <<log, hist, sms, uniq, permit, writer, builder, inmem, disk,
                     raftSnap, purged, installs, crashes>>
  BY DEF InstallError
<1>2. DiskOK' /\ install' \in [db : DB, uniq : Nat]
  BY <1>1, InstallEnds
<1>3. applier' \in ApplierType /\ applier'.pc = "failed"
  <2>1. Idle \in ApplierType
    BY EmptyTypes
  <2> QED  BY <2>1, <1>1 DEF ApplierType
<1>4. applier.pc = "idle" /\ writer # "applier"
  BY <1>1 DEF Inv, PermitOK
<1>5. Types'
  BY <1>1, <1>2, <1>3 DEF Inv, Types
<1>6. ~Applying /\ ~Applying'
  BY <1>3, <1>4 DEF Applying
<1>7. HistOK' /\ MapsOK' /\ ViewOK'
  BY <1>1, <1>6 DEF Inv, HistOK, MapsOK, MapOK, ShowsState, Committed, ViewOK
<1>8. PermitOK'
  BY <1>1, <1>3, <1>4 DEF Inv, PermitOK
<1>9. BuildOK'
  BY <1>1 DEF Inv, BuildOK, FrozenOK
<1> QED  BY <1>2, <1>5, <1>7, <1>8, <1>9 DEF Inv

LEMMA InstallReplaceInv ==
    ASSUME Inv, InstallReplace
    PROVE  Inv'
<1> DEFINE mine == sms[Cur].writable.la
           db == install.db
           i == install.db.la
<1>1. /\ install # NoFile /\ install' = NoFile
      /\ sms' = IF mine > 0 /\ mine >= i THEN sms ELSE Append(sms, FromDB(db))
      /\ raftSnap' = i
      /\ UNCHANGED <<log, hist, uniq, permit, writer, applier, builder, inmem, disk,
                     purged, installs, crashes>>
  BY DEF InstallReplace
<1>2. i \in Nat /\ i <= Len(log) /\ db = SnapshotAt(i)
  BY DEF Inv, Types, DB, DiskOK
<1>3. DiskOK' /\ install' \in [db : DB, uniq : Nat]
  BY <1>1, InstallEnds
<1>4. /\ FromDB(db) \in LMType /\ Sound(FromDB(db)) /\ IdsBelow(FromDB(db).imm, uniq)
      /\ FromDB(db).writable.la = i /\ ShowsState(FromDB(db), hist[i + 1])
  <2> HIDE DEF i, db
  <2> QED  BY <1>2, SnapshotAtSound DEF Inv, Types
<1> HIDE DEF db, i
<1>5. /\ sms' \in Seq(LMType) /\ sms' # <<>>
      /\ Len(sms') \in Nat /\ Len(sms) <= Len(sms')
      /\ \A j \in 1 .. Len(sms) : sms'[j] = sms[j]
      /\ \A j \in 1 .. Len(sms') :
           j \in 1 .. Len(sms) \/ (j = Len(sms) + 1 /\ sms'[j] = FromDB(db))
  <2>1. sms \in Seq(LMType) /\ sms # <<>>
    BY DEF Inv, Types
  <2>2. CASE mine > 0 /\ mine >= i
    BY <2>1, <2>2, <1>1
  <2>3. CASE ~(mine > 0 /\ mine >= i)
    <3>1. sms' = Append(sms, FromDB(db))
      BY <2>3, <1>1
    <3> QED  BY <3>1, <2>1, <1>4
  <2> QED  BY <2>2, <2>3
<1>6. applier.pc = "idle" /\ ~Applying /\ ~Applying'
  BY <1>1 DEF Inv, PermitOK, Applying
<1>7. Types'
  BY <1>1, <1>2, <1>3, <1>5 DEF Inv, Types
<1>8. HistOK' /\ PermitOK' /\ ViewOK'
  BY <1>1, <1>6 DEF Inv, HistOK, PermitOK, ViewOK
<1>9. MapsOK'
  <2>1. ASSUME NEW j \in 1 .. Len(sms) PROVE MapOK(j)'
    BY <1>1, <1>5, <1>6 DEF Inv, MapsOK, MapOK, ShowsState, Committed
  <2>2. ASSUME NEW j \in 1 .. Len(sms'), sms'[j] = FromDB(db) PROVE MapOK(j)'
    <3>1. Committed(j)' = i
      BY <2>2, <1>4, <1>6 DEF Committed
    <3> QED  BY <3>1, <2>2, <1>1, <1>2, <1>4 DEF MapOK
  <2> QED  BY <2>1, <2>2, <1>5 DEF MapsOK
<1>10. BuildOK'
  <2>1. FrozenOK(builder.imm, builder.db)' <=> FrozenOK(builder.imm, builder.db)
    BY <1>1 DEF FrozenOK
  <2>2. Len(sms) \in Nat /\ Len(sms') \in Nat /\ Len(sms) <= Len(sms')
    BY <1>5, CommittedTypes
  <2>3. \A j \in 1 .. Len(sms) : j \in 1 .. Len(sms')
    BY <2>2
  <2> QED  BY <2>1, <2>3, <1>1, <1>5 DEF Inv, BuildOK
<1> QED  BY <1>3, <1>7, <1>8, <1>9, <1>10 DEF Inv

\* The file a restart loads exists: there is a last one in the id order.
LEMMA LastFileExists ==
    ASSUME Inv, disk # {}
    PROVE  LastFile \in disk /\ \A g \in disk : ~Later(g, LastFile)
<1> DEFINE A == {f.db.la : f \in disk}
<1>1. /\ A \in SUBSET Nat /\ A # {} /\ \A a \in A : a <= Len(log)
      /\ Len(log) \in Nat
      /\ \A f \in disk : f.db.la \in Nat /\ f.uniq \in Nat
  <2>1. \A f \in disk : f.db \in DB /\ f.uniq \in Nat /\ f.db.la <= Len(log)
    BY DEF Inv, Types, DiskOK
  <2>2. \A f \in disk : f.db.la \in Nat
    BY <2>1 DEF DB
  <2> QED  BY <2>1, <2>2, CommittedTypes
<1>2. PICK m \in A : \A a \in A : a <= m
  <2> HIDE DEF A
  <2> QED  BY <1>1, NatMax
<1> DEFINE U == {f.uniq : f \in {g \in disk : g.db.la = m}}
<1>3. U \in SUBSET Nat /\ U # {}
  BY <1>1, <1>2
<1>4. PICK b \in Nat : \A u \in U : u <= b
  BY DEF Inv, DiskOK
<1>5. PICK u \in U : \A w \in U : w <= u
  <2> HIDE DEF U
  <2> QED  BY <1>3, <1>4, NatMax
<1>6. PICK f \in disk : f.db.la = m /\ f.uniq = u
  BY <1>5
<1>7. ASSUME NEW g \in disk, Later(g, f) PROVE FALSE
  <2>1. g.db.la <= m
    BY <1>2
  <2>2. g.db.la = m /\ g.uniq > u
    BY <2>1, <1>1, <1>6, <1>7 DEF Later
  <2>3. g.uniq <= u
    BY <2>2, <1>5
  <2> QED  BY <2>2, <2>3, <1>1, <1>3, <1>5
<1> QED  BY <1>6, <1>7 DEF LastFile

LEMMA LoadedSnapshot ==
    ASSUME Inv
    PROVE  /\ Loaded.la \in Nat /\ Loaded.la <= Len(log)
           /\ Loaded = SnapshotAt(Loaded.la)
<1>1. CASE disk = {}
  <2>1. Loaded = EmptyDB
    BY <1>1 DEF Loaded
  <2>2. EmptyDB.la = 0 /\ EmptyDB = SnapshotAt(0)
    <3>1. hist[0 + 1] = InitialState
      BY DEF Inv, HistOK
    <3> QED  BY <3>1 DEF InitialState, SnapshotAt, EmptyDB
  <2> QED  BY <2>1, <2>2, CommittedTypes
<1>2. CASE disk # {}
  BY <1>2, LastFileExists DEF Loaded, Inv, Types, DiskOK, DB
<1> QED  BY <1>1, <1>2

LEMMA RestartInv ==
    ASSUME Inv, Restart
    PROVE  Inv'
<1> DEFINE j == Loaded.la
           lm == FromDB(Loaded)
<1>1. /\ sms' = <<lm>> /\ uniq' = 0 /\ permit' = "free" /\ writer' = "free"
      /\ applier' = Idle /\ builder' = NoBuild /\ inmem' = "sleep"
      /\ install' = NoFile /\ raftSnap' = j
      /\ crashes' = crashes + 1
      /\ UNCHANGED <<log, hist, disk, purged, installs>>
  BY DEF Restart
<1>2. j \in Nat /\ j <= Len(log) /\ Loaded = SnapshotAt(j)
  BY LoadedSnapshot
<1>3. /\ lm \in LMType /\ Sound(lm) /\ IdsBelow(lm.imm, 0)
      /\ lm.writable.la = j /\ ShowsState(lm, hist[j + 1])
  <2> HIDE DEF j
  <2> QED  BY <1>2, SnapshotAtSound
<1> HIDE DEF lm, j
<1>4. applier'.pc = "idle" /\ ~Applying' /\ builder'.pc = "idle"
  BY <1>1 DEF Applying, Idle, NoBuild
<1>5. Len(sms') = 1 /\ sms'[1] = lm /\ sms' \in Seq(LMType) /\ sms' # <<>>
  BY <1>1, <1>3
<1>9. DiskOK' /\ install' \in [db : DB, uniq : Nat]
  BY <1>1, InstallEnds
<1>6. Types'
  <2>1. crashes' \in Nat
    BY <1>1 DEF Inv, Types
  <2> QED  BY <2>1, <1>1, <1>2, <1>5, <1>9, EmptyTypes DEF Inv, Types
<1>7. HistOK' /\ PermitOK' /\ ViewOK' /\ BuildOK'
  BY <1>1, <1>4 DEF Inv, HistOK, PermitOK, ViewOK, BuildOK
<1>8. MapsOK'
  <2>1. Committed(1)' = j
    BY <1>3, <1>4, <1>5 DEF Committed
  <2>2. MapOK(1)'
    BY <2>1, <1>1, <1>2, <1>3, <1>5 DEF MapOK
  <2> QED  BY <2>2, <1>5 DEF MapsOK
<1> QED  BY <1>6, <1>7, <1>8, <1>9 DEF Inv

-----------------------------------------------------------------------------
(***************************************************************************)
(* The invariant and the theorems.                                          *)
(***************************************************************************)
LEMMA StutterInv ==
    ASSUME Inv, UNCHANGED vars
    PROVE  Inv'
<1>1. HistOK' /\ MapsOK' /\ ViewOK' /\ DiskOK'
  BY DataUntouched DEF vars
<1>2. Types' /\ PermitOK'
  BY DEF Inv, Types, PermitOK, vars
<1>3. BuildOK'
  BY DEF Inv, BuildOK, FrozenOK, vars
<1> QED  BY <1>1, <1>2, <1>3 DEF Inv

\* Every reachable state of the store satisfies the inductive invariant.
THEOREM Invariance == Spec => []Inv
<1>1. Inv /\ [Next]_vars => Inv'
  <2> SUFFICES ASSUME Inv, [Next]_vars PROVE Inv'
    OBVIOUS
  <2>1. ASSUME NEW e \in Entry, Propose(e) PROVE Inv'
    BY <2>1, ProposeInv
  <2>2. CASE ApplyStart \/ ApplyEntry \/ ApplyCommit
    BY <2>2, ApplyStartInv, ApplyEntryInv, ApplyCommitInv
  <2>3. CASE Build
    BY <2>3, ControlInv, BuildFreezeInv, BuildWriteInv, BuildReplaceInv,
       BuildOpenErrorInv, BuildCleanInv DEF Build
  <2>4. CASE Compact
    BY <2>4, ControlInv, CompactFreezeInv, CompactMergeInv DEF Compact
  <2>5. ASSUME NEW i \in 1 .. Len(log), Purge(i) PROVE Inv'
    BY <2>5, PurgeInv
  <2>6. CASE Restart
    BY <2>6, RestartInv
  <2>7. CASE UNCHANGED vars
    BY <2>7, StutterInv
  <2>8. ASSUME NEW i \in 1 .. Len(log), NEW u \in {0, NextUniq}, InstallMove(i, u)
        PROVE  Inv'
    BY <2>8, NextUniqType, InstallMoveInv
  <2>9. CASE InstallReplace \/ InstallError
    BY <2>9, InstallReplaceInv, InstallErrorInv
  <2>10. CASE Watch
    BY <2>10, ControlInv DEF Watch
  <2> QED  BY <2>1, <2>2, <2>3, <2>4, <2>5, <2>6, <2>7, <2>8, <2>9, <2>10 DEF Next
<1> QED  BY InitInv, <1>1, PTL DEF Spec

\* The type invariant that the runs check.
THEOREM TypeCorrect == Spec => []TypeOK
<1>1. Inv => TypeOK
  <2> SUFFICES ASSUME Inv PROVE TypeOK
    OBVIOUS
  <2>1. \A imm \in ImmMap : Immutables(imm)
    BY ImmLevels DEF Immutables
  <2>2. \A i \in 1 .. Len(sms) : Map(sms[i]) /\ sms[i].writable.la <= Len(log)
    <3> SUFFICES ASSUME NEW i \in 1 .. Len(sms)
                 PROVE  Map(sms[i]) /\ sms[i].writable.la <= Len(log)
      OBVIOUS
    <3>1. sms[i] \in LMType /\ MapOK(i)
      BY CommittedTypes DEF Inv, MapsOK
    <3> QED  BY <3>1, <2>1 DEF LMType, Map, MapOK
  <2>3. /\ Len(sms) \in Nat \ {0} /\ DOMAIN sms = 1 .. Len(sms)
    BY CommittedTypes DEF Inv, Types
  <2>4. \A f \in disk : f.db \in DB /\ f.uniq \in Nat /\ f.db.la <= Len(log)
    BY DEF Inv, Types, DiskOK
  <2>5. /\ applier.pc \in {"idle", "apply", "failed"}
        /\ applier.start \in Nat /\ applier.base \in Nat
        /\ applier.view.seq \in Nat /\ applier.view.kv \in Table
    BY DEF Inv, Types, ApplierType
  <2>6. /\ builder.pc \in {"idle", "wait", "permit", "frozen", "written", "replaced",
                          "clean"}
        /\ Immutables(builder.imm) /\ builder.db \in DB /\ builder.file \in DB
    BY <2>1 DEF Inv, Types, BuilderType
  <2>7. builder.pc # "idle" => builder.sm \in DOMAIN sms
    BY <2>3 DEF Inv, BuildOK
  <2> QED  BY <2>2, <2>3, <2>4, <2>5, <2>6, <2>7 DEF TypeOK, Inv, Types
<1> QED  BY Invariance, <1>1, PTL

\* What any reader of the newest data sees is the replayed log, through any
\* number of levels, merges and snapshots (LeveledMap::get).
THEOREM ReadsAreTheLog == Spec => []ReadsMatchLog
<1>1. Inv => ReadsMatchLog
  <2> SUFFICES ASSUME Inv, NEW i \in DOMAIN sms
               PROVE  /\ sms[i].writable.seq = hist[Committed(i) + 1].seq
                      /\ \A k \in Keys :
                           Seen(Get(sms[i], k, sms[i].writable.seq))
                             = hist[Committed(i) + 1].kv[k]
    BY DEF ReadsMatchLog
  <2>1. i \in 1 .. Len(sms)
    BY DEF Inv, Types
  <2>2. sms[i] \in LMType /\ MapOK(i) /\ uniq \in Nat
    BY <2>1, CommittedTypes DEF Inv, MapsOK, Types
  <2> QED  BY <2>2, GetShows DEF MapOK, ShowsState
<1> QED  BY Invariance, <1>1, PTL

\* A batch reads its own writes over an exact base (SMV003::new_applier).
THEOREM WriterSeesTheLog == Spec => []WriterViewExact
<1>1. Inv => WriterViewExact
  <2> SUFFICES ASSUME Inv, Applying
               PROVE  /\ applier.view.seq = hist[sms[Cur].writable.la + 1].seq
                      /\ \A k \in Keys :
                           Seen(ViewGet(sms[Cur], applier.base, applier.view, k))
                             = hist[sms[Cur].writable.la + 1].kv[k]
    BY DEF WriterViewExact
  <2>1. applier.view.seq = hist[sms[Cur].writable.la + 1].seq
    BY DEF Inv, ViewOK, StagedOK
  <2> QED  BY <2>1, ViewShows
<1> QED  BY Invariance, <1>1, PTL

\* Every snapshot file is the log prefix its name promises
\* (do_build_snapshot, install_snapshot).
THEOREM SnapshotsAreTheLog == Spec => []SnapshotsMatchLog
<1>1. Inv => SnapshotsMatchLog
  BY DEF Inv, DiskOK, SnapshotsMatchLog
<1> QED  BY Invariance, <1>1, PTL

\* The assertion of remove_levels_upto never fails.
THEOREM ReplacedLevelsPresent == Spec => []CompactedLevelsPresent
<1>1. Inv => CompactedLevelsPresent
  <2> SUFFICES ASSUME Inv, builder.pc \in {"frozen", "written"}
               PROVE  /\ NewestIndex(builder.imm) \in DOMAIN sms[builder.sm].imm
                      /\ sms[builder.sm].db = builder.db
                      /\ sms[builder.sm].imm = builder.imm
    BY DEF CompactedLevelsPresent
  <2> QED  BY BuiltFile DEF Inv, BuildOK
<1> QED  BY Invariance, <1>1, PTL

\* A point read and a range read of the newest data return the same version.
THEOREM GetIsRange == Spec => []GetAgreesWithRange
<1>1. Inv => GetAgreesWithRange
  <2> SUFFICES ASSUME Inv, NEW i \in DOMAIN sms, NEW k \in Keys
               PROVE  LET lm  == sms[i]
                          all == MergedVersions(lm.imm, lm.db, k)
                                   \cup lm.writable.kv[k]
                      IN  Get(lm, k, lm.writable.seq) =
                            IF all = {} THEN NotFound ELSE Newest(all)
    BY DEF GetAgreesWithRange
  <2> DEFINE lm == sms[i]
             all == MergedVersions(lm.imm, lm.db, k) \cup lm.writable.kv[k]
             g == Get(lm, k, lm.writable.seq)
  <2>1. lm \in LMType /\ Sound(lm) /\ IdsBelow(lm.imm, uniq) /\ uniq \in Nat
    <3>1. i \in 1 .. Len(sms)
      BY DEF Inv, Types
    <3> QED  BY <3>1, CommittedTypes DEF Inv, MapsOK, MapOK, Types
  <2>2. Versions(lm, k) = all \cup {NotFound}
    BY DEF Versions
  <2>3. all \in SUBSET Version /\ NotFound \in Version /\ lm.writable.seq \in Nat
        /\ Written(all, lm.writable.seq)
    <3>1. /\ lm.imm \in ImmMap /\ lm.db \in DB /\ lm.writable.seq \in Nat
          /\ lm.writable.kv[k] \in SUBSET Version /\ NotFound \in Version
      BY <2>1, VersionsTypes
    <3>2. /\ Written(MergedVersions(lm.imm, lm.db, k), lm.writable.seq)
          /\ Written(lm.writable.kv[k], lm.writable.seq)
      BY <2>1, <3>1, MergedWritten DEF Sound
    <3> QED  BY <3>1, <3>2, MergedTypes DEF Written
  <2>4. IsNewest(g, all \cup {NotFound})
    BY <2>1, <2>2, GetNewest
  <2> HIDE DEF all, g, lm
  <2>5. CASE all = {}
    BY <2>4, <2>5 DEF IsNewest, all, g, lm
  <2>6. CASE all # {}
    <3>1. IsNewest(Newest(all), all)
      BY <2>3, <2>6, NewestIsNewest DEF Written
    <3>2. IsNewest(Newest(all), all \cup {NotFound})
      BY <3>1, <2>3, NotFoundOldest DEF IsNewest, Written
    <3>3. all \cup {NotFound} \in SUBSET Version
      BY <2>3
    <3>4. g = Newest(all)
      BY <3>2, <3>3, <2>4, NewestIsUnique
    <3> QED  BY <3>4, <2>6 DEF all, g, lm
  <2> QED  BY <2>5, <2>6
<1> QED  BY Invariance, <1>1, PTL
=============================================================================
