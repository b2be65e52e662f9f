---------------------- MODULE StateMachineApplyProofs ----------------------
(***************************************************************************)
(* The inductive invariant of StateMachineStore, and that the steps of the  *)
(* raft worker and the steps that only move a task along preserve it.       *)
(* The inductive invariant Inv says of each copy of the data on a node (the *)
(* levels of each state machine, the view of a batch, the levels a build    *)
(* has frozen, the files) which prefix of the log it shows.                 *)
(***************************************************************************)
EXTENDS StateMachineStore, LeveledMapProofs

BuilderType ==
    [pc : {"idle", "wait", "permit", "frozen", "written", "replaced", "clean"},
     sm : Nat, imm : ImmMap, db : DB, file : DB]

ApplierType ==
    [pc : {"idle", "apply", "failed"}, start : Nat, base : Nat,
     view : [seq : Nat, kv : Table]]

Types ==
    /\ log \in Seq(Entry) /\ hist \in Seq(State) /\ Len(hist) = Len(log) + 1
    /\ sms \in Seq(LMType) /\ sms # <<>>
    /\ uniq \in Nat
    /\ permit \in {"free", "build", "inmem"}
    /\ writer \in {"free", "applier", "watch"}
    /\ applier \in ApplierType
    /\ builder \in BuilderType
    /\ inmem \in {"sleep", "wait", "permit", "frozen", "stopped"}
    /\ install \in [db : DB, uniq : Nat]
    /\ disk \subseteq [db : DB, uniq : Nat]
    /\ raftSnap \in Nat /\ purged \in Nat /\ installs \in Nat /\ crashes \in Nat

\* hist is the run of the reference semantics over the log.
HistOK ==
    /\ hist[1] = InitialState
    /\ \A i \in 1 .. Len(log) : hist[i + 1] = Effect(hist[i], log[i])
    /\ \A j \in 1 .. Len(hist), k \in Keys : hist[j].kv[k] <= hist[j].seq

\* A map with the system data and the values of one state.
ShowsState(lm, st) ==
    /\ lm.writable.seq = st.seq
    /\ \A k \in Keys : Shows(Versions(lm, k), st.kv[k])

MapOK(i) ==
    /\ Sound(sms[i]) /\ IdsBelow(sms[i].imm, uniq)
    /\ sms[i].writable.la <= Len(log)
    /\ ShowsState(sms[i], hist[Committed(i) + 1])

MapsOK == \A i \in 1 .. Len(sms) : MapOK(i)

\* What is staged for a key, if anything, is its state after the last applied
\* entry; a key without a staged change has not changed since the batch began.
StagedOK(view, base, old, new) ==
    /\ base <= view.seq /\ view.seq = new.seq
    /\ \A k \in Keys :
         /\ \A v \in view.kv[k] :
              /\ base <= v.seq /\ v.seq <= view.seq
              /\ v.del \/ base < v.seq
         /\ IF view.kv[k] = {} THEN old.kv[k] = new.kv[k]
                               ELSE Shows(view.kv[k], new.kv[k])

ViewOK ==
    Applying =>
      LET w == sms[Cur].writable
      IN  /\ applier.start <= w.la
          /\ applier.base = w.seq
          /\ StagedOK(applier.view, w.seq, hist[applier.start + 1], hist[w.la + 1])

\* The compactor semaphore has one holder, a batch holds the writer semaphore,
\* and the raft worker does not apply while it installs.
PermitOK ==
    /\ (permit = "build")
         <=> (builder.pc \in {"permit", "frozen", "written", "replaced"})
    /\ (permit = "inmem") <=> (inmem \in {"permit", "frozen"})
    /\ (writer = "applier") <=> (applier.pc = "apply")
    /\ install # NoFile => applier.pc = "idle"

\* The levels imm and the database db show the state of which the newest level
\* has the system data.
FrozenOK(imm, db) ==
    \E t \in DOMAIN imm :
      /\ \A j \in DOMAIN imm : j <= t
      /\ imm[t].la <= Len(log)
      /\ imm[t].seq = hist[imm[t].la + 1].seq
      /\ \A k \in Keys : Shows(MergedVersions(imm, db, k) \cup {NotFound},
                               hist[imm[t].la + 1].kv[k])

BuildOK ==
    /\ builder.pc # "idle" => builder.sm \in 1 .. Len(sms)
    /\ builder.pc \in {"frozen", "written"} =>
         /\ sms[builder.sm].imm = builder.imm
         /\ sms[builder.sm].db = builder.db
         /\ FrozenOK(builder.imm, builder.db)
    /\ builder.pc = "written" =>
         builder.file = CompactIntoDB(builder.imm, builder.db)

\* The files, the one that is being installed included.
DiskOK ==
    /\ install.db.la <= Len(log) /\ install.db = SnapshotAt(install.db.la)
    /\ \A f \in disk : f.db.la <= Len(log) /\ f.db = SnapshotAt(f.db.la)
    /\ \E b \in Nat : \A f \in disk : f.uniq <= b

Inv == /\ Types /\ HistOK /\ MapsOK /\ ViewOK /\ PermitOK /\ BuildOK /\ DiskOK

-----------------------------------------------------------------------------
(***************************************************************************)
(* Facts about the states of Inv.                                           *)
(***************************************************************************)
LEMMA CommittedTypes ==
    ASSUME Inv
    PROVE  /\ Cur \in 1 .. Len(sms) /\ Len(sms) \in Nat /\ Len(log) \in Nat
           /\ \A i \in 1 .. Len(sms) :
                /\ sms[i] \in LMType
                /\ sms[i].writable.la \in Nat /\ sms[i].writable.seq \in Nat
                /\ Committed(i) \in Nat /\ Committed(i) <= Len(log)
           /\ \A j \in Nat : j <= Len(log) =>
                /\ hist[j + 1] \in State /\ hist[j + 1].seq \in Nat
                /\ hist[j + 1].kv \in [Keys -> Nat]
                /\ SnapshotAt(j) \in DB
<1>1. Cur \in 1 .. Len(sms) /\ Len(sms) \in Nat /\ Len(log) \in Nat
  BY DEF Inv, Types, Cur
<1>2. ASSUME NEW i \in 1 .. Len(sms)
      PROVE  /\ sms[i] \in LMType
             /\ sms[i].writable.la \in Nat /\ sms[i].writable.seq \in Nat
  <2>1. sms[i] \in LMType
    BY DEF Inv, Types
  <2> QED  BY <2>1 DEF LMType, Level
<1>3. \A i \in 1 .. Len(sms) : sms[i].writable.la <= Len(log)
  BY DEF Inv, MapsOK, MapOK
<1>4. Applying => applier.start \in Nat /\ applier.start <= sms[Cur].writable.la
  BY DEF Inv, Types, ApplierType, ViewOK
<1>5. \A i \in 1 .. Len(sms) : Committed(i) \in Nat /\ Committed(i) <= Len(log)
  BY <1>1, <1>2, <1>3, <1>4 DEF Committed
<1>6. ASSUME NEW j \in Nat, j <= Len(log)
      PROVE  /\ hist[j + 1] \in State /\ hist[j + 1].seq \in Nat
             /\ hist[j + 1].kv \in [Keys -> Nat]
             /\ SnapshotAt(j) \in DB
  <2>1. hist[j + 1] \in State
    BY <1>1, <1>6 DEF Inv, Types
  <2> QED  BY <2>1 DEF State, SnapshotAt, DB
<1> QED  BY <1>1, <1>2, <1>5, <1>6

LEMMA EmptyTypes ==
    /\ EmptyDB \in DB
    /\ NoBuild \in BuilderType /\ Idle \in ApplierType
<1>1. EmptyDB \in DB
  BY DEF EmptyDB, DB
<1>2. [i \in {} |-> 0] \in ImmMap
  <2>1. [i \in {} |-> 0] \in [{} -> Level]
    OBVIOUS
  <2> QED  BY <2>1 DEF ImmMap
<1>3. EmptyTable \in Table
  BY DEF EmptyTable, Table
<1> QED  BY <1>1, <1>2, <1>3 DEF NoBuild, Idle, NoView, BuilderType, ApplierType

\* "No file" is the snapshot of the empty log.
LEMMA NoFileSound ==
    ASSUME hist[1] = InitialState
    PROVE  /\ NoFile \in [db : DB, uniq : Nat]
           /\ NoFile.db.la = 0 /\ NoFile.db = SnapshotAt(NoFile.db.la)
<1>1. NoFile.db = EmptyDB /\ NoFile.uniq = 0 /\ EmptyDB.la = 0
  BY DEF NoFile, EmptyDB
<1>2. EmptyDB = SnapshotAt(0)
  BY DEF InitialState, SnapshotAt, EmptyDB
<1> QED  BY <1>1, <1>2, EmptyTypes DEF NoFile

LEMMA InitInv ==
    Init => Inv
<1> SUFFICES ASSUME Init PROVE Inv
  OBVIOUS
<1>1. EmptyDB \in DB /\ EmptyDB.la = 0 /\ EmptyDB.seq = 0
      /\ \A k \in Keys : EmptyDB.kv[k] = 0
  BY EmptyTypes DEF EmptyDB
<1>2. /\ FromDB(EmptyDB) \in LMType /\ Sound(FromDB(EmptyDB))
      /\ IdsBelow(FromDB(EmptyDB).imm, 0)
      /\ FromDB(EmptyDB).writable.la = 0 /\ FromDB(EmptyDB).writable.seq = 0
      /\ \A k \in Keys : Shows(Versions(FromDB(EmptyDB), k), 0)
  BY <1>1, FromDBSound
<1>3. InitialState \in State
  BY DEF InitialState, State
<1>4. Len(sms) = 1 /\ sms[1] = FromDB(EmptyDB) /\ Len(log) = 0
      /\ Len(hist) = 1 /\ hist[1] = InitialState
  BY DEF Init
<1>5. Types
  BY <1>2, <1>3, <1>4, EmptyTypes, NoFileSound DEF Init, Types
<1>6. HistOK
  BY <1>4 DEF HistOK, InitialState
<1>7. ~Applying
  BY DEF Init, Applying, Idle
<1>8. MapsOK
  BY <1>2, <1>4, <1>7 DEF Init, MapsOK, MapOK, Committed, ShowsState, InitialState
<1>9. ViewOK /\ PermitOK /\ BuildOK
  BY <1>7 DEF Init, ViewOK, PermitOK, BuildOK, NoBuild, Idle
<1>10. DiskOK
  <2>1. install.db.la = 0 /\ install.db = SnapshotAt(install.db.la)
    BY <1>4, NoFileSound DEF Init
  <2> QED  BY <2>1, <1>4 DEF Init, DiskOK
<1> QED  BY <1>5, <1>6, <1>8, <1>9, <1>10 DEF Inv

-----------------------------------------------------------------------------
(***************************************************************************)
(* Steps that only move a task along.                                       *)
(***************************************************************************)
LEMMA DataUntouched ==
    ASSUME Inv, UNCHANGED <<log, hist, sms, uniq, applier, install, disk>>
    PROVE  HistOK' /\ MapsOK' /\ ViewOK' /\ DiskOK'
<1>1. HistOK'
  BY DEF Inv, HistOK
<1>2. MapsOK'
  BY DEF Inv, MapsOK, MapOK, ShowsState, Committed, Applying, Cur
<1>3. ViewOK'
  BY DEF Inv, ViewOK, StagedOK, Applying, Cur
<1>4. DiskOK'
  BY DEF Inv, DiskOK, SnapshotAt
<1> QED  BY <1>1, <1>2, <1>3, <1>4

LEMMA ControlInv ==
    ASSUME Inv,
           \/ WatchPermit \/ WatchDone
           \/ BuildStart \/ BuildPermit \/ BuildError \/ BuildRelease
           \/ CompactStart \/ CompactStop \/ CompactPermit \/ CompactSkip
    PROVE  Inv'
<1>1. UNCHANGED <<log, hist, sms, uniq, applier, install, disk, purged, raftSnap,
                  installs, crashes>>
  BY DEF WatchPermit, WatchDone, BuildStart, BuildPermit, BuildError, BuildRelease,
         CompactStart, CompactStop, CompactPermit, CompactSkip
<1>2. HistOK' /\ MapsOK' /\ ViewOK' /\ DiskOK'
  BY <1>1, DataUntouched
<1>3. Types' /\ PermitOK' /\ BuildOK'
  <2>1. CASE BuildStart
    <3>1. builder.pc = "idle" /\ UNCHANGED <<permit, writer, inmem>>
      BY <2>1 DEF BuildStart
    <3>2. /\ builder'.pc = "wait" /\ builder'.sm = Cur
          /\ builder' \in BuilderType
      <4>1. builder \in BuilderType /\ Cur \in Nat
        BY CommittedTypes DEF Inv, Types
      <4>2. builder' = [builder EXCEPT !.pc = "wait", !.sm = Cur]
        BY <2>1 DEF BuildStart
      <4> QED  BY <4>1, <4>2 DEF BuilderType
    <3>3. Types'
      BY <1>1, <3>1, <3>2 DEF Inv, Types
    <3>4. BuildOK'
      BY <1>1, <3>2, CommittedTypes DEF BuildOK
    <3> QED  BY <1>1, <3>1, <3>2, <3>3, <3>4 DEF Inv, PermitOK
  <2>2. CASE BuildPermit
    BY <2>2 DEF Inv, Types, BuilderType, PermitOK, BuildOK, BuildPermit
  <2>3. CASE BuildError
    <3>1. builder'.pc = "idle"
      BY <2>3 DEF BuildError, NoBuild
    <3> QED  BY <2>3, <3>1, EmptyTypes DEF Inv, Types, PermitOK, BuildOK, BuildError
  <2>4. CASE CompactStart \/ CompactStop \/ CompactPermit \/ CompactSkip
    <3>1. builder' = builder
      BY <2>4 DEF CompactStart, CompactStop, CompactPermit, CompactSkip
    <3>2. BuildOK'
      BY <1>1, <3>1 DEF Inv, BuildOK, FrozenOK
    <3> QED  BY <2>4, <3>1, <3>2, <1>1 DEF Inv, Types, PermitOK, CompactStart,
                  CompactStop, CompactPermit, CompactSkip
  <2>5. CASE BuildRelease
    BY <2>5 DEF Inv, Types, BuilderType, PermitOK, BuildOK, BuildRelease
  <2>6. CASE WatchPermit \/ WatchDone
    <3>1. /\ UNCHANGED <<permit, builder, inmem>>
          /\ writer \in {"free", "watch"} /\ writer' \in {"free", "watch"}
      BY <2>6 DEF WatchPermit, WatchDone
    <3>2. BuildOK'
      BY <1>1, <3>1 DEF Inv, BuildOK, FrozenOK
    <3> QED  BY <1>1, <3>1, <3>2 DEF Inv, Types, PermitOK
  <2> QED  BY <2>1, <2>2, <2>3, <2>4, <2>5, <2>6
<1> QED  BY <1>2, <1>3 DEF Inv

LEMMA PurgeInv ==
    ASSUME Inv, NEW i \in 1 .. Len(log), Purge(i)
    PROVE  Inv'
<1>1. HistOK' /\ MapsOK' /\ ViewOK' /\ DiskOK'
  BY DataUntouched DEF Purge
<1>2. Types' /\ PermitOK'
  BY DEF Inv, Types, PermitOK, Purge
<1>3. BuildOK'
  BY DEF Inv, BuildOK, FrozenOK, Purge
<1> QED  BY <1>1, <1>2, <1>3 DEF Inv

-----------------------------------------------------------------------------
(***************************************************************************)
(* The log grows.                                                           *)
(***************************************************************************)
LEMMA EffectTypes ==
    ASSUME NEW st \in State, NEW e \in Entry, \A k \in Keys : st.kv[k] <= st.seq
    PROVE  /\ Effect(st, e) \in State
           /\ \A k \in Keys : Effect(st, e).kv[k] <= Effect(st, e).seq
<1>1. /\ st.seq \in Nat /\ st.kv \in [Keys -> Nat] /\ e.key \in Keys
      /\ e.kind \in AllOpKinds
  BY KindsAssumption DEF State, Entry
<1>2. CASE e.kind = "put"
  BY <1>1, <1>2 DEF Effect, State
<1>3. CASE e.kind = "expired"
  BY <1>1, <1>3 DEF Effect, State
<1>4. CASE e.kind = "delete"
  <2>1. Effect(st, e) = [st EXCEPT !.kv[e.key] = 0]
    BY <1>4 DEF Effect
  <2> QED  BY <1>1, <2>1 DEF State
<1>5. CASE e.kind = "update"
  BY <1>1, <1>5 DEF Effect, State
<1>6. CASE e.kind = "blank"
  BY <1>1, <1>6 DEF Effect, State
<1> QED  BY <1>1, <1>2, <1>3, <1>4, <1>5, <1>6 DEF AllOpKinds

LEMMA ProposeInv ==
    ASSUME Inv, NEW e \in Entry, Propose(e)
    PROVE  Inv'
<1> DEFINE new == Effect(hist[Len(hist)], e)
<1>1. /\ log' = Append(log, e) /\ hist' = Append(hist, new)
      /\ UNCHANGED <<sms, uniq, permit, applier, builder, inmem, disk, raftSnap,
                     purged, installs, crashes, writer, install>>
  BY DEF Propose
<1>2. /\ hist[Len(hist)] \in State
      /\ \A k \in Keys : hist[Len(hist)].kv[k] <= hist[Len(hist)].seq
      /\ Len(hist) = Len(log) + 1 /\ Len(log) \in Nat
      /\ hist \in Seq(State) /\ log \in Seq(Entry)
  BY DEF Inv, Types, HistOK
<1>3. new \in State /\ \A k \in Keys : new.kv[k] <= new.seq
  BY <1>2, EffectTypes
<1>4. /\ hist' \in Seq(State) /\ log' \in Seq(Entry)
      /\ Len(hist') = Len(hist) + 1 /\ Len(log') = Len(log) + 1
      /\ hist'[Len(hist) + 1] = new /\ log'[Len(log) + 1] = e
      /\ \A j \in 1 .. Len(hist) : hist'[j] = hist[j]
      /\ \A j \in 1 .. Len(log) : log'[j] = log[j]
  <2> HIDE DEF new
  <2> QED  BY <1>1, <1>2, <1>3
<1>5. Types'
  BY <1>1, <1>2, <1>4 DEF Inv, Types
<1>6. HistOK'
  <2>1. hist'[1] = InitialState
    BY <1>2, <1>4 DEF Inv, HistOK
  <2>2. ASSUME NEW i \in 1 .. Len(log')
        PROVE  hist'[i + 1] = Effect(hist'[i], log'[i])
    <3>1. CASE i = Len(log) + 1
      BY <3>1, <1>2, <1>4
    <3>2. CASE i # Len(log) + 1
      <4>1. i \in 1 .. Len(log) /\ i \in 1 .. Len(hist) /\ i + 1 \in 1 .. Len(hist)
        BY <3>2, <1>2, <1>4
      <4> QED  BY <4>1, <1>4 DEF Inv, HistOK
    <3> QED  BY <3>1, <3>2
  <2>3. \A j \in 1 .. Len(hist'), k \in Keys : hist'[j].kv[k] <= hist'[j].seq
    <3>1. \A j \in 1 .. Len(hist') : j \in 1 .. Len(hist) \/ j = Len(hist) + 1
      BY <1>2, <1>4
    <3> QED  BY <3>1, <1>3, <1>4 DEF Inv, HistOK
  <2> QED  BY <2>1, <2>2, <2>3 DEF HistOK
<1>7. \A j \in Nat : j <= Len(log) => j <= Len(log') /\ hist'[j + 1] = hist[j + 1]
  BY <1>2, <1>4
<1>8. \A i \in 1 .. Len(sms) : Committed(i)' = Committed(i)
  BY <1>1 DEF Committed, Applying, Cur
<1>9. MapsOK'
  <2>1. ASSUME NEW i \in 1 .. Len(sms) PROVE MapOK(i)'
    <3>1. /\ sms[i].writable.la \in Nat /\ Committed(i) \in Nat
          /\ Committed(i) <= Len(log) /\ sms[i].writable.la <= Len(log)
          /\ MapOK(i)
      BY CommittedTypes DEF Inv, MapsOK, MapOK
    <3> QED  BY <3>1, <1>1, <1>7, <1>8 DEF MapOK, ShowsState
  <2> QED  BY <2>1, <1>1 DEF MapsOK
<1>10. ViewOK'
  <2> SUFFICES ASSUME Applying PROVE ViewOK'
    BY <1>1 DEF ViewOK, Applying
  <2>1. /\ applier.start \in Nat /\ applier.start <= Len(log)
        /\ sms[Cur].writable.la \in Nat /\ sms[Cur].writable.la <= Len(log)
    <3>1. Cur \in 1 .. Len(sms) /\ Committed(Cur) = applier.start
      BY CommittedTypes DEF Committed
    <3> QED  BY <3>1, CommittedTypes DEF Inv, MapsOK, MapOK
  <2> QED  BY <2>1, <1>1, <1>7 DEF Inv, ViewOK, StagedOK, Applying, Cur
<1>11. PermitOK'
  BY <1>1 DEF Inv, PermitOK
<1>12. BuildOK'
  <2>1. FrozenOK(builder.imm, builder.db) => FrozenOK(builder.imm, builder.db)'
    <3> SUFFICES ASSUME FrozenOK(builder.imm, builder.db)
                 PROVE  FrozenOK(builder.imm, builder.db)'
      OBVIOUS
    <3>1. \A t \in DOMAIN builder.imm : builder.imm[t].la \in Nat
      BY ImmLevels DEF Inv, Types, BuilderType
    <3> QED  BY <3>1, <1>1, <1>7 DEF FrozenOK
  <2> QED  BY <2>1, <1>1 DEF Inv, BuildOK
<1>13. DiskOK'
  <2>1. install.db.la \in Nat /\ \A f \in disk : f.db.la \in Nat
    BY DEF Inv, Types, DB
  <2> QED  BY <2>1, <1>1, <1>7 DEF Inv, DiskOK, SnapshotAt
<1> QED  BY <1>5, <1>6, <1>9, <1>10, <1>11, <1>12, <1>13 DEF Inv

-----------------------------------------------------------------------------
(***************************************************************************)
(* The raft worker applies a batch.                                         *)
(***************************************************************************)
LEMMA ApplyStartInv ==
    ASSUME Inv, ApplyStart
    PROVE  Inv'
<1> DEFINE w == sms[Cur].writable
           view == [seq |-> w.seq, kv |-> EmptyTable]
<1>1. /\ applier.pc = "idle" /\ install = NoFile /\ writer' = "applier"
      /\ applier' = [pc |-> "apply", start |-> w.la, base |-> w.seq, view |-> view]
      /\ UNCHANGED <<log, hist, sms, uniq, permit, builder, inmem, disk, raftSnap,
                     purged, installs, crashes, install>>
  BY DEF ApplyStart
<1>2. /\ w.la \in Nat /\ w.seq \in Nat
      /\ Cur \in 1 .. Len(sms) /\ hist[w.la + 1] \in State
      /\ w.seq = hist[w.la + 1].seq
  <2>1. Cur \in 1 .. Len(sms) /\ ~Applying
    BY <1>1, CommittedTypes DEF Applying
  <2>2. Committed(Cur) = w.la /\ MapOK(Cur)
    BY <2>1 DEF Committed, Inv, MapsOK
  <2> QED  BY <2>1, <2>2, CommittedTypes DEF MapOK, ShowsState
<1>3. EmptyTable \in Table /\ \A k \in Keys : EmptyTable[k] = {}
  BY DEF EmptyTable, Table
<1>4. Types'
  <2>1. applier' \in ApplierType
    BY <1>1, <1>2, <1>3 DEF ApplierType
  <2> QED  BY <2>1, <1>1 DEF Inv, Types
<1>5. HistOK' /\ PermitOK' /\ BuildOK' /\ DiskOK'
  BY <1>1 DEF Inv, HistOK, PermitOK, BuildOK, FrozenOK, DiskOK, SnapshotAt
<1>6. \A i \in 1 .. Len(sms) : Committed(i)' = Committed(i)
  BY <1>1 DEF Committed, Applying, Cur
<1>7. MapsOK'
  BY <1>1, <1>6 DEF Inv, MapsOK, MapOK, ShowsState
<1>8. StagedOK(view, w.seq, hist[w.la + 1], hist[w.la + 1])
  <2>1. view.seq = w.seq /\ \A k \in Keys : view.kv[k] = {}
    BY <1>3
  <2>2. w.seq \in Nat /\ w.seq = hist[w.la + 1].seq
    BY <1>2
  <2> HIDE DEF w, view
  <2>3. w.seq <= view.seq /\ view.seq = hist[w.la + 1].seq
    BY <2>1, <2>2
  <2> QED  BY <2>1, <2>3, Zenon DEF StagedOK
<1>9. ViewOK'
  <2>1. /\ applier'.start = w.la /\ applier'.base = w.seq /\ applier'.view = view
        /\ sms'[Cur'].writable = w /\ hist' = hist
    BY <1>1 DEF Cur
  <2> HIDE DEF w, view
  <2>2. /\ applier'.start <= sms'[Cur'].writable.la
        /\ applier'.base = sms'[Cur'].writable.seq
    BY <2>1, <1>2
  <2>3. StagedOK(applier'.view, sms'[Cur'].writable.seq, hist'[applier'.start + 1],
                 hist'[sms'[Cur'].writable.la + 1])
    BY <2>1, <1>8
  <2> QED  BY <2>2, <2>3 DEF ViewOK
<1> QED  BY <1>4, <1>5, <1>7, <1>9 DEF Inv

\* What the applier reads through its view.
LEMMA ViewShows ==
    ASSUME Inv, Applying, NEW k \in Keys
    PROVE  Seen(ViewGet(sms[Cur], applier.base, applier.view, k))
             = hist[sms[Cur].writable.la + 1].kv[k]
<1> DEFINE lm == sms[Cur]
           staged == applier.view.kv[k]
           new == hist[lm.writable.la + 1]
           old == hist[applier.start + 1]
<1>1. /\ lm \in LMType /\ Sound(lm) /\ IdsBelow(lm.imm, uniq) /\ uniq \in Nat
      /\ Shows(Versions(lm, k), old.kv[k])
      /\ applier.view.kv \in Table
  <2>1. Cur \in 1 .. Len(sms) /\ Committed(Cur) = applier.start
    BY CommittedTypes DEF Committed
  <2> QED  BY <2>1, CommittedTypes
           DEF Inv, Types, ApplierType, MapsOK, MapOK, ShowsState
<1>2. /\ applier.base = lm.writable.seq
      /\ StagedOK(applier.view, lm.writable.seq, old, new)
  BY DEF Inv, ViewOK
<1>3. CASE staged = {}
  <2>1. old.kv[k] = new.kv[k]
    BY <1>2, <1>3 DEF StagedOK
  <2>2. Seen(Get(lm, k, lm.writable.seq)) = old.kv[k]
    <3> HIDE DEF lm, old
    <3> QED  BY <1>1, GetShows
  <2> QED  BY <2>1, <2>2, <1>2, <1>3 DEF ViewGet
<1>4. CASE staged # {}
  <2>1. staged \in SUBSET Version
    BY <1>1 DEF Table
  <2>2. Shows(staged, new.kv[k])
    BY <1>2, <1>4 DEF StagedOK
  <2> HIDE DEF staged, new
  <2>3. PICK v \in staged : IsNewest(v, staged) /\ Seen(v) = new.kv[k]
    BY <2>2 DEF Shows
  <2>4. Newest(staged) = v
    BY <2>1, <2>3, NewestIsUnique DEF Newest
  <2> QED  BY <2>3, <2>4, <1>4 DEF ViewGet, staged, new
<1> QED  BY <1>3, <1>4

\* View::set keeps the staged changes right.
LEMMA SetValueStaged ==
    ASSUME NEW view \in [seq : Nat, kv : Table], NEW base \in Nat,
           NEW old \in State, NEW new \in State, NEW k \in Keys,
           StagedOK(view, base, old, new)
    PROVE  /\ SetValue(view, k) \in [seq : Nat, kv : Table]
           /\ StagedOK(SetValue(view, k), base, old,
                       [seq |-> new.seq + 1,
                        kv  |-> [new.kv EXCEPT ![k] = new.seq + 1]])
<1> DEFINE s == view.seq + 1
           w == SetValue(view, k)
           n == [seq |-> new.seq + 1, kv |-> [new.kv EXCEPT ![k] = new.seq + 1]]
<1>1. /\ view.seq \in Nat /\ view.kv \in Table /\ view.seq = new.seq
      /\ base <= view.seq /\ Normal(s) \in Version
      /\ \A x \in Keys : view.kv[x] \in SUBSET Version
  BY DEF StagedOK, Normal, Version, Table
<1>2. w.seq = s /\ w.kv = [view.kv EXCEPT ![k] = @ \cup {Normal(s)}]
  BY DEF SetValue
<1>3. w \in [seq : Nat, kv : Table]
  <2>1. w.kv \in Table
    BY <1>1, <1>2 DEF Table
  <2> QED  BY <1>1, <2>1 DEF SetValue
<1>4. /\ w.kv[k] = view.kv[k] \cup {Normal(s)}
      /\ \A x \in Keys \ {k} : w.kv[x] = view.kv[x]
  BY <1>1, <1>2 DEF Table
<1>5. /\ n.seq = s /\ n.kv[k] = s
      /\ \A x \in Keys \ {k} : n.kv[x] = new.kv[x]
  BY <1>1 DEF State
<1> HIDE DEF w, n
<1>6. \A x \in Keys : \A v \in w.kv[x] :
        base <= v.seq /\ v.seq <= s /\ (v.del \/ base < v.seq)
  <2>1. Normal(s).seq = s
    BY DEF Normal
  <2>2. \A x \in Keys : \A v \in view.kv[x] :
          v.seq \in Nat /\ base <= v.seq /\ v.seq <= view.seq /\ (v.del \/ base < v.seq)
    BY <1>1 DEF StagedOK, Version
  <2> QED  BY <2>1, <2>2, <1>1, <1>4
<1>7. Shows(w.kv[k], s)
  <2>1. \A v \in view.kv[k] : v.seq \in Nat /\ v.seq < s
    BY <1>1 DEF StagedOK, Version
  <2>2. IsNewest(Normal(s), w.kv[k])
    BY <2>1, <1>1, <1>4 DEF IsNewest, Before, Normal
  <2> QED  BY <2>2 DEF Shows, IsNewest, Seen, Normal
<1>8. \A x \in Keys : IF w.kv[x] = {} THEN old.kv[x] = n.kv[x]
                                       ELSE Shows(w.kv[x], n.kv[x])
  <2>1. w.kv[k] # {}
    BY <1>4
  <2> QED  BY <2>1, <1>4, <1>5, <1>7 DEF StagedOK
<1>9. StagedOK(w, base, old, n)
  <2>1. base <= s
    BY <1>1
  <2> HIDE DEF s
  <2> QED  BY <2>1, <1>2, <1>5, <1>6, <1>8 DEF StagedOK
<1> QED  BY <1>3, <1>9 DEF w, n

LEMMA SetTombstoneStaged ==
    ASSUME NEW view \in [seq : Nat, kv : Table], NEW base \in Nat,
           NEW old \in State, NEW new \in State, NEW k \in Keys,
           StagedOK(view, base, old, new)
    PROVE  /\ SetTombstone(view, k) \in [seq : Nat, kv : Table]
           /\ StagedOK(SetTombstone(view, k), base, old,
                       [new EXCEPT !.kv[k] = 0])
<1> DEFINE s == view.seq
           w == SetTombstone(view, k)
           n == [new EXCEPT !.kv[k] = 0]
<1>1. /\ s \in Nat /\ view.kv \in Table /\ s = new.seq
      /\ base <= s /\ Tombstone(s) \in Version
      /\ \A x \in Keys : view.kv[x] \in SUBSET Version
  BY DEF StagedOK, Tombstone, Version, Table
<1>2. w.seq = s /\ w.kv = [view.kv EXCEPT ![k] = @ \cup {Tombstone(s)}]
  BY DEF SetTombstone
<1>3. w \in [seq : Nat, kv : Table]
  <2>1. w.kv \in Table
    BY <1>1, <1>2 DEF Table
  <2> QED  BY <1>1, <2>1 DEF SetTombstone
<1>4. /\ w.kv[k] = view.kv[k] \cup {Tombstone(s)}
      /\ \A x \in Keys \ {k} : w.kv[x] = view.kv[x]
  BY <1>1, <1>2 DEF Table
<1>5. /\ n.seq = s /\ n.kv[k] = 0
      /\ \A x \in Keys \ {k} : n.kv[x] = new.kv[x]
  BY <1>1 DEF State
<1> HIDE DEF w, n
<1>6. \A x \in Keys : \A v \in w.kv[x] :
        base <= v.seq /\ v.seq <= s /\ (v.del \/ base < v.seq)
  <2>1. Tombstone(s).seq = s /\ Tombstone(s).del
    BY DEF Tombstone
  <2>2. \A x \in Keys : \A v \in view.kv[x] :
          v.seq \in Nat /\ base <= v.seq /\ v.seq <= s /\ (v.del \/ base < v.seq)
    BY <1>1 DEF StagedOK, Version
  <2> QED  BY <2>1, <2>2, <1>1, <1>4
<1>7. Shows(w.kv[k], 0)
  <2>1. \A v \in view.kv[k] : v.seq \in Nat /\ v.seq <= s
    BY <1>1 DEF StagedOK, Version
  <2>2. IsNewest(Tombstone(s), w.kv[k])
    <3>1. Tombstone(s).seq = s /\ Tombstone(s).del
      BY DEF Tombstone
    <3> HIDE DEF s
    <3>2. \A v \in view.kv[k] : ~(s < v.seq)
      BY <2>1, <1>1
    <3>3. \A v \in w.kv[k] : ~Before(Tombstone(s), v)
      BY <3>1, <3>2, <1>1, <1>4 DEF Before
    <3> QED  BY <3>3, <1>4 DEF IsNewest
  <2> QED  BY <2>2 DEF Shows, IsNewest, Seen, Tombstone
<1>8. \A x \in Keys : IF w.kv[x] = {} THEN old.kv[x] = n.kv[x]
                                       ELSE Shows(w.kv[x], n.kv[x])
  <2>1. w.kv[k] # {}
    BY <1>4
  <2> QED  BY <2>1, <1>4, <1>5, <1>7 DEF StagedOK
<1>9. StagedOK(w, base, old, n)
  BY <1>1, <1>2, <1>5, <1>6, <1>8 DEF StagedOK
<1> QED  BY <1>3, <1>9 DEF w, n

\* upsert_kv_primary_index through the view does what the reference says.
LEMMA UpsertStaged ==
    ASSUME NEW view \in [seq : Nat, kv : Table], NEW base \in Nat,
           NEW old \in State, NEW st \in State, NEW e \in Entry, NEW lm,
           StagedOK(view, base, old, st),
           Seen(ViewGet(lm, base, view, e.key)) = st.kv[e.key]
    PROVE  /\ Upsert(lm, base, view, e) \in [seq : Nat, kv : Table]
           /\ StagedOK(Upsert(lm, base, view, e), base, old, Effect(st, e))
<1> DEFINE put == [seq |-> st.seq + 1, kv |-> [st.kv EXCEPT ![e.key] = st.seq + 1]]
           one == SetValue(view, e.key)
<1>1. e.key \in Keys /\ e.kind \in AllOpKinds
  BY KindsAssumption DEF Entry
<1>2. /\ one \in [seq : Nat, kv : Table]
      /\ StagedOK(one, base, old, put)
  BY <1>1, SetValueStaged
<1>3. put \in State
  BY <1>1 DEF State
<1>4. CASE e.kind = "put"
  BY <1>2, <1>4 DEF Upsert, Effect
<1>5. CASE e.kind = "expired"
  <2>1. Upsert(lm, base, view, e) = SetTombstone(one, e.key)
    BY <1>5 DEF Upsert
  <2>2. Effect(st, e) = [seq |-> st.seq + 1, kv |-> [st.kv EXCEPT ![e.key] = 0]]
    BY <1>5 DEF Effect
  <2>3. [put EXCEPT !.kv[e.key] = 0]
          = [seq |-> st.seq + 1, kv |-> [st.kv EXCEPT ![e.key] = 0]]
    BY <1>1 DEF State
  <2> HIDE DEF one, put
  <2>4. /\ SetTombstone(one, e.key) \in [seq : Nat, kv : Table]
        /\ StagedOK(SetTombstone(one, e.key), base, old, [put EXCEPT !.kv[e.key] = 0])
    BY <1>1, <1>2, <1>3, SetTombstoneStaged
  <2> QED  BY <2>1, <2>2, <2>3, <2>4
<1>6. CASE e.kind = "delete"
  <2>1. /\ Upsert(lm, base, view, e) = SetTombstone(view, e.key)
        /\ Effect(st, e) = [st EXCEPT !.kv[e.key] = 0]
    BY <1>6 DEF Upsert, Effect
  <2> QED  BY <2>1, <1>1, SetTombstoneStaged
<1>7. CASE e.kind = "update"
  <2>1. CASE st.kv[e.key] = 0
    BY <2>1, <1>7 DEF Upsert, Effect
  <2>2. CASE st.kv[e.key] # 0
    BY <2>2, <1>2, <1>7 DEF Upsert, Effect
  <2> QED  BY <2>1, <2>2
<1>8. CASE e.kind = "blank"
  BY <1>8 DEF Upsert, Effect
<1> QED  BY <1>1, <1>4, <1>5, <1>6, <1>7, <1>8 DEF AllOpKinds

LEMMA SeqUpdate ==
    ASSUME NEW T, NEW s \in Seq(T), NEW x \in 1 .. Len(s), NEW y \in T, NEW t,
           t = [s EXCEPT ![x] = y]
    PROVE  /\ t \in Seq(T) /\ Len(t) = Len(s) /\ t # <<>> /\ t[x] = y
           /\ \A i \in 1 .. Len(s) : i # x => t[i] = s[i]
OBVIOUS

LEMMA ApplyEntryInv ==
    ASSUME Inv, ApplyEntry
    PROVE  Inv'
<1> DEFINE lm == sms[Cur]
           i == lm.writable.la + 1
           new == [lm EXCEPT !.writable.la = i]
           view == Upsert(lm, applier.base, applier.view, log[i])
           old == hist[applier.start + 1]
<1>1. /\ Applying /\ i <= Len(log)
      /\ sms' = [sms EXCEPT ![Cur].writable.la = i]
      /\ applier' = [applier EXCEPT !.view = view]
      /\ UNCHANGED <<log, hist, uniq, permit, builder, inmem, disk, raftSnap,
                     purged, installs, crashes, writer, install>>
  BY DEF ApplyEntry
<1>2. /\ Cur \in 1 .. Len(sms) /\ lm \in LMType /\ lm.writable.la \in Nat
      /\ lm.writable.seq \in Nat
      /\ i \in 1 .. Len(log) /\ log[i] \in Entry
      /\ hist[i] \in State /\ hist[i + 1] = Effect(hist[i], log[i])
      /\ old \in State
  <2>1. Cur \in 1 .. Len(sms) /\ Committed(Cur) = applier.start
    BY <1>1, CommittedTypes DEF Committed
  <2>2. lm \in LMType /\ lm.writable.la \in Nat /\ lm.writable.seq \in Nat
    BY <2>1, CommittedTypes
  <2>3. i \in 1 .. Len(log) /\ log[i] \in Entry
    <3>1. log \in Seq(Entry)
      BY DEF Inv, Types
    <3>2. i \in 1 .. Len(log)
      BY <1>1, <2>2, <3>1
    <3> HIDE DEF i
    <3> QED  BY <3>1, <3>2
  <2>4. hist[i] \in State
    BY <2>3 DEF Inv, Types
  <2>5. hist[i + 1] = Effect(hist[i], log[i])
    BY <2>3 DEF Inv, HistOK
  <2>6. old \in State
    BY <2>1, CommittedTypes
  <2> QED  BY <2>1, <2>2, <2>3, <2>4, <2>5, <2>6
<1>3. /\ applier.start \in Nat /\ applier.start <= lm.writable.la
      /\ applier.base = lm.writable.seq
      /\ applier.view \in [seq : Nat, kv : Table]
      /\ StagedOK(applier.view, lm.writable.seq, old, hist[i])
  BY <1>1, <1>2 DEF Inv, ViewOK, Types, ApplierType
<1>4. /\ view \in [seq : Nat, kv : Table]
      /\ StagedOK(view, lm.writable.seq, old, hist[i + 1])
  <2>1. log[i].key \in Keys
    BY <1>2 DEF Entry
  <2>2. Seen(ViewGet(lm, applier.base, applier.view, log[i].key))
          = hist[i].kv[log[i].key]
    BY <1>1, <2>1, ViewShows
  <2>3. /\ applier.base \in Nat /\ log[i] \in Entry /\ hist[i] \in State
        /\ StagedOK(applier.view, applier.base, old, hist[i])
    BY <1>2, <1>3
  <2> HIDE DEF lm, i, old, view
  <2>4. /\ Upsert(lm, applier.base, applier.view, log[i]) \in [seq : Nat, kv : Table]
        /\ StagedOK(Upsert(lm, applier.base, applier.view, log[i]), applier.base,
                    old, Effect(hist[i], log[i]))
    BY <1>2, <1>3, <2>2, <2>3, UpsertStaged
  <2>5. view = Upsert(lm, applier.base, applier.view, log[i])
    BY DEF view
  <2> QED  BY <1>2, <1>3, <2>4, <2>5
<1> HIDE DEF view
<1>5. /\ new \in LMType /\ new.imm = lm.imm /\ new.db = lm.db
      /\ new.writable.kv = lm.writable.kv /\ new.writable.seq = lm.writable.seq
      /\ new.writable.la = i
  BY <1>2 DEF LMType, Level
<1>6. /\ sms' \in Seq(LMType) /\ Len(sms') = Len(sms) /\ sms' # <<>>
      /\ sms'[Cur] = new
      /\ \A j \in 1 .. Len(sms) : j # Cur => sms'[j] = sms[j]
  <2>1. sms' = [sms EXCEPT ![Cur] = new]
    BY <1>1
  <2>2. sms \in Seq(LMType)
    BY DEF Inv, Types
  <2>3. Cur \in 1 .. Len(sms) /\ new \in LMType
    BY <1>2, <1>5
  <2> HIDE DEF new, lm, i
  <2> QED  BY <2>1, <2>2, <2>3, SeqUpdate
<1> HIDE DEF new
<1>7. Types'
  <2>1. applier' \in ApplierType
    BY <1>1, <1>4 DEF Inv, Types, ApplierType
  <2> QED  BY <2>1, <1>1, <1>6 DEF Inv, Types
<1>8. HistOK' /\ DiskOK'
  BY <1>1 DEF Inv, HistOK, DiskOK, SnapshotAt
<1>9. applier'.start = applier.start /\ applier'.pc = "apply"
      /\ applier'.base = applier.base /\ applier'.view = view /\ Cur' = Cur
  BY <1>1, <1>6 DEF Applying, Inv, Types, ApplierType, Cur
<1>10. MapsOK'
  <2>1. ASSUME NEW j \in 1 .. Len(sms), j # Cur PROVE MapOK(j)'
    <3>1. Committed(j)' = Committed(j)
      BY <1>6, <1>9, <2>1 DEF Committed, Applying
    <3> QED  BY <3>1, <2>1, <1>1, <1>6 DEF Inv, MapsOK, MapOK, ShowsState
  <2>2. MapOK(Cur)'
    <3>1. Committed(Cur) = applier.start /\ Committed(Cur)' = applier.start
      BY <1>1, <1>9 DEF Committed, Applying
    <3>2. MapOK(Cur)
      BY <1>2 DEF Inv, MapsOK
    <3>3. Sound(new) /\ IdsBelow(new.imm, uniq)
      BY <3>2, <1>5 DEF MapOK, Sound
    <3>4. \A k \in Keys : Versions(new, k) = Versions(lm, k)
      BY <1>5 DEF Versions
    <3>5. ShowsState(new, hist[applier.start + 1])
      BY <3>1, <3>2, <3>4, <1>5 DEF MapOK, ShowsState
    <3>6. new.writable.la <= Len(log)
      BY <1>1, <1>5
    <3>7. sms'[Cur'] = new /\ uniq' = uniq /\ log' = log /\ hist' = hist
      BY <1>1, <1>6, <1>9
    <3> QED  BY <3>1, <3>3, <3>5, <3>6, <3>7, <1>9 DEF MapOK
  <2> QED  BY <2>1, <2>2, <1>6, <1>9 DEF MapsOK
<1>11. ViewOK'
  <2>1. sms'[Cur'].writable.la = i /\ sms'[Cur'].writable.seq = lm.writable.seq
    BY <1>5, <1>6, <1>9
  <2>2. applier.start <= i
    <3>1. /\ applier.start \in Nat /\ lm.writable.la \in Nat
          /\ applier.start <= lm.writable.la
      BY <1>2, <1>3
    <3> HIDE DEF lm
    <3> QED  BY <3>1
  <2> HIDE DEF i, lm
  <2> QED  BY <2>1, <2>2, <1>1, <1>3, <1>4, <1>9 DEF ViewOK, old
<1>12. BuildOK'
  <2>1. \A j \in 1 .. Len(sms) : sms'[j].imm = sms[j].imm /\ sms'[j].db = sms[j].db
    BY <1>5, <1>6
  <2>2. FrozenOK(builder.imm, builder.db)' <=> FrozenOK(builder.imm, builder.db)
    BY <1>1 DEF FrozenOK
  <2> QED  BY <2>1, <2>2, <1>1, <1>6 DEF Inv, BuildOK
<1>13. PermitOK'
  BY <1>1, <1>9 DEF Inv, PermitOK, Applying
<1> QED  BY <1>7, <1>8, <1>10, <1>11, <1>12, <1>13 DEF Inv

LEMMA ApplyCommitInv ==
    ASSUME Inv, ApplyCommit
    PROVE  Inv'
<1> DEFINE lm == sms[Cur]
           view == applier.view
           new == Commit(lm, view.kv, view.seq)
           old == hist[applier.start + 1]
           st == hist[lm.writable.la + 1]
<1>1. /\ Applying
      /\ sms' = [sms EXCEPT ![Cur] = new] /\ applier' = Idle
      /\ writer' = "free"
      /\ UNCHANGED <<log, hist, uniq, permit, builder, inmem, disk, raftSnap,
                     purged, installs, crashes, install>>
  BY DEF ApplyCommit
<1>2. /\ Cur \in 1 .. Len(sms) /\ lm \in LMType /\ lm.writable.la \in Nat
      /\ lm.writable.la <= Len(log)
      /\ lm.writable.seq \in Nat /\ Sound(lm) /\ IdsBelow(lm.imm, uniq)
      /\ \A k \in Keys : Shows(Versions(lm, k), old.kv[k])
      /\ view.kv \in Table /\ view.seq \in Nat
      /\ st.kv \in [Keys -> Nat]
  <2>1. Cur \in 1 .. Len(sms) /\ Committed(Cur) = applier.start
    BY <1>1, CommittedTypes DEF Committed
  <2>2. MapOK(Cur)
    BY <2>1 DEF Inv, MapsOK
  <2>3. view.kv \in Table /\ view.seq \in Nat
    BY DEF Inv, Types, ApplierType
  <2>4. /\ lm \in LMType /\ lm.writable.la \in Nat /\ lm.writable.seq \in Nat
        /\ lm.writable.la <= Len(log)
    BY <2>1, <2>2, CommittedTypes DEF MapOK
  <2>5. st.kv \in [Keys -> Nat]
    BY <2>4, CommittedTypes
  <2> QED  BY <2>1, <2>2, <2>3, <2>4, <2>5 DEF MapOK, ShowsState
<1>3. StagedOK(view, lm.writable.seq, old, st)
  BY <1>1 DEF Inv, ViewOK
<1>4. /\ new \in LMType /\ Sound(new)
      /\ new.imm = lm.imm /\ new.db = lm.db
      /\ new.writable.la = lm.writable.la /\ new.writable.seq = view.seq
      /\ Overlays(new, lm, view.kv)
  <2>1. Newer(lm, view.kv, view.seq)
    BY <1>3 DEF StagedOK, Newer
  <2>2. /\ lm \in LMType /\ Sound(lm) /\ view.kv \in Table /\ view.seq \in Nat
        /\ new = Commit(lm, view.kv, view.seq)
    BY <1>2
  <2> HIDE DEF lm, view, new
  <2> QED  BY <2>1, <2>2, CommitKeeps
<1>5. ShowsState(new, st)
  <2>1. new.writable.seq = st.seq
    BY <1>3, <1>4 DEF StagedOK
  <2>2. ASSUME NEW k \in Keys PROVE Shows(Versions(new, k), st.kv[k])
    <3>1. IF view.kv[k] = {} THEN old.kv[k] = st.kv[k] ELSE Shows(view.kv[k], st.kv[k])
      BY <1>3 DEF StagedOK
    <3>2. st.kv[k] \in Nat
      BY <1>2
    <3>3. (IF view.kv[k] = {} THEN Shows(Versions(lm, k), st.kv[k])
                               ELSE Shows(view.kv[k], st.kv[k]))
            => Shows(Versions(new, k), st.kv[k])
      BY <3>2, <1>4 DEF Overlays
    <3> HIDE DEF new, view, st, old, lm
    <3> QED  BY <3>1, <3>3, <1>2
  <2> QED  BY <2>1, <2>2 DEF ShowsState
<1> HIDE DEF new
<1>6. /\ sms' \in Seq(LMType) /\ Len(sms') = Len(sms) /\ sms' # <<>>
      /\ sms'[Cur] = new
      /\ \A j \in 1 .. Len(sms) : j # Cur => sms'[j] = sms[j]
  <2>1. sms \in Seq(LMType)
    BY DEF Inv, Types
  <2>2. Cur \in 1 .. Len(sms) /\ new \in LMType /\ sms' = [sms EXCEPT ![Cur] = new]
    BY <1>1, <1>2, <1>4
  <2> QED  BY <2>1, <2>2, SeqUpdate
<1>7. ~Applying' /\ Cur' = Cur
  BY <1>1, <1>6 DEF Applying, Idle, Cur
<1>8. Types'
  BY <1>1, <1>6, EmptyTypes DEF Inv, Types
<1>9. HistOK' /\ PermitOK' /\ DiskOK' /\ ViewOK'
  BY <1>1, <1>7 DEF Inv, HistOK, PermitOK, DiskOK, SnapshotAt, ViewOK, Applying,
                     Idle
<1>10. MapsOK'
  <2>1. ASSUME NEW j \in 1 .. Len(sms), j # Cur PROVE MapOK(j)'
    <3>1. Committed(j)' = Committed(j)
      BY <1>6, <1>7, <2>1 DEF Committed
    <3> QED  BY <3>1, <2>1, <1>1, <1>6 DEF Inv, MapsOK, MapOK, ShowsState
  <2>2. MapOK(Cur)'
    <3>1. Committed(Cur)' = lm.writable.la
      BY <1>4, <1>6, <1>7 DEF Committed
    <3>2. sms'[Cur'] = new /\ uniq' = uniq /\ log' = log /\ hist' = hist
      BY <1>1, <1>6, <1>7
    <3> QED  BY <3>1, <3>2, <1>2, <1>4, <1>5, <1>7 DEF MapOK
  <2> QED  BY <2>1, <2>2, <1>6, <1>7 DEF MapsOK
<1>11. BuildOK'
  <2>1. \A j \in 1 .. Len(sms) : sms'[j].imm = sms[j].imm /\ sms'[j].db = sms[j].db
    BY <1>4, <1>6
  <2>2. FrozenOK(builder.imm, builder.db)' <=> FrozenOK(builder.imm, builder.db)
    BY <1>1 DEF FrozenOK
  <2> QED  BY <2>1, <2>2, <1>1, <1>6 DEF Inv, BuildOK
<1> QED  BY <1>8, <1>9, <1>10, <1>11 DEF Inv
=============================================================================
