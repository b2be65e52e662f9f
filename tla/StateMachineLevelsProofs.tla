---------------------- MODULE StateMachineLevelsProofs ----------------------
(***************************************************************************)
(* The steps that freeze and merge levels, of the snapshot builder and of   *)
(* the in-memory compactor, preserve the invariant of StateMachineStore.    *)
(***************************************************************************)
EXTENDS StateMachineApplyProofs

-----------------------------------------------------------------------------
(***************************************************************************)
(* Steps that rearrange the levels of one state machine.                    *)
(***************************************************************************)
\* If sms[x] becomes lm, which shows what sms[x] showed, every map stays
\* right, and so does the view of a batch that is under way.
LEMMA LevelsStep ==
    ASSUME Inv, NEW x \in 1 .. Len(sms), NEW lm \in LMType,
           Sound(lm), IdsBelow(lm.imm, uniq'), uniq' \in Nat, uniq <= uniq',
           sms' = [sms EXCEPT ![x] = lm],
           lm.writable.la = sms[x].writable.la,
           lm.writable.seq = sms[x].writable.seq,
           \A k \in Keys, n \in Nat :
             Shows(Versions(sms[x], k), n) => Shows(Versions(lm, k), n),
           UNCHANGED <<log, hist, applier>>
    PROVE  /\ sms' \in Seq(LMType) /\ sms' # <<>> /\ Len(sms') = Len(sms)
           /\ sms'[x] = lm
           /\ \A i \in 1 .. Len(sms) : i # x => sms'[i] = sms[i]
           /\ HistOK' /\ MapsOK' /\ ViewOK'
<1>1. sms \in Seq(LMType) /\ uniq \in Nat
  BY DEF Inv, Types
<1>2. /\ sms' \in Seq(LMType) /\ sms' # <<>> /\ Len(sms') = Len(sms)
      /\ sms'[x] = lm
      /\ \A i \in 1 .. Len(sms) : i # x => sms'[i] = sms[i]
  BY <1>1, SeqUpdate
<1>3. HistOK'
  BY DEF Inv, HistOK
<1>4. \A i \in 1 .. Len(sms) :
        /\ sms'[i].writable.la = sms[i].writable.la
        /\ sms'[i].writable.seq = sms[i].writable.seq
  BY <1>2
<1>5. Cur' = Cur /\ (Applying' <=> Applying)
  BY <1>2 DEF Cur, Applying
<1>6. \A i \in 1 .. Len(sms) : Committed(i)' = Committed(i)
  BY <1>4, <1>5 DEF Committed
<1>7. MapsOK'
  <2>1. ASSUME NEW i \in 1 .. Len(sms), i # x PROVE MapOK(i)'
    <3>1. MapOK(i) /\ sms[i].imm \in ImmMap
      BY CommittedTypes DEF Inv, MapsOK, LMType
    <3>2. IdsBelow(sms[i].imm, uniq')
      BY <3>1, <1>1, ImmLevels DEF MapOK, IdsBelow
    <3> QED  BY <3>1, <3>2, <2>1, <1>2, <1>6 DEF MapOK, ShowsState
  <2>2. MapOK(x)'
    <3>1. MapOK(x) /\ hist[Committed(x) + 1].kv \in [Keys -> Nat]
      BY CommittedTypes DEF Inv, MapsOK
    <3>2. ShowsState(lm, hist[Committed(x) + 1])
      BY <3>1 DEF MapOK, ShowsState
    <3>3. lm.writable.la <= Len(log)
      BY <3>1 DEF MapOK
    <3> QED  BY <3>2, <3>3, <1>2, <1>6 DEF MapOK
  <2> QED  BY <2>1, <2>2, <1>2 DEF MapsOK
<1>8. ViewOK'
  <2>1. Cur \in 1 .. Len(sms)
    BY CommittedTypes
  <2>2. /\ sms'[Cur'].writable.la = sms[Cur].writable.la
        /\ sms'[Cur'].writable.seq = sms[Cur].writable.seq
    BY <2>1, <1>4, <1>5
  <2> QED  BY <2>2, <1>5 DEF Inv, ViewOK
<1> QED  BY <1>2, <1>3, <1>7, <1>8

LEMMA BuildFreezeInv ==
    ASSUME Inv, BuildFreeze
    PROVE  Inv'
<1> DEFINE x == builder.sm
           lm == sms[x]
           new == Freeze(lm, uniq)
<1>1. /\ builder.pc = "permit" /\ writer = "free"
      /\ sms' = [sms EXCEPT ![x] = new]
      /\ builder' = [builder EXCEPT !.pc = "frozen", !.imm = new.imm, !.db = new.db]
      /\ uniq' = uniq + 1
      /\ UNCHANGED <<log, hist, permit, applier, inmem, disk, raftSnap, purged,
                     installs, crashes, writer, install>>
  BY DEF BuildFreeze
<1>2. /\ x \in 1 .. Len(sms) /\ lm \in LMType /\ Sound(lm) /\ uniq \in Nat
      /\ IdsBelow(lm.imm, uniq)
      /\ lm.writable.la \in Nat /\ lm.writable.la <= Len(log)
      /\ ShowsState(lm, hist[lm.writable.la + 1])
  <2>1. x \in 1 .. Len(sms)
    BY <1>1 DEF Inv, BuildOK
  <2>2. MapOK(x) /\ Committed(x) = lm.writable.la
    BY <2>1, <1>1 DEF Inv, PermitOK, MapsOK, Committed, Applying
  <2> QED  BY <2>1, <2>2, CommittedTypes DEF MapOK, Inv, Types
<1>3. /\ new \in LMType /\ Sound(new) /\ IdsBelow(new.imm, uniq + 1)
      /\ \A k \in Keys : Versions(new, k) = Versions(lm, k)
      /\ new.writable.la = lm.writable.la /\ new.writable.seq = lm.writable.seq
      /\ \A k \in Keys : new.writable.kv[k] = {}
      /\ new.db = lm.db
      /\ uniq \in DOMAIN new.imm /\ \A j \in DOMAIN new.imm : j <= uniq
      /\ new.imm[uniq] = lm.writable
  <2> HIDE DEF lm
  <2> QED  BY <1>2, FreezeKeeps
<1> HIDE DEF new
<1>4. /\ sms' \in Seq(LMType) /\ sms' # <<>> /\ Len(sms') = Len(sms)
      /\ sms'[x] = new
      /\ HistOK' /\ MapsOK' /\ ViewOK'
  <2>1. uniq' \in Nat /\ uniq <= uniq'
    BY <1>1, <1>2
  <2> QED  BY <2>1, <1>1, <1>2, <1>3, LevelsStep
<1>5. /\ builder' \in BuilderType
      /\ builder'.pc = "frozen" /\ builder'.imm = new.imm /\ builder'.db = new.db
      /\ builder'.sm = x
  <2>1. builder \in BuilderType /\ new.imm \in ImmMap /\ new.db \in DB
    BY <1>3 DEF Inv, Types, LMType
  <2> QED  BY <2>1, <1>1 DEF BuilderType
<1>6. Types'
  <2>1. uniq' \in Nat
    BY <1>1, <1>2
  <2>2. /\ permit' = permit /\ applier' = applier /\ inmem' = inmem
        /\ disk' = disk /\ log' = log /\ hist' = hist
        /\ UNCHANGED <<raftSnap, purged, installs, crashes, writer, install>>
    BY <1>1
  <2> QED  BY <2>1, <2>2, <1>4, <1>5 DEF Inv, Types
<1>7. PermitOK' /\ DiskOK'
  BY <1>1, <1>5 DEF Inv, PermitOK, DiskOK, SnapshotAt
<1>8. FrozenOK(new.imm, new.db)
  <2>1. \A k \in Keys : MergedVersions(new.imm, new.db, k) \cup {NotFound}
                          = Versions(lm, k)
    BY <1>3 DEF Versions
  <2> QED  BY <2>1, <1>2, <1>3 DEF FrozenOK, ShowsState
<1>9. BuildOK'
  <2>1. FrozenOK(builder.imm, builder.db)'
    BY <1>1, <1>5, <1>8 DEF FrozenOK
  <2> QED  BY <2>1, <1>2, <1>4, <1>5 DEF BuildOK
<1> QED  BY <1>4, <1>6, <1>7, <1>9 DEF Inv

\* The in-memory compactor and the builder never hold the permit together.
LEMMA CompactorAlone ==
    ASSUME Inv, inmem \in {"permit", "frozen"}
    PROVE  /\ builder.pc \notin {"permit", "frozen", "written", "replaced"}
           /\ 1 \in 1 .. Len(sms) /\ sms[1] \in LMType /\ MapOK(1)
<1>1. 1 \in 1 .. Len(sms)
  BY CommittedTypes
<1> QED  BY <1>1, CommittedTypes DEF Inv, PermitOK, MapsOK

LEMMA CompactFreezeInv ==
    ASSUME Inv, CompactFreeze
    PROVE  Inv'
<1> DEFINE lm == sms[1]
           new == Freeze(lm, uniq)
<1>1. /\ inmem = "permit" /\ inmem' = "frozen"
      /\ sms' = [sms EXCEPT ![1] = new]
      /\ uniq' = uniq + 1
      /\ UNCHANGED <<log, hist, permit, applier, builder, disk, raftSnap, purged,
                     installs, crashes, writer, install>>
  BY DEF CompactFreeze
<1>2. /\ builder.pc \notin {"permit", "frozen", "written", "replaced"}
      /\ 1 \in 1 .. Len(sms) /\ lm \in LMType /\ Sound(lm)
      /\ IdsBelow(lm.imm, uniq) /\ uniq \in Nat
  BY <1>1, CompactorAlone DEF Inv, Types, MapOK
<1>3. /\ new \in LMType /\ Sound(new) /\ IdsBelow(new.imm, uniq + 1)
      /\ \A k \in Keys : Versions(new, k) = Versions(lm, k)
      /\ new.writable.la = lm.writable.la /\ new.writable.seq = lm.writable.seq
  <2> HIDE DEF lm
  <2> QED  BY <1>2, FreezeKeeps
<1> HIDE DEF new
<1>4. /\ sms' \in Seq(LMType) /\ sms' # <<>> /\ Len(sms') = Len(sms)
      /\ HistOK' /\ MapsOK' /\ ViewOK'
  <2>1. uniq' \in Nat /\ uniq <= uniq'
    BY <1>1, <1>2
  <2> QED  BY <2>1, <1>1, <1>2, <1>3, LevelsStep
<1>5. Types'
  BY <1>1, <1>2, <1>4 DEF Inv, Types
<1>6. PermitOK' /\ DiskOK' /\ BuildOK'
  BY <1>1, <1>2, <1>4 DEF Inv, PermitOK, DiskOK, SnapshotAt, BuildOK
<1> QED  BY <1>4, <1>5, <1>6 DEF Inv

LEMMA CompactMergeInv ==
    ASSUME Inv, CompactMerge
    PROVE  Inv'
<1> DEFINE lm == sms[1]
<1>1. /\ inmem = "frozen" /\ inmem' = "sleep" /\ permit' = "free"
      /\ UNCHANGED <<log, hist, uniq, applier, builder, disk, raftSnap, purged,
                     installs, crashes, writer, install>>
  BY DEF CompactMerge
<1>2. PICK i, j : /\ Adjacent(lm.imm, i, j)
                  /\ sms' = [sms EXCEPT ![1] =
                       ReplaceImmutableLevels(lm, CompactPair(lm.imm, i, j))]
  BY DEF CompactMerge
<1> DEFINE new == ReplaceImmutableLevels(lm, CompactPair(lm.imm, i, j))
<1>3. /\ builder.pc \notin {"permit", "frozen", "written", "replaced"}
      /\ 1 \in 1 .. Len(sms) /\ lm \in LMType /\ Sound(lm)
      /\ IdsBelow(lm.imm, uniq) /\ uniq \in Nat
  BY <1>1, CompactorAlone DEF Inv, Types, MapOK
<1>4. sms' = [sms EXCEPT ![1] = new]
  BY <1>2
<1>5. /\ new \in LMType /\ Sound(new) /\ IdsBelow(new.imm, uniq)
      /\ new.writable = lm.writable
      /\ \A k \in Keys, n \in Nat :
           Shows(Versions(lm, k), n) => Shows(Versions(new, k), n)
  <2>1. new = CompactAdjacent(lm, i, j)
    BY DEF CompactAdjacent
  <2>2. Adjacent(lm.imm, i, j)
    BY <1>2
  <2> HIDE DEF lm, new
  <2> QED  BY <2>1, <2>2, <1>3, CompactLevelsKeeps
<1> HIDE DEF new
<1>6. /\ sms' \in Seq(LMType) /\ sms' # <<>> /\ Len(sms') = Len(sms)
      /\ HistOK' /\ MapsOK' /\ ViewOK'
  <2>1. uniq' \in Nat /\ uniq <= uniq' /\ IdsBelow(new.imm, uniq')
    BY <1>1, <1>3, <1>5
  <2> QED  BY <2>1, <1>1, <1>3, <1>4, <1>5, LevelsStep
<1>7. Types'
  BY <1>1, <1>6 DEF Inv, Types
<1>8. PermitOK' /\ DiskOK' /\ BuildOK'
  BY <1>1, <1>3, <1>6 DEF Inv, PermitOK, DiskOK, SnapshotAt, BuildOK
<1> QED  BY <1>6, <1>7, <1>8 DEF Inv
=============================================================================
