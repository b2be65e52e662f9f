-------------------------- MODULE LeveledMapProofs --------------------------
(***************************************************************************)
(* What the operations of the leveled map preserve, for any set of keys.    *)
(***************************************************************************)
EXTENDS LeveledMap, WellFoundedInduction, TLAPS

(***************************************************************************)
(* Greatest elements.                                                       *)
(***************************************************************************)

\* A non-empty bounded set of naturals has a greatest element (the newest
\* level that has a key exists).
LEMMA NatMax ==
    ASSUME NEW S \in SUBSET Nat, S # {}, NEW b \in Nat, \A s \in S : s <= b
    PROVE  \E m \in S : \A s \in S : s <= m
<1> DEFINE T == {x \in Nat : \A s \in S : s <= x}
<1>1. T \subseteq Nat /\ T # {}
  OBVIOUS
<1>2. PICK m \in T : \A y \in T : ~ (<<y, m>> \in OpToRel(<, Nat))
  <2> HIDE DEF T
  <2> QED  BY <1>1, WFMin, NatLessThanWellFounded, Zenon
<1>3. \A y \in T : ~ (y < m)
  BY <1>2 DEF OpToRel
<1>4. m \in S
  <2> SUFFICES ASSUME m \notin S PROVE FALSE
    OBVIOUS
  <2>1. m # 0
    <3>1. PICK s \in S : TRUE
      OBVIOUS
    <3>2. s <= m /\ s \in Nat /\ s # m
      BY <3>1
    <3> QED  BY <3>2
  <2>2. m - 1 \in T
    BY <2>1
  <2> QED  BY <2>2, <1>3
<1> QED  BY <1>4

\* The versions of a key that have a bounded seq have exactly one newest.
LEMMA NewestIsNewest ==
    ASSUME NEW S \in SUBSET Version, S # {}, NEW b \in Nat,
           \A v \in S : v.seq <= b
    PROVE  IsNewest(Newest(S), S)
<1> DEFINE Q == {v.seq : v \in S}
<1>1. PICK m \in Q : \A s \in Q : s <= m
  <2>1. Q \in SUBSET Nat /\ Q # {} /\ \A s \in Q : s <= b
    BY DEF Version
  <2> HIDE DEF Q
  <2> QED  BY <2>1, NatMax
<1>2. \E v \in S : IsNewest(v, S)
  <2>1. CASE \E v \in S : v.seq = m /\ v.del
    <3>1. PICK v \in S : v.seq = m /\ v.del
      BY <2>1
    <3>2. \A w \in S : ~Before(v, w)
      BY <3>1, <1>1 DEF Before, Version
    <3> QED  BY <3>2 DEF IsNewest
  <2>2. CASE \A v \in S : v.seq = m => ~v.del
    <3>1. PICK v \in S : v.seq = m
      BY <1>1
    <3>2. \A w \in S : ~Before(v, w)
      BY <3>1, <2>2, <1>1 DEF Before, Version
    <3> QED  BY <3>2 DEF IsNewest
  <2> QED  BY <2>1, <2>2
<1> QED  BY <1>2 DEF Newest

LEMMA NewestIsUnique ==
    ASSUME NEW S \in SUBSET Version, NEW v, NEW w,
           IsNewest(v, S), IsNewest(w, S)
    PROVE  v = w
<1>1. v \in Version /\ w \in Version /\ ~Before(v, w) /\ ~Before(w, v)
  BY DEF IsNewest
<1>2. v.seq = w.seq
  BY <1>1 DEF Before, Version
<1>3. v.del = w.del
  BY <1>1, <1>2 DEF Before, Version
<1> QED  BY <1>1, <1>2, <1>3 DEF Version

-----------------------------------------------------------------------------
(***************************************************************************)
(* What a well-formed leveled map is, and what it shows.                    *)
(***************************************************************************)
ImmMap == UNION {[D -> Level] : D \in SUBSET Nat}

LMType == [writable : Level, imm : ImmMap, db : DB]

\* All versions of a key; NotFound stands for "none" and keeps the set
\* inhabited.
Versions(lm, k) ==
    lm.writable.kv[k] \cup MergedVersions(lm.imm, lm.db, k) \cup {NotFound}

\* The newest of S is what a client sees as n.
Shows(S, n) == \E v \in S : IsNewest(v, S) /\ Seen(v) = n

\* No version of older beats one of newer.
NotOlder(newer, older) == \A v \in newer, w \in older : ~Before(v, w)

\* Versions that were really written, none after b.
Written(S, b) == \A v \in S : v.seq <= b /\ v # Normal(0)

DBVersions(db, k) == IF db.kv[k] = 0 THEN {} ELSE {Normal(db.kv[k])}

\* Levels and database hold versions up to b, and a newer level never holds an
\* older version of a key than an older level or the database.
ImmSound(imm, db, b) ==
    \A k \in Keys :
      /\ db.kv[k] <= b
      /\ \A i \in DOMAIN imm :
           /\ Written(imm[i].kv[k], b)
           /\ NotOlder(imm[i].kv[k], DBVersions(db, k))
           /\ \A j \in DOMAIN imm : j < i => NotOlder(imm[i].kv[k], imm[j].kv[k])

Sound(lm) ==
    /\ ImmSound(lm.imm, lm.db, lm.writable.seq)
    /\ \A k \in Keys :
         /\ Written(lm.writable.kv[k], lm.writable.seq)
         /\ NotOlder(lm.writable.kv[k], DBVersions(lm.db, k))
         /\ \A i \in DOMAIN lm.imm : NotOlder(lm.writable.kv[k], lm.imm[i].kv[k])

\* Level indexes are below the counter they are drawn from.
IdsBelow(imm, u) == \A i \in DOMAIN imm : i < u

-----------------------------------------------------------------------------
(***************************************************************************)
(* Reads.                                                                   *)
(***************************************************************************)
LEMMA ShowsOne ==
    ASSUME NEW S \in SUBSET Version, NEW m, NEW n, Shows(S, m), Shows(S, n)
    PROVE  m = n
BY NewestIsUnique DEF Shows

LEMMA ImmLevels ==
    ASSUME NEW imm \in ImmMap
    PROVE  /\ DOMAIN imm \in SUBSET Nat
           /\ \A i \in DOMAIN imm :
                imm[i] \in Level /\ imm[i].la \in Nat /\ imm[i].seq \in Nat
<1>1. DOMAIN imm \in SUBSET Nat /\ \A i \in DOMAIN imm : imm[i] \in Level
  BY DEF ImmMap
<1> QED  BY <1>1 DEF Level

LEMMA MergedTypes ==
    ASSUME NEW imm \in ImmMap, NEW db \in DB, NEW k \in Keys
    PROVE  /\ MergedVersions(imm, db, k) \in SUBSET Version
           /\ DBVersions(db, k) \in SUBSET Version
           /\ DOMAIN imm \in SUBSET Nat
           /\ \A i \in DOMAIN imm : imm[i] \in Level
           /\ \A i \in DOMAIN imm : imm[i].kv[k] \in SUBSET Version
<1>1. /\ DOMAIN imm \in SUBSET Nat
      /\ \A i \in DOMAIN imm : imm[i] \in Level
  BY DEF ImmMap
<1>2. \A i \in DOMAIN imm : imm[i].kv[k] \in SUBSET Version
  BY <1>1 DEF Level, Table
<1>3. DBVersions(db, k) \in SUBSET Version
  BY DEF DBVersions, DB, Normal, Version
<1>4. MergedVersions(imm, db, k) \in SUBSET Version
  BY <1>2, <1>3 DEF MergedVersions, DBVersions
<1> QED  BY <1>1, <1>2, <1>3, <1>4

LEMMA VersionsTypes ==
    ASSUME NEW lm \in LMType, NEW k \in Keys
    PROVE  /\ Versions(lm, k) \in SUBSET Version
           /\ lm.writable.kv[k] \in SUBSET Version
           /\ NotFound \in Version
           /\ lm.writable.seq \in Nat /\ lm.writable.la \in Nat
           /\ lm.imm \in ImmMap /\ lm.db \in DB /\ lm.writable \in Level
<1>1. /\ lm.imm \in ImmMap /\ lm.db \in DB /\ lm.writable \in Level
      /\ lm.writable.seq \in Nat /\ lm.writable.la \in Nat
      /\ lm.writable.kv[k] \in SUBSET Version
  BY DEF LMType, Level, Table
<1>2. NotFound \in Version
  BY DEF NotFound, Tombstone, Version
<1> QED  BY <1>1, <1>2, MergedTypes DEF Versions

\* A table read bounded by a seq that no version exceeds finds the newest.
LEMMA TableGetNewest ==
    ASSUME NEW t \in Table, NEW k \in Keys, NEW snap \in Nat,
           Written(t[k], snap)
    PROVE  IsNewest(TableGet(t, k, snap), t[k] \cup {NotFound})
<1>1. t[k] \in SUBSET Version /\ NotFound \in Version
  BY DEF Table, NotFound, Tombstone, Version
<1>2. {v \in t[k] : v.seq <= snap} = t[k]
  BY DEF Written
<1>3. CASE t[k] = {}
  BY <1>2, <1>3 DEF TableGet, IsNewest, Before, NotFound, Tombstone
<1>4. CASE t[k] # {}
  <2>1. IsNewest(Newest(t[k]), t[k])
    BY <1>1, <1>4, NewestIsNewest DEF Written
  <2>2. \A v \in t[k] : ~Before(v, NotFound)
    BY <1>1 DEF Written, Before, NotFound, Tombstone, Normal, Version
  <2>3. TableGet(t, k, snap) = Newest(t[k])
    BY <1>2, <1>4 DEF TableGet
  <2> QED  BY <2>1, <2>2, <2>3 DEF IsNewest
<1> QED  BY <1>3, <1>4

\* Nothing but "none" is as old as NotFound.
LEMMA NotFoundOldest ==
    ASSUME NEW v \in Version, v # Normal(0)
    PROVE  /\ ~Before(v, NotFound)
           /\ ~Before(NotFound, v) => v = NotFound
BY DEF Version, Normal, NotFound, Tombstone, Before

LEMMA ImmutableGetNewest ==
    ASSUME NEW imm \in ImmMap, NEW db \in DB, NEW k \in Keys, NEW snap \in Nat,
           NEW u \in Nat, IdsBelow(imm, u), ImmSound(imm, db, snap)
    PROVE  IsNewest(ImmutableGet(imm, k, snap),
                    (UNION {imm[i].kv[k] : i \in DOMAIN imm}) \cup {NotFound})
<1> DEFINE hits == {i \in DOMAIN imm : TableGet(imm[i].kv, k, snap) # NotFound}
           top == CHOOSE i \in hits : \A j \in hits : j <= i
           all == UNION {imm[i].kv[k] : i \in DOMAIN imm}
<1>1. \A i \in DOMAIN imm :
        /\ imm[i].kv \in Table
        /\ imm[i].kv[k] \in SUBSET Version
        /\ Written(imm[i].kv[k], snap)
        /\ IsNewest(TableGet(imm[i].kv, k, snap), imm[i].kv[k] \cup {NotFound})
  BY MergedTypes, TableGetNewest DEF ImmSound, Level
<1>2. \A i \in DOMAIN imm \ hits : imm[i].kv[k] \subseteq {NotFound}
  BY <1>1, NotFoundOldest DEF IsNewest, Written
<1>3. CASE hits = {}
  <2>1. all \subseteq {NotFound}
    BY <1>2, <1>3
  <2>2. ImmutableGet(imm, k, snap) = NotFound
    BY <1>3 DEF ImmutableGet
  <2>3. ~Before(NotFound, NotFound)
    BY DEF Before, NotFound, Tombstone
  <2> QED  BY <2>1, <2>2, <2>3 DEF IsNewest
<1>4. CASE hits # {}
  <2>1. hits \in SUBSET Nat /\ \A i \in hits : i <= u
    BY MergedTypes DEF IdsBelow
  <2>2. top \in hits /\ \A j \in hits : j <= top
    <3> HIDE DEF hits
    <3> QED  BY <2>1, <1>4, NatMax
  <2> DEFINE g == TableGet(imm[top].kv, k, snap)
  <2>3. ImmutableGet(imm, k, snap) = g
    BY <1>4 DEF ImmutableGet
  <2> HIDE DEF top
  <2>4. g # NotFound /\ g \in imm[top].kv[k] /\ IsNewest(g, imm[top].kv[k] \cup {NotFound})
    BY <1>1, <2>2 DEF IsNewest
  <2>5. ASSUME NEW i \in DOMAIN imm, NEW w \in imm[i].kv[k]
        PROVE  ~Before(g, w)
    <3>1. CASE i \notin hits
      BY <3>1, <1>2, <2>4 DEF IsNewest
    <3>2. CASE i = top
      BY <3>2, <2>4 DEF IsNewest
    <3>3. CASE i \in hits /\ i # top
      BY <3>3, <2>1, <2>2, <2>4 DEF ImmSound, NotOlder
    <3> QED  BY <3>1, <3>2, <3>3
  <2> QED  BY <2>2, <2>3, <2>4, <2>5 DEF IsNewest
<1> QED  BY <1>3, <1>4

LEMMA DBGetNewest ==
    ASSUME NEW db \in DB, NEW k \in Keys
    PROVE  IsNewest(DBGet(db, k), DBVersions(db, k) \cup {NotFound})
<1>1. db.kv[k] \in Nat
  BY DEF DB
<1>2. CASE db.kv[k] = 0
  BY <1>2 DEF DBGet, DBVersions, IsNewest, Before, NotFound, Tombstone
<1>3. CASE db.kv[k] # 0
  BY <1>1, <1>3 DEF DBGet, DBVersions, IsNewest, Before, NotFound, Tombstone, Normal
<1> QED  BY <1>2, <1>3

\* LeveledMap::get, bounded by the seq of the map, finds the newest version
\* although it stops at the first level that has the key.
LEMMA GetNewest ==
    ASSUME NEW lm \in LMType, Sound(lm), NEW k \in Keys,
           NEW u \in Nat, IdsBelow(lm.imm, u)
    PROVE  IsNewest(Get(lm, k, lm.writable.seq), Versions(lm, k))
<1> DEFINE snap == lm.writable.seq
           W == lm.writable.kv[k]
           I == UNION {lm.imm[i].kv[k] : i \in DOMAIN lm.imm}
           D == DBVersions(lm.db, k)
           w == TableGet(lm.writable.kv, k, snap)
           i == ImmutableGet(lm.imm, k, snap)
           d == DBGet(lm.db, k)
<1>1. /\ lm.imm \in ImmMap /\ lm.db \in DB /\ lm.writable.kv \in Table
      /\ snap \in Nat
      /\ W \in SUBSET Version /\ I \in SUBSET Version /\ D \in SUBSET Version
  BY VersionsTypes, MergedTypes DEF Level
<1>2. Versions(lm, k) = W \cup I \cup D \cup {NotFound}
  BY DEF Versions, MergedVersions, DBVersions
<1>3. /\ IsNewest(w, W \cup {NotFound})
      /\ IsNewest(i, I \cup {NotFound})
      /\ IsNewest(d, D \cup {NotFound})
  BY <1>1, TableGetNewest, ImmutableGetNewest, DBGetNewest DEF Sound
<1>4. NotOlder(W, I) /\ NotOlder(W, D) /\ NotOlder(I, D)
  BY DEF Sound, ImmSound, NotOlder
<1>5. /\ \A v \in W \cup I : v # Normal(0)
  BY DEF Sound, ImmSound, Written
<1>6. Get(lm, k, snap) = IF w # NotFound THEN w ELSE IF i # NotFound THEN i ELSE d
  BY DEF Get
<1> HIDE DEF W, I, D, w, i, d
<1>7. CASE w # NotFound
  BY <1>7, <1>2, <1>3, <1>4, <1>6 DEF IsNewest, NotOlder
<1>8. CASE w = NotFound /\ i # NotFound
  <2>1. W \subseteq {NotFound}
    BY <1>8, <1>1, <1>3, <1>5, NotFoundOldest DEF IsNewest
  <2> QED  BY <2>1, <1>8, <1>2, <1>3, <1>4, <1>6 DEF IsNewest, NotOlder
<1>9. CASE w = NotFound /\ i = NotFound
  <2>1. W \subseteq {NotFound} /\ I \subseteq {NotFound}
    BY <1>9, <1>1, <1>3, <1>5, NotFoundOldest DEF IsNewest
  <2> QED  BY <2>1, <1>9, <1>2, <1>3, <1>6 DEF IsNewest
<1> QED  BY <1>7, <1>8, <1>9

LEMMA GetShows ==
    ASSUME NEW lm \in LMType, Sound(lm), NEW k \in Keys,
           NEW u \in Nat, IdsBelow(lm.imm, u),
           NEW n, Shows(Versions(lm, k), n)
    PROVE  Seen(Get(lm, k, lm.writable.seq)) = n
<1>1. Versions(lm, k) \in SUBSET Version
  BY VersionsTypes
<1> QED  BY <1>1, GetNewest, NewestIsUnique DEF Shows

-----------------------------------------------------------------------------
(***************************************************************************)
(* Changes of the levels.                                                   *)
(***************************************************************************)
\* Freezing moves the versions of the writable level, no version is lost.
LEMMA FreezeKeeps ==
    ASSUME NEW lm \in LMType, Sound(lm), NEW u \in Nat, IdsBelow(lm.imm, u)
    PROVE  /\ Freeze(lm, u) \in LMType
           /\ Sound(Freeze(lm, u))
           /\ IdsBelow(Freeze(lm, u).imm, u + 1)
           /\ \A k \in Keys : Versions(Freeze(lm, u), k) = Versions(lm, k)
           /\ Freeze(lm, u).writable.la = lm.writable.la
           /\ Freeze(lm, u).writable.seq = lm.writable.seq
           /\ \A k \in Keys : Freeze(lm, u).writable.kv[k] = {}
           /\ Freeze(lm, u).db = lm.db
           /\ u \in DOMAIN Freeze(lm, u).imm
           /\ \A j \in DOMAIN Freeze(lm, u).imm : j <= u
           /\ Freeze(lm, u).imm[u] = lm.writable
<1> DEFINE f == Freeze(lm, u)
           imm == [j \in DOMAIN lm.imm \cup {u} |->
                     IF j = u THEN lm.writable ELSE lm.imm[j]]
<1>1. /\ lm.imm \in ImmMap /\ lm.writable \in Level /\ lm.db \in DB
      /\ DOMAIN lm.imm \in SUBSET Nat
      /\ \A j \in DOMAIN lm.imm : lm.imm[j] \in Level /\ j # u /\ j < u
  <2>1. lm.imm \in ImmMap /\ lm.writable \in Level /\ lm.db \in DB
    BY DEF LMType
  <2>2. /\ DOMAIN lm.imm \in SUBSET Nat
        /\ \A j \in DOMAIN lm.imm : lm.imm[j] \in Level
    BY <2>1 DEF ImmMap
  <2> QED  BY <2>1, <2>2 DEF IdsBelow
<1>2. f = [writable |-> NewLevel(lm.writable), imm |-> imm, db |-> lm.db]
  BY DEF Freeze
<1>3. NewLevel(lm.writable) = [la |-> lm.writable.la, seq |-> lm.writable.seq,
                               kv |-> EmptyTable]
  BY <1>1 DEF NewLevel, Level
<1>4. /\ f.imm = imm /\ f.db = lm.db
      /\ f.writable.la = lm.writable.la /\ f.writable.seq = lm.writable.seq
      /\ f.writable.kv = EmptyTable
  BY <1>2, <1>3
<1>5. imm \in ImmMap
  <2>1. imm \in [DOMAIN lm.imm \cup {u} -> Level]
    BY <1>1
  <2>2. DOMAIN lm.imm \cup {u} \in SUBSET Nat
    BY <1>1
  <2> QED  BY <2>1, <2>2 DEF ImmMap
<1>6. NewLevel(lm.writable) \in Level
  BY <1>1, <1>3 DEF Level, EmptyTable, Table
<1>7. f \in LMType
  BY <1>1, <1>2, <1>5, <1>6 DEF LMType
<1>8. /\ imm[u] = lm.writable
      /\ DOMAIN imm = DOMAIN lm.imm \cup {u}
      /\ \A j \in DOMAIN lm.imm : imm[j] = lm.imm[j]
  BY <1>1
<1> HIDE DEF imm, f
<1>9. \A j \in DOMAIN imm : j <= u
  BY <1>1, <1>8
<1>10. Sound(f)
  <2>1. ImmSound(imm, lm.db, lm.writable.seq)
    <3> SUFFICES ASSUME NEW k \in Keys
                 PROVE  /\ lm.db.kv[k] <= lm.writable.seq
                        /\ \A i \in DOMAIN imm :
                             /\ Written(imm[i].kv[k], lm.writable.seq)
                             /\ NotOlder(imm[i].kv[k], DBVersions(lm.db, k))
                             /\ \A j \in DOMAIN imm :
                                  j < i => NotOlder(imm[i].kv[k], imm[j].kv[k])
      BY DEF ImmSound
    <3>1. ASSUME NEW i \in DOMAIN imm, NEW j \in DOMAIN imm, j < i
          PROVE  j \in DOMAIN lm.imm
      BY <3>1, <1>1, <1>8, <1>9
    <3> QED  BY <3>1, <1>1, <1>8 DEF Sound, ImmSound
  <2>2. \A k \in Keys : f.writable.kv[k] = {}
    BY <1>4 DEF EmptyTable
  <2> QED  BY <2>1, <2>2, <1>4 DEF Sound, Written, NotOlder
<1>11. ASSUME NEW k \in Keys PROVE Versions(f, k) = Versions(lm, k)
  <2>1. f.writable.kv[k] = {}
    BY <1>4 DEF EmptyTable
  <2>2. UNION {imm[i].kv[k] : i \in DOMAIN imm}
          = lm.writable.kv[k] \cup UNION {lm.imm[i].kv[k] : i \in DOMAIN lm.imm}
    BY <1>8
  <2> QED  BY <2>1, <2>2, <1>4 DEF Versions, MergedVersions
<1>12. IdsBelow(imm, u + 1)
  BY <1>9, <1>1, <1>8 DEF IdsBelow
<1>13. \A k \in Keys : f.writable.kv[k] = {}
  BY <1>4 DEF EmptyTable
<1> QED  BY <1>4, <1>7, <1>8, <1>9, <1>10, <1>11, <1>12, <1>13 DEF f

\* Dropping versions that others supersede changes nothing that is shown.
LEMMA ShowsKept ==
    ASSUME NEW S \in SUBSET Version, NEW T \in SUBSET S, NEW n,
           \A v \in S : \E w \in T : ~Before(w, v),
           Shows(S, n)
    PROVE  Shows(T, n)
<1>1. PICK v \in S : IsNewest(v, S) /\ Seen(v) = n
  BY DEF Shows
<1>2. PICK w \in T : ~Before(w, v)
  OBVIOUS
<1>3. v = w
  BY <1>1, <1>2 DEF IsNewest, Before, Version
<1> QED  BY <1>1, <1>2, <1>3 DEF Shows, IsNewest

LEMMA CompactTablesKeeps ==
    ASSUME NEW a \in Table, NEW c \in Table, NEW b \in Nat,
           \A k \in Keys : Written(a[k], b) /\ Written(c[k], b)
    PROVE  /\ CompactTables(a, c) \in Table
           /\ \A k \in Keys :
                /\ CompactTables(a, c)[k] \subseteq a[k] \cup c[k]
                /\ \A v \in a[k] \cup c[k] :
                     \E w \in CompactTables(a, c)[k] : ~Before(w, v)
<1> DEFINE all(k) == a[k] \cup c[k]
           best(k) == IF all(k) = {} THEN {} ELSE {Newest(all(k))}
<1>1. ASSUME NEW k \in Keys
      PROVE  /\ best(k) \subseteq all(k)
             /\ \A v \in all(k) : \E w \in best(k) : ~Before(w, v)
             /\ all(k) \in SUBSET Version
  <2>1. all(k) \in SUBSET Version
    BY DEF Table
  <2>2. all(k) # {} => IsNewest(Newest(all(k)), all(k))
    <3>1. \A v \in all(k) : v.seq <= b
      BY DEF Written
    <3> HIDE DEF all
    <3> QED  BY <2>1, <3>1, NewestIsNewest
  <2> QED  BY <2>1, <2>2 DEF IsNewest
<1>2. CompactTables(a, c) = [k \in Keys |-> best(k)]
  BY DEF CompactTables
<1> HIDE DEF best
<1>3. CompactTables(a, c) \in Table
  BY <1>1, <1>2 DEF Table
<1> QED  BY <1>1, <1>2, <1>3

\* compact_min_adjacent: levels stay ordered, and every version that is gone
\* was superseded.
LEMMA CompactPairKeeps ==
    ASSUME NEW imm \in ImmMap, NEW db \in DB, NEW b \in Nat,
           ImmSound(imm, db, b), NEW i, NEW j, Adjacent(imm, i, j)
    PROVE  /\ CompactPair(imm, i, j) \in ImmMap
           /\ ImmSound(CompactPair(imm, i, j), db, b)
           /\ DOMAIN CompactPair(imm, i, j) \subseteq DOMAIN imm
           /\ \A m \in DOMAIN CompactPair(imm, i, j), k \in Keys :
                \A v \in CompactPair(imm, i, j)[m].kv[k] :
                  \E l \in DOMAIN imm : v \in imm[l].kv[k]
           /\ \A l \in DOMAIN imm, k \in Keys : \A v \in imm[l].kv[k] :
                \E m \in DOMAIN CompactPair(imm, i, j) :
                  \E w \in CompactPair(imm, i, j)[m].kv[k] : ~Before(w, v)
<1> DEFINE P == CompactPair(imm, i, j)
           C == CompactLevels(imm[j], imm[i])
<1>1. /\ i \in DOMAIN imm /\ j \in DOMAIN imm /\ i < j /\ i \in Nat /\ j \in Nat
      /\ \A m \in DOMAIN imm : m <= i \/ j <= m
      /\ DOMAIN imm \in SUBSET Nat
      /\ \A m \in DOMAIN imm : imm[m] \in Level /\ imm[m].kv \in Table
      /\ \A m \in DOMAIN imm, k \in Keys : imm[m].kv[k] \in SUBSET Version
  <2>1. DOMAIN imm \in SUBSET Nat /\ \A m \in DOMAIN imm : imm[m] \in Level
    BY DEF ImmMap
  <2>2. \A m \in DOMAIN imm : imm[m].kv \in Table
    BY <2>1 DEF Level
  <2>3. \A m \in DOMAIN imm, k \in Keys : imm[m].kv[k] \in SUBSET Version
    BY <2>2 DEF Table
  <2> QED  BY <2>1, <2>2, <2>3 DEF Adjacent
<1>2. \A k \in Keys : Written(imm[i].kv[k], b) /\ Written(imm[j].kv[k], b)
  BY <1>1 DEF ImmSound
<1>3. /\ C.kv = CompactTables(imm[j].kv, imm[i].kv)
      /\ C \in Level
  <2>1. CompactTables(imm[j].kv, imm[i].kv) \in Table
    BY <1>1, <1>2, CompactTablesKeeps
  <2> QED  BY <2>1, <1>1 DEF CompactLevels, Level
<1>4. \A k \in Keys :
        /\ C.kv[k] \subseteq imm[j].kv[k] \cup imm[i].kv[k]
        /\ \A v \in imm[j].kv[k] \cup imm[i].kv[k] :
             \E w \in C.kv[k] : ~Before(w, v)
  BY <1>1, <1>2, <1>3, CompactTablesKeeps
<1> HIDE DEF C
<1>5. /\ DOMAIN P = DOMAIN imm \ {i}
      /\ P[j] = C
      /\ \A m \in DOMAIN P : m # j => P[m] = imm[m]
      /\ P \in ImmMap
  <2>1. P = [m \in DOMAIN imm \ {i} |-> IF m = j THEN C ELSE imm[m]]
    BY DEF CompactPair, C
  <2>2. P \in [DOMAIN imm \ {i} -> Level]
    BY <2>1, <1>1, <1>3
  <2>3. P \in ImmMap
    BY <2>2, <1>1 DEF ImmMap
  <2> QED  BY <2>1, <2>3, <1>1
<1> HIDE DEF P
<1>6. ASSUME NEW m \in DOMAIN P, NEW k \in Keys
      PROVE  \A v \in P[m].kv[k] :
               \E l \in DOMAIN imm : v \in imm[l].kv[k] /\ (l = m \/ (l = i /\ m = j))
  BY <1>1, <1>4, <1>5
<1>7. ASSUME NEW l \in DOMAIN imm, NEW k \in Keys, NEW v \in imm[l].kv[k]
      PROVE  \E m \in DOMAIN P : \E w \in P[m].kv[k] : ~Before(w, v)
  <2>1. CASE l \in {i, j}
    BY <2>1, <1>1, <1>4, <1>5
  <2>2. CASE l \notin {i, j}
    <3>1. ~Before(v, v)
      BY <1>1 DEF Before, Version
    <3> QED  BY <2>2, <3>1, <1>5
  <2> QED  BY <2>1, <2>2
<1>8. ImmSound(P, db, b)
  <2> SUFFICES ASSUME NEW k \in Keys, NEW m \in DOMAIN P
               PROVE  /\ Written(P[m].kv[k], b)
                      /\ NotOlder(P[m].kv[k], DBVersions(db, k))
                      /\ \A n \in DOMAIN P :
                           n < m => NotOlder(P[m].kv[k], P[n].kv[k])
    BY DEF ImmSound
  <2>1. Written(P[m].kv[k], b) /\ NotOlder(P[m].kv[k], DBVersions(db, k))
    BY <1>6 DEF ImmSound, Written, NotOlder
  <2>2. ASSUME NEW n \in DOMAIN P, n < m,
               NEW v \in P[m].kv[k], NEW w \in P[n].kv[k]
        PROVE  ~Before(v, w)
    <3>1. PICK l \in DOMAIN imm : v \in imm[l].kv[k] /\ (l = m \/ (l = i /\ m = j))
      BY <1>6
    <3>2. PICK o \in DOMAIN imm : w \in imm[o].kv[k] /\ (o = n \/ (o = i /\ n = j))
      BY <1>6
    <3>3. o < l
      BY <3>1, <3>2, <2>2, <1>1, <1>5
    <3> QED  BY <3>1, <3>2, <3>3 DEF ImmSound, NotOlder
  <2> QED  BY <2>1, <2>2 DEF NotOlder
<1>9. \A m \in DOMAIN P, k \in Keys : \A v \in P[m].kv[k] :
         \E l \in DOMAIN imm : v \in imm[l].kv[k]
  BY <1>6
<1>10. DOMAIN P \subseteq DOMAIN imm
  BY <1>5
<1> QED  BY <1>5, <1>7, <1>8, <1>9, <1>10 DEF P

CompactAdjacent(lm, i, j) ==
    ReplaceImmutableLevels(lm, CompactPair(lm.imm, i, j))

LEMMA CompactLevelsKeeps ==
    ASSUME NEW lm \in LMType, Sound(lm), NEW i, NEW j, Adjacent(lm.imm, i, j),
           NEW u \in Nat, IdsBelow(lm.imm, u)
    PROVE  /\ CompactAdjacent(lm, i, j) \in LMType
           /\ Sound(CompactAdjacent(lm, i, j))
           /\ IdsBelow(CompactAdjacent(lm, i, j).imm, u)
           /\ CompactAdjacent(lm, i, j).writable = lm.writable
           /\ \A k \in Keys, n \in Nat :
                Shows(Versions(lm, k), n) =>
                  Shows(Versions(CompactAdjacent(lm, i, j), k), n)
<1> DEFINE r == CompactAdjacent(lm, i, j)
<1> DEFINE P == CompactPair(lm.imm, i, j)
<1>1. lm.imm \in ImmMap /\ lm.db \in DB /\ lm.writable.seq \in Nat
  BY DEF LMType, Level
<1>2. /\ P \in ImmMap
      /\ ImmSound(P, lm.db, lm.writable.seq)
      /\ DOMAIN P \subseteq DOMAIN lm.imm
      /\ \A m \in DOMAIN P, k \in Keys : \A v \in P[m].kv[k] :
            \E l \in DOMAIN lm.imm : v \in lm.imm[l].kv[k]
      /\ \A l \in DOMAIN lm.imm, k \in Keys : \A v \in lm.imm[l].kv[k] :
            \E m \in DOMAIN P : \E w \in P[m].kv[k] : ~Before(w, v)
  <2>1. ImmSound(lm.imm, lm.db, lm.writable.seq)
    BY DEF Sound
  <2> QED  BY <1>1, <2>1, CompactPairKeeps
<1> HIDE DEF P
<1>3. r \in LMType /\ r.writable = lm.writable /\ r.db = lm.db /\ r.imm = P
  BY <1>2 DEF P, LMType, ReplaceImmutableLevels, CompactAdjacent
<1> HIDE DEF r
<1>4. Sound(r) /\ IdsBelow(r.imm, u)
  <2>1. \A k \in Keys, m \in DOMAIN P : NotOlder(lm.writable.kv[k], P[m].kv[k])
    BY <1>2 DEF Sound, NotOlder
  <2> QED  BY <1>2, <1>3, <2>1 DEF Sound, IdsBelow
<1>5. ASSUME NEW k \in Keys, NEW n \in Nat, Shows(Versions(lm, k), n)
      PROVE  Shows(Versions(r, k), n)
  <2>1. Versions(lm, k) \in SUBSET Version
    BY VersionsTypes
  <2>2. Versions(r, k) \subseteq Versions(lm, k)
    BY <1>2, <1>3 DEF Versions, MergedVersions
  <2>3. ASSUME NEW v \in Versions(lm, k)
        PROVE  \E w \in Versions(r, k) : ~Before(w, v)
    <3>1. CASE v \in Versions(r, k)
      <4>1. ~Before(v, v)
        BY <2>1 DEF Before, Version
      <4> QED  BY <3>1, <4>1
    <3>2. CASE \E l \in DOMAIN lm.imm : v \in lm.imm[l].kv[k]
      BY <3>2, <1>2, <1>3 DEF Versions, MergedVersions
    <3> QED  BY <3>1, <3>2, <1>3 DEF Versions, MergedVersions
  <2> QED  BY <1>5, <2>1, <2>2, <2>3, ShowsKept
<1> QED  BY <1>3, <1>4, <1>5 DEF r

-----------------------------------------------------------------------------
(***************************************************************************)
(* Snapshots.                                                               *)
(***************************************************************************)
LEMMA DBShows ==
    ASSUME NEW db \in DB, NEW k \in Keys
    PROVE  Shows(DBVersions(db, k) \cup {NotFound}, db.kv[k])
<1>1. IsNewest(DBGet(db, k), DBVersions(db, k) \cup {NotFound})
  BY DBGetNewest
<1>2. Seen(DBGet(db, k)) = db.kv[k]
  BY DEF Seen, DBGet, NotFound, Tombstone, Normal, DB
<1> QED  BY <1>1, <1>2 DEF Shows, IsNewest

LEMMA FromDBSound ==
    ASSUME NEW db \in DB, \A k \in Keys : db.kv[k] <= db.seq
    PROVE  /\ FromDB(db) \in LMType /\ Sound(FromDB(db))
           /\ \A u \in Nat : IdsBelow(FromDB(db).imm, u)
           /\ FromDB(db).writable.la = db.la /\ FromDB(db).writable.seq = db.seq
           /\ \A k \in Keys : Shows(Versions(FromDB(db), k), db.kv[k])
<1> DEFINE none == [i \in {} |-> 0]
<1>1. none \in ImmMap /\ DOMAIN none = {}
  <2>1. none \in [{} -> Level]
    OBVIOUS
  <2> QED  BY <2>1 DEF ImmMap
<1>2. EmptyTable \in Table /\ \A k \in Keys : EmptyTable[k] = {}
  BY DEF EmptyTable, Table
<1>3. /\ FromDB(db).imm = none /\ FromDB(db).db = db
      /\ FromDB(db).writable = [la |-> db.la, seq |-> db.seq, kv |-> EmptyTable]
      /\ FromDB(db).writable.la = db.la /\ FromDB(db).writable.seq = db.seq
      /\ FromDB(db).writable.kv = EmptyTable
  BY DEF FromDB
<1>4. FromDB(db) \in LMType
  <2>1. [la |-> db.la, seq |-> db.seq, kv |-> EmptyTable] \in Level
    BY <1>2 DEF DB, Level
  <2> QED  BY <1>1, <2>1 DEF FromDB, LMType
<1> HIDE DEF none
<1>5. Sound(FromDB(db)) /\ \A u \in Nat : IdsBelow(FromDB(db).imm, u)
  BY <1>1, <1>2, <1>3 DEF Sound, ImmSound, Written, NotOlder, IdsBelow
<1>6. ASSUME NEW k \in Keys PROVE Shows(Versions(FromDB(db), k), db.kv[k])
  <2>1. Versions(FromDB(db), k) = DBVersions(db, k) \cup {NotFound}
    BY <1>1, <1>2, <1>3 DEF Versions, MergedVersions, DBVersions
  <2> QED  BY <2>1, DBShows
<1> QED  BY <1>3, <1>4, <1>5, <1>6

LEMMA MergedWritten ==
    ASSUME NEW imm \in ImmMap, NEW db \in DB, NEW b \in Nat,
           ImmSound(imm, db, b), NEW k \in Keys
    PROVE  Written(MergedVersions(imm, db, k), b)
<1>1. Written(DBVersions(db, k), b)
  <2>1. db.kv[k] <= b
    BY DEF ImmSound
  <2>2. db.kv[k] # 0 => Normal(db.kv[k]) # Normal(0)
    BY DEF Normal
  <2>3. Normal(db.kv[k]).seq = db.kv[k]
    BY DEF Normal
  <2> QED  BY <2>1, <2>2, <2>3 DEF DBVersions, Written
<1>2. \A v \in MergedVersions(imm, db, k) \ DBVersions(db, k) :
        \E i \in DOMAIN imm : v \in imm[i].kv[k]
  BY DEF MergedVersions, DBVersions
<1> QED  BY <1>1, <1>2 DEF Written, ImmSound

\* compact_into_stream writes what the frozen levels and the old database show.
LEMMA CompactIntoDBExact ==
    ASSUME NEW imm \in ImmMap, NEW db \in DB, NEW b \in Nat,
           ImmSound(imm, db, b),
           NEW t \in DOMAIN imm, \A j \in DOMAIN imm : j <= t,
           NEW kv \in [Keys -> Nat],
           \A k \in Keys :
             Shows(MergedVersions(imm, db, k) \cup {NotFound}, kv[k])
    PROVE  /\ NewestIndex(imm) = t
           /\ CompactIntoDB(imm, db)
                = [la |-> imm[t].la, seq |-> imm[t].seq, kv |-> kv]
<1>1. NewestIndex(imm) = t
  <2>1. DOMAIN imm \in SUBSET Nat
    BY DEF ImmMap
  <2> QED  BY <2>1 DEF NewestIndex
<1> DEFINE all(k) == MergedVersions(imm, db, k)
           best(k) == IF all(k) = {} THEN 0 ELSE Seen(Newest(all(k)))
<1>2. ASSUME NEW k \in Keys PROVE best(k) = kv[k]
  <2>1. /\ all(k) \in SUBSET Version /\ NotFound \in Version
        /\ Written(all(k), b)
    BY MergedTypes, MergedWritten DEF NotFound, Tombstone, Version
  <2>2. Shows(all(k) \cup {NotFound}, kv[k])
    OBVIOUS
  <2> HIDE DEF all
  <2>3. CASE all(k) = {}
    BY <2>2, <2>3 DEF Shows, Seen, NotFound, Tombstone
  <2>4. CASE all(k) # {}
    <3>1. IsNewest(Newest(all(k)), all(k))
      BY <2>1, <2>4, NewestIsNewest DEF Written
    <3>2. IsNewest(Newest(all(k)), all(k) \cup {NotFound})
      BY <3>1, <2>1, NotFoundOldest DEF IsNewest, Written
    <3>3. Shows(all(k) \cup {NotFound}, best(k))
      BY <3>2, <2>4 DEF Shows, IsNewest
    <3>4. all(k) \cup {NotFound} \in SUBSET Version
      BY <2>1
    <3> HIDE DEF best
    <3> QED  BY <3>3, <3>4, <2>2, ShowsOne
  <2> QED  BY <2>3, <2>4
<1>3. CompactIntoDB(imm, db)
        = [la |-> imm[t].la, seq |-> imm[t].seq, kv |-> [k \in Keys |-> best(k)]]
  BY <1>1 DEF CompactIntoDB
<1>4. [k \in Keys |-> best(k)] = kv
  <2> HIDE DEF best
  <2> QED  BY <1>2
<1> QED  BY <1>1, <1>3, <1>4

\* replace_with_compacted: the database that replaces the levels shows the
\* same under the same writable level.
LEMMA ReplaceKeeps ==
    ASSUME NEW lm \in LMType, Sound(lm), NEW file \in DB,
           NEW t \in DOMAIN lm.imm, \A j \in DOMAIN lm.imm : j <= t,
           \A k \in Keys :
             Shows(MergedVersions(lm.imm, lm.db, k) \cup {NotFound}, file.kv[k])
    PROVE  /\ ReplaceWithCompacted(lm, t, file) \in LMType
           /\ Sound(ReplaceWithCompacted(lm, t, file))
           /\ \A u \in Nat : IdsBelow(ReplaceWithCompacted(lm, t, file).imm, u)
           /\ ReplaceWithCompacted(lm, t, file).writable = lm.writable
           /\ \A k \in Keys, n \in Nat :
                Shows(Versions(lm, k), n) =>
                  Shows(Versions(ReplaceWithCompacted(lm, t, file), k), n)
<1> DEFINE r == ReplaceWithCompacted(lm, t, file)
           M(k) == MergedVersions(lm.imm, lm.db, k)
           W(k) == lm.writable.kv[k]
           D(k) == DBVersions(file, k)
<1>1. /\ lm.imm \in ImmMap /\ lm.db \in DB /\ lm.writable \in Level
      /\ lm.writable.seq \in Nat
      /\ DOMAIN lm.imm \in SUBSET Nat
  <2>1. lm.imm \in ImmMap /\ lm.db \in DB /\ lm.writable \in Level
    BY DEF LMType
  <2> QED  BY <2>1 DEF ImmMap, Level
<1>2. /\ r.writable = lm.writable /\ r.db = file /\ DOMAIN r.imm = {}
      /\ r \in LMType
  <2>1. {m \in DOMAIN lm.imm : m > t} = {}
    BY <1>1
  <2>2. r.imm \in [{} -> Level] /\ DOMAIN r.imm = {}
    BY <2>1 DEF ReplaceWithCompacted
  <2>3. r.imm \in ImmMap
    BY <2>2 DEF ImmMap
  <2> QED  BY <2>2, <2>3, <1>1 DEF ReplaceWithCompacted, LMType
<1> HIDE DEF r
<1>3. ASSUME NEW k \in Keys
      PROVE  /\ W(k) \in SUBSET Version /\ M(k) \in SUBSET Version
             /\ NotFound \in Version /\ file.kv[k] \in Nat
             /\ Written(W(k), lm.writable.seq) /\ Written(M(k), lm.writable.seq)
             /\ NotOlder(W(k), M(k))
             /\ Versions(lm, k) = W(k) \cup M(k) \cup {NotFound}
             /\ Versions(r, k) = W(k) \cup D(k) \cup {NotFound}
  <2>1. W(k) \in SUBSET Version /\ M(k) \in SUBSET Version /\ NotFound \in Version
    BY <1>1, VersionsTypes, MergedTypes
  <2>2. Written(W(k), lm.writable.seq) /\ Written(M(k), lm.writable.seq)
    BY <1>1, MergedWritten DEF Sound
  <2>3. NotOlder(W(k), M(k))
    BY DEF Sound, NotOlder, MergedVersions, DBVersions
  <2>4. Versions(r, k) = W(k) \cup D(k) \cup {NotFound}
    BY <1>2 DEF Versions, MergedVersions, DBVersions
  <2> QED  BY <2>1, <2>2, <2>3, <2>4 DEF Versions, DB
<1>4. ASSUME NEW k \in Keys
      PROVE  /\ D(k) \subseteq M(k)
             /\ file.kv[k] <= lm.writable.seq
  <2>1. PICK m \in M(k) \cup {NotFound} : Seen(m) = file.kv[k]
    BY DEF Shows
  <2>2. m \in Version
    BY <1>3, <2>1
  <2>3. m.seq <= lm.writable.seq
    BY <1>3, <2>1, <1>1 DEF Written, NotFound, Tombstone
  <2>4. CASE file.kv[k] = 0
    BY <2>4, <1>1 DEF DBVersions
  <2>5. CASE file.kv[k] # 0
    <3>1. m = Normal(file.kv[k]) /\ m # NotFound
      BY <2>1, <2>2, <2>5 DEF Seen, Version, Normal, NotFound, Tombstone
    <3> QED  BY <3>1, <2>1, <2>3, <2>5 DEF DBVersions, Normal
  <2> QED  BY <2>4, <2>5
<1> HIDE DEF D, M, W
<1>5. Sound(r)
  <2>1. ImmSound(r.imm, r.db, r.writable.seq)
    BY <1>2, <1>4 DEF ImmSound
  <2>2. \A k \in Keys : NotOlder(W(k), D(k))
    BY <1>3, <1>4 DEF NotOlder
  <2> QED  BY <2>1, <2>2, <1>2, <1>3 DEF Sound, D, W
<1>6. ASSUME NEW k \in Keys, NEW n \in Nat, Shows(Versions(lm, k), n)
      PROVE  Shows(Versions(r, k), n)
  <2>1. PICK v \in Versions(lm, k) : IsNewest(v, Versions(lm, k)) /\ Seen(v) = n
    BY <1>6 DEF Shows
  <2>2. CASE W(k) = {}
    <3>1. Shows(M(k) \cup {NotFound}, n) /\ Shows(M(k) \cup {NotFound}, file.kv[k])
      BY <2>2, <1>3, <1>6 DEF M
    <3>2. n = file.kv[k]
      <4>1. M(k) \cup {NotFound} \in SUBSET Version
        BY <1>3
      <4> QED  BY <3>1, <4>1, ShowsOne
    <3>3. Shows(D(k) \cup {NotFound}, n)
      BY <3>2, DBShows DEF D
    <3> QED  BY <3>3, <2>2, <1>3
  <2>3. CASE W(k) # {}
    <3>1. PICK w \in W(k) : TRUE
      BY <2>3
    <3>2. v \in W(k)
      <4>1. w \in Version /\ v \in Version /\ w # Normal(0)
        BY <3>1, <2>1, <1>3 DEF Written
      <4>2. \/ ~Before(v, w) /\ ~Before(w, v)
            \/ v \in W(k)
        BY <3>1, <2>1, <1>3, <4>1, NotFoundOldest DEF IsNewest, NotOlder
      <4> QED  BY <4>1, <4>2, <3>1 DEF Before, Version
    <3>3. IsNewest(v, Versions(r, k))
      BY <3>2, <2>1, <1>3, <1>4 DEF IsNewest
    <3> QED  BY <3>3, <2>1 DEF Shows, IsNewest
  <2> QED  BY <2>2, <2>3
<1>7. \A u \in Nat : IdsBelow(r.imm, u)
  BY <1>2 DEF IdsBelow
<1> QED  BY <1>2, <1>5, <1>6, <1>7 DEF r

\* Staged versions are newer than what is committed, up to the new counter s.
Newer(lm, staged, s) ==
    /\ lm.writable.seq <= s
    /\ \A k \in Keys : \A v \in staged[k] :
         /\ lm.writable.seq <= v.seq /\ v.seq <= s
         /\ v.del \/ lm.writable.seq < v.seq

\* r shows what the staged table holds for a key, and else what lm shows.
Overlays(r, lm, staged) ==
    \A k \in Keys, n \in Nat :
      (IF staged[k] = {} THEN Shows(Versions(lm, k), n) ELSE Shows(staged[k], n))
        => Shows(Versions(r, k), n)

\* LeveledMap::commit: what the staged table holds for a key is shown from now
\* on, every other key shows what it did.
LEMMA CommitKeeps ==
    ASSUME NEW lm \in LMType, Sound(lm), NEW staged \in Table, NEW s \in Nat,
           Newer(lm, staged, s)
    PROVE  /\ Commit(lm, staged, s) \in LMType
           /\ Sound(Commit(lm, staged, s))
           /\ Commit(lm, staged, s).imm = lm.imm
           /\ Commit(lm, staged, s).db = lm.db
           /\ Commit(lm, staged, s).writable.la = lm.writable.la
           /\ Commit(lm, staged, s).writable.seq = s
           /\ Overlays(Commit(lm, staged, s), lm, staged)
<1> DEFINE r == Commit(lm, staged, s)
           b == lm.writable.seq
           W(k) == lm.writable.kv[k]
           M(k) == MergedVersions(lm.imm, lm.db, k)
<1>1. /\ lm.imm \in ImmMap /\ lm.db \in DB /\ lm.writable \in Level
      /\ b \in Nat /\ lm.writable.la \in Nat
      /\ \A k \in Keys : W(k) \in SUBSET Version /\ staged[k] \in SUBSET Version
  BY DEF LMType, Level, Table
<1>2. /\ r.imm = lm.imm /\ r.db = lm.db
      /\ r.writable.la = lm.writable.la /\ r.writable.seq = s
      /\ \A k \in Keys : r.writable.kv[k] = W(k) \cup staged[k]
      /\ r \in LMType
  <2>1. [k \in Keys |-> W(k) \cup staged[k]] \in Table
    BY <1>1 DEF Table
  <2> QED  BY <2>1, <1>1 DEF Commit, LMType, Level
<1>3. ASSUME NEW k \in Keys
      PROVE  /\ M(k) \in SUBSET Version /\ Written(M(k), b) /\ Written(W(k), b)
             /\ NotOlder(W(k), M(k))
             /\ DBVersions(lm.db, k) \subseteq M(k)
             /\ \A i \in DOMAIN lm.imm : lm.imm[i].kv[k] \subseteq M(k)
             /\ Versions(lm, k) = W(k) \cup M(k) \cup {NotFound}
             /\ Versions(r, k) = W(k) \cup staged[k] \cup M(k) \cup {NotFound}
  <2>1. M(k) \in SUBSET Version /\ Written(M(k), b) /\ Written(W(k), b)
    BY <1>1, MergedTypes, MergedWritten DEF Sound
  <2>2. /\ DBVersions(lm.db, k) \subseteq M(k)
        /\ \A i \in DOMAIN lm.imm : lm.imm[i].kv[k] \subseteq M(k)
    BY DEF MergedVersions, DBVersions
  <2>3. NotOlder(W(k), M(k))
    BY DEF Sound, NotOlder, MergedVersions, DBVersions
  <2> QED  BY <2>1, <2>2, <2>3, <1>2 DEF Versions
<1> HIDE DEF r, M, W, b
<1>4. ASSUME NEW k \in Keys, NEW v \in staged[k], NEW w \in Version, w.seq <= b
      PROVE  ~Before(v, w)
  BY <1>1, <1>4 DEF Newer, Before, Version, b
<1>5. ASSUME NEW k \in Keys
      PROVE  /\ Written(W(k) \cup staged[k], s)
             /\ NotOlder(W(k) \cup staged[k], M(k))
             /\ NotOlder(staged[k], W(k) \cup M(k) \cup {NotFound})
  <2>1. Written(staged[k], s)
    BY <1>1 DEF Newer, Written, Normal, b, Version
  <2>2. Written(W(k), s)
    BY <1>1, <1>3 DEF Newer, Written, b, Version
  <2>3. NotFound \in Version /\ NotFound.seq <= b
    BY <1>1 DEF NotFound, Tombstone, Version
  <2>4. NotOlder(staged[k], W(k) \cup M(k) \cup {NotFound})
    <3>1. \A w \in W(k) \cup M(k) \cup {NotFound} : w \in Version /\ w.seq <= b
      BY <2>3, <1>1, <1>3 DEF Written
    <3> QED  BY <3>1, <1>4 DEF NotOlder
  <2> QED  BY <2>1, <2>2, <2>4, <1>3 DEF Written, NotOlder
<1>6. Sound(r)
  <2>1. ImmSound(r.imm, r.db, s)
    <3> SUFFICES ASSUME NEW k \in Keys
                 PROVE  /\ lm.db.kv[k] <= s
                        /\ \A i \in DOMAIN lm.imm : Written(lm.imm[i].kv[k], s)
      BY <1>2 DEF Sound, ImmSound
    <3>1. lm.db.kv[k] <= b /\ \A i \in DOMAIN lm.imm : Written(lm.imm[i].kv[k], b)
      BY DEF Sound, ImmSound, b
    <3>2. lm.db.kv[k] \in Nat
      BY <1>1 DEF DB
    <3>3. \A i \in DOMAIN lm.imm : \A v \in lm.imm[i].kv[k] : v.seq \in Nat
      BY <1>3 DEF Version
    <3>4. b \in Nat /\ b <= s /\ lm.db.kv[k] <= b
      BY <3>1, <1>1 DEF Newer, b
    <3>5. lm.db.kv[k] <= s
      BY <3>2, <3>4
    <3> QED  BY <3>1, <3>3, <3>4, <3>5 DEF Written
  <2>2. ASSUME NEW k \in Keys
        PROVE  /\ Written(r.writable.kv[k], s)
               /\ NotOlder(r.writable.kv[k], DBVersions(r.db, k))
               /\ \A i \in DOMAIN r.imm :
                    NotOlder(r.writable.kv[k], r.imm[i].kv[k])
    BY <1>2, <1>3, <1>5 DEF NotOlder
  <2> QED  BY <2>1, <2>2, <1>2 DEF Sound
<1>7. ASSUME NEW k \in Keys, NEW n \in Nat,
             IF staged[k] = {} THEN Shows(Versions(lm, k), n)
                               ELSE Shows(staged[k], n)
      PROVE  Shows(Versions(r, k), n)
  <2>1. CASE staged[k] = {}
    BY <2>1, <1>3, <1>7
  <2>2. CASE staged[k] # {}
    <3>1. PICK v \in staged[k] : IsNewest(v, staged[k]) /\ Seen(v) = n
      BY <2>2, <1>7 DEF Shows
    <3>2. IsNewest(v, Versions(r, k))
      BY <3>1, <1>3, <1>5 DEF IsNewest, NotOlder
    <3> QED  BY <3>1, <3>2 DEF Shows, IsNewest
  <2> QED  BY <2>1, <2>2
<1>8. Overlays(r, lm, staged)
  BY <1>7 DEF Overlays
<1> QED  BY <1>2, <1>6, <1>8 DEF r
=============================================================================
