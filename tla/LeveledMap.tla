----------------------------- MODULE LeveledMap -----------------------------
(***************************************************************************)
(* The multi-level MVCC map behind the state machine (raft-store crate,     *)
(* leveled_store/): one writable level on top, immutable in-memory levels   *)
(* keyed by LevelIndex, and one persisted rotbl database at the bottom.     *)
(* Only pure operators live here; StateMachineStore gives them steps.       *)
(*                                                                         *)
(* A value is abstracted to the seq that was assigned when it was written:  *)
(* a seq is never reused, so the seq identifies the value.                  *)
(***************************************************************************)
EXTENDS Naturals, FiniteSets

CONSTANT Keys               \* the user keys

(***************************************************************************)
(* Versions.  A delete writes a tombstone that carries the current seq      *)
(* without increasing it, hence a tombstone sorts after the normal value    *)
(* with the same seq.                                                       *)
(***************************************************************************)
Version == [seq : Nat, del : BOOLEAN]

Normal(s) == [seq |-> s, del |-> FALSE]

Tombstone(s) == [seq |-> s, del |-> TRUE]

NotFound == Tombstone(0)

\* v sorts strictly before w (SeqMarked::order_key).
Before(v, w) ==
    \/ v.seq < w.seq
    \/ v.seq = w.seq /\ ~v.del /\ w.del

IsNewest(v, S) == v \in S /\ \A w \in S : ~Before(v, w)

Newest(S) == CHOOSE v \in S : IsNewest(v, S)

\* What a client sees of a version: the seq of the value, 0 for "no value".
Seen(v) == IF v.del THEN 0 ELSE v.seq

(***************************************************************************)
(* A table holds any number of versions of each key (mvcc::Table); a level  *)
(* is a table and a full copy of the system data, of which the seq counter  *)
(* and the index of the last applied log entry are kept (0 is "none").      *)
(***************************************************************************)
Table == [Keys -> SUBSET Version]

EmptyTable == [k \in Keys |-> {}]

Level == [la : Nat, seq : Nat, kv : Table]

\* A snapshot database: one live value per key, no tombstones.
DB == [la : Nat, seq : Nat, kv : [Keys -> Nat]]

EmptyDB == [la |-> 0, seq |-> 0, kv |-> [k \in Keys |-> 0]]

\* Level::new_level: system data is cloned, the tables start empty.
NewLevel(l) == [l EXCEPT !.kv = EmptyTable]

\* Mutant: the snapshot seq is ignored.
TableGetUnbounded(t, k, snap) ==
    IF t[k] = {} THEN NotFound ELSE Newest(t[k])

\* mvcc::Table::get bounded by a snapshot seq.
TableGet(t, k, snap) ==
    LET visible == {v \in t[k] : v.seq <= snap}
    IN  IF visible = {} THEN NotFound ELSE Newest(visible)

(***************************************************************************)
(* A leveled map: imm maps a level index to an immutable level.             *)
(***************************************************************************)
\* ImmutableLevels::get: newest to oldest, the first level that has the key.
ImmutableGet(imm, k, snap) ==
    LET hits == {i \in DOMAIN imm : TableGet(imm[i].kv, k, snap) # NotFound}
        top  == CHOOSE i \in hits : \A j \in hits : j <= i
    IN  IF hits = {} THEN NotFound ELSE TableGet(imm[top].kv, k, snap)

\* The database keeps one version per key and does not look at the snapshot
\* seq: the debug_assert on it is compiled out of a release build.
DBGet(db, k) == IF db.kv[k] = 0 THEN NotFound ELSE Normal(db.kv[k])

\* LeveledMap::get: writable, then the immutable levels, then the database.
Get(lm, k, snap) ==
    LET w == TableGet(lm.writable.kv, k, snap)
        i == ImmutableGet(lm.imm, k, snap)
    IN  IF w # NotFound THEN w
        ELSE IF i # NotFound THEN i
        ELSE DBGet(lm.db, k)

\* The level from which the system data of a snapshot is taken.
NewestIndex(imm) == CHOOSE i \in DOMAIN imm : \A j \in DOMAIN imm : j <= i

\* LeveledMap::do_freeze_writable with the fresh level index i.
Freeze(lm, i) ==
    [writable |-> NewLevel(lm.writable),
     imm      |-> [j \in DOMAIN lm.imm \cup {i} |->
                     IF j = i THEN lm.writable ELSE lm.imm[j]],
     db       |-> lm.db]

\* Mutant: a tombstone is dropped although older levels may have the key.
CompactTablesDropTombstones(newer, older) ==
    [k \in Keys |-> LET all == newer[k] \cup older[k]
                    IN  IF all = {} \/ Newest(all).del THEN {} ELSE {Newest(all)}]

\* mvcc::Table::compact with min_snapshot_seq = u64::MAX: only the newest
\* version of a key is kept, and a tombstone is kept like any other version.
CompactTables(newer, older) ==
    [k \in Keys |-> LET all == newer[k] \cup older[k]
                    IN  IF all = {} THEN {} ELSE {Newest(all)}]

\* Level::compact: the system data of the level with the greater seq, of the
\* older level when the seqs are equal.
CompactLevels(newer, older) ==
    LET sys == IF newer.seq > older.seq THEN newer ELSE older
    IN  [sys EXCEPT !.kv = CompactTables(newer.kv, older.kv)]

\* Mutant: any two levels may be merged.
AdjacentNotChecked(imm, i, j) ==
    i \in DOMAIN imm /\ j \in DOMAIN imm /\ i < j

Adjacent(imm, i, j) ==
    /\ i \in DOMAIN imm /\ j \in DOMAIN imm
    /\ i < j
    /\ \A m \in DOMAIN imm : m <= i \/ j <= m

\* ImmutableLevels::compact_min_adjacent on the pair it picked: the merged
\* level keeps the greater index.
CompactPair(imm, i, j) ==
    [m \in DOMAIN imm \ {i} |->
       IF m = j THEN CompactLevels(imm[j], imm[i]) ELSE imm[m]]

\* LeveledMap::replace_immutable_levels
ReplaceImmutableLevels(lm, imm) ==
    [writable |-> lm.writable, imm |-> imm, db |-> lm.db]

\* Everything a snapshot build merges for a key: every immutable level and the
\* old database.
MergedVersions(imm, db, k) ==
    (UNION {imm[i].kv[k] : i \in DOMAIN imm})
      \cup (IF db.kv[k] = 0 THEN {} ELSE {Normal(db.kv[k])})

\* Mutant: a tombstone is written like a value.
CompactIntoDBKeepTombstones(imm, db) ==
    LET top == imm[NewestIndex(imm)]
    IN  [la  |-> top.la,
         seq |-> top.seq,
         kv  |-> [k \in Keys |->
                    LET all == MergedVersions(imm, db, k)
                    IN  IF all = {} THEN 0 ELSE Newest(all).seq]]

\* ImmutableData::compact_into_stream: system data of the newest level, the
\* newest version of every key, tombstones dropped.
CompactIntoDB(imm, db) ==
    LET top == imm[NewestIndex(imm)]
    IN  [la  |-> top.la,
         seq |-> top.seq,
         kv  |-> [k \in Keys |->
                    LET all == MergedVersions(imm, db, k)
                    IN  IF all = {} THEN 0 ELSE Seen(Newest(all))]]

\* ImmutableLevels::remove_levels_upto, then the new database underneath.
ReplaceWithCompacted(lm, upto, db) ==
    [writable |-> lm.writable,
     imm      |-> [j \in {m \in DOMAIN lm.imm : m > upto} |-> lm.imm[j]],
     db       |-> db]

\* Mutant: the seq counter of the database is not restored.
FromDBSeqLost(db) ==
    [writable |-> [la |-> db.la, seq |-> 0, kv |-> EmptyTable],
     imm      |-> [i \in {} |-> 0],
     db       |-> db]

\* SMV003::install_snapshot_v003: empty levels above the database, system data
\* of the database.
FromDB(db) ==
    [writable |-> [la |-> db.la, seq |-> db.seq, kv |-> EmptyTable],
     imm      |-> [i \in {} |-> 0],
     db       |-> db]

\* LeveledMap::commit: the staged table joins the writable level.
Commit(lm, staged, seq) ==
    [writable |-> [la  |-> lm.writable.la,
                   seq |-> seq,
                   kv  |-> [k \in Keys |-> lm.writable.kv[k] \cup staged[k]]],
     imm      |-> lm.imm,
     db       |-> lm.db]
=============================================================================
