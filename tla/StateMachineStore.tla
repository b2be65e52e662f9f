-------------------------- MODULE StateMachineStore --------------------------
(***************************************************************************)
(* One meta-service node's state machine store: the raft worker that        *)
(* applies committed entries and installs snapshots, the snapshot builder,  *)
(* the background in-memory compactor, the snapshot directory and a crash   *)
(* with restart.  They share the leveled map and meet only at the two       *)
(* capacity-1 semaphores of SMV003: the writer and the compactor permit.    *)
(* Watch requests take the writer permit too.                               *)
(*                                                                         *)
(* The committed raft log is given (openraft, external): it grows, and       *)
(* hist[i + 1] is the state that its first i entries produce.  hist is what *)
(* every copy of the data on this node is compared with.                    *)
(***************************************************************************)
EXTENDS LeveledMap, Sequences

CONSTANTS OpKinds,          \* the kinds of log entries that are proposed
          MaxLog,           \* bound: number of committed entries
          MaxFreezes,       \* bound: number of times a level is frozen
          MaxInstalls,      \* bound: snapshots received from a leader
          MaxCrashes,       \* bound: restarts
          Watches,          \* bound: whether watch requests come in
          CompactMin,       \* need_compact: fewer levels are left alone (6)
          CompactMax,       \* need_compact: more levels are compacted (20)
          KeepSnapshots     \* clean_old_snapshots: files kept (3)

AllOpKinds == {"put", "expired", "delete", "update", "blank"}

ASSUME KindsAssumption == OpKinds \subseteq AllOpKinds

ASSUME BoundsAssumption ==
    /\ MaxLog \in Nat /\ MaxFreezes \in Nat
    /\ MaxInstalls \in Nat /\ MaxCrashes \in Nat /\ Watches \in BOOLEAN
    /\ CompactMin \in Nat /\ CompactMin >= 2 /\ CompactMax \in Nat
    /\ KeepSnapshots \in Nat /\ KeepSnapshots >= 1

VARIABLES
    log,        \* the committed entries
    hist,       \* hist[i + 1]: abstract state after i entries
    sms,        \* every SMV003 of this process; the last one is current
    uniq,       \* the process-wide level counter Immutable::new draws from
    permit,     \* who holds the compactor semaphore
    writer,     \* who holds the writer semaphore across an await
    applier,    \* the Applier of the raft worker
    builder,    \* do_build_snapshot
    inmem,      \* compact_loop
    install,    \* install_snapshot: the file moved in place, not yet opened
    disk,       \* snapshot files: DB plus the uniq part of the snapshot id
    raftSnap,   \* last snapshot index openraft was told of
    purged,     \* raft log entries up to here are purged
    installs, crashes

vars == <<log, hist, sms, uniq, permit, writer, applier, builder, inmem, install,
          disk, raftSnap, purged, installs, crashes>>

(***************************************************************************)
(* What an entry means.                                                     *)
(***************************************************************************)
Entry == [kind : OpKinds, key : Keys]

State == [seq : Nat, kv : [Keys -> Nat]]

InitialState == [seq |-> 0, kv |-> [k \in Keys |-> 0]]

\* The reference: what an entry does to a plain map from key to seq.
Effect(st, e) ==
    CASE e.kind = "put"     -> [seq |-> st.seq + 1,
                                kv  |-> [st.kv EXCEPT ![e.key] = st.seq + 1]]
      [] e.kind = "expired" -> [seq |-> st.seq + 1,
                                kv  |-> [st.kv EXCEPT ![e.key] = 0]]
      [] e.kind = "delete"  -> [st EXCEPT !.kv[e.key] = 0]
      [] e.kind = "update"  -> IF st.kv[e.key] = 0 THEN st
                               ELSE [seq |-> st.seq + 1,
                                     kv  |-> [st.kv EXCEPT ![e.key] = st.seq + 1]]
      [] e.kind = "blank"   -> st

(***************************************************************************)
(* The applier's view: changes are staged on top of a snapshot of the map.  *)
(***************************************************************************)
NoView == [seq |-> 0, kv |-> EmptyTable]

\* mvcc::View::get: staged changes first, then the base snapshot.
ViewGet(lm, base, view, k) ==
    IF view.kv[k] # {} THEN Newest(view.kv[k]) ELSE Get(lm, k, base)

\* View::set for the user namespace: a value takes the next seq, a tombstone
\* the current one.
SetValue(view, k) ==
    [seq |-> view.seq + 1,
     kv  |-> [view.kv EXCEPT ![k] = @ \cup {Normal(view.seq + 1)}]]

SetTombstone(view, k) ==
    [view EXCEPT !.kv[k] = @ \cup {Tombstone(view.seq)}]

\* Mutant: the condition reads the base snapshot, not the view.
UpsertStaleCondition(lm, base, view, e) ==
    CASE e.kind = "put"     -> SetValue(view, e.key)
      [] e.kind = "expired" -> SetTombstone(SetValue(view, e.key), e.key)
      [] e.kind = "delete"  -> SetTombstone(view, e.key)
      [] e.kind = "update"  -> IF Seen(Get(lm, e.key, base)) = 0
                               THEN view ELSE SetValue(view, e.key)
      [] e.kind = "blank"   -> view

\* upsert_kv_primary_index.  "update" is an upsert with MatchSeq::GE(1);
\* "expired" carries an expire time before the entry's time and is written,
\* then deleted at once.
Upsert(lm, base, view, e) ==
    CASE e.kind = "put"     -> SetValue(view, e.key)
      [] e.kind = "expired" -> SetTombstone(SetValue(view, e.key), e.key)
      [] e.kind = "delete"  -> SetTombstone(view, e.key)
      [] e.kind = "update"  -> IF Seen(ViewGet(lm, base, view, e.key)) = 0
                               THEN view ELSE SetValue(view, e.key)
      [] e.kind = "blank"   -> view

-----------------------------------------------------------------------------
Cur == Len(sms)

Applying == applier.pc = "apply"

\* The log index whose effects the committed data of sms[i] shows.
Committed(i) ==
    IF Applying /\ i = Cur THEN applier.start ELSE sms[i].writable.la

Idle == [pc |-> "idle", start |-> 0, base |-> 0, view |-> NoView]

NoBuild == [pc |-> "idle", sm |-> 0, imm |-> [i \in {} |-> 0], db |-> EmptyDB,
            file |-> EmptyDB]

\* No received snapshot is being installed: one has at least one entry.
NoFile == [db |-> EmptyDB, uniq |-> 0]

Init ==
    /\ log = <<>> /\ hist = <<InitialState>>
    /\ sms = <<FromDB(EmptyDB)>>
    /\ uniq = 0
    /\ permit = "free" /\ writer = "free"
    /\ applier = Idle /\ builder = NoBuild
    /\ inmem = "sleep" /\ install = NoFile
    /\ disk = {}
    /\ raftSnap = 0 /\ purged = 0
    /\ installs = 0 /\ crashes = 0

\* openraft commits one more entry.
Propose(e) ==
    /\ Len(log) < MaxLog
    /\ log' = Append(log, e)
    /\ hist' = Append(hist, Effect(hist[Len(hist)], e))
    /\ UNCHANGED <<sms, uniq, permit, writer, applier, builder, inmem, install,
                   disk, raftSnap, purged, installs, crashes>>
-----------------------------------------------------------------------------
(***************************************************************************)
(* The raft worker: SMV003::apply_entries holds the writer permit from      *)
(* ApplyStart to ApplyCommit.  The worker also installs snapshots, so it    *)
(* starts no batch in the middle of an install.                             *)
(***************************************************************************)
ApplyStart ==
    /\ applier.pc = "idle" /\ install = NoFile
    /\ writer = "free" /\ writer' = "applier"
    /\ sms[Cur].writable.la < Len(log)
    /\ applier' = [pc    |-> "apply",
                   start |-> sms[Cur].writable.la,
                   base  |-> sms[Cur].writable.seq,
                   view  |-> [seq |-> sms[Cur].writable.seq, kv |-> EmptyTable]]
    /\ UNCHANGED <<log, hist, sms, uniq, permit, builder, inmem,
                   install, disk, raftSnap, purged, installs, crashes>>

\* Mutant: every entry is committed at once, not the batch as a whole.
ApplyEntryCommits ==
    /\ Applying
    /\ LET lm == sms[Cur]
           i  == lm.writable.la + 1
           v  == Upsert(lm, applier.base, applier.view, log[i])
       IN  /\ i <= Len(log)
           /\ sms' = [sms EXCEPT ![Cur] =
                        [Commit(lm, v.kv, v.seq) EXCEPT !.writable.la = i]]
           /\ applier' = [applier EXCEPT !.view = v]
    /\ UNCHANGED <<log, hist, uniq, permit, writer, builder, inmem, install,
                   disk, raftSnap, purged, installs, crashes>>

\* Applier::apply: last_applied is written through to the writable level at
\* once, the changes are staged in the view.
ApplyEntry ==
    /\ Applying
    /\ LET lm == sms[Cur]
           i  == lm.writable.la + 1
       IN  /\ i <= Len(log)
           /\ sms' = [sms EXCEPT ![Cur].writable.la = i]
           /\ applier' = [applier EXCEPT
                !.view = Upsert(lm, applier.base, applier.view, log[i])]
    /\ UNCHANGED <<log, hist, uniq, permit, writer, builder, inmem, install,
                   disk, raftSnap, purged, installs, crashes>>

\* Applier::commit, then the responses; the permit is dropped.
ApplyCommit ==
    /\ Applying
    /\ sms[Cur].writable.la > applier.start
    /\ sms' = [sms EXCEPT ![Cur] = Commit(@, applier.view.kv, applier.view.seq)]
    /\ writer' = "free"
    /\ applier' = Idle
    /\ UNCHANGED <<log, hist, uniq, permit, builder, inmem, install,
                   disk, raftSnap, purged, installs, crashes>>

\* An I/O error while an entry is applied: apply_entries returns it, the view
\* and the permit are dropped, and nothing takes last_applied back.
ApplyError ==
    /\ Applying
    /\ writer' = "free"
    /\ applier' = [Idle EXCEPT !.pc = "failed"]
    /\ UNCHANGED <<log, hist, sms, uniq, permit, builder, inmem,
                   install, disk, raftSnap, purged, installs, crashes>>

(***************************************************************************)
(* handle_watch registers a watcher and reads its range under the writer    *)
(* permit, with an await in between.  Any number of them come in, if any.   *)
(***************************************************************************)
WatchPermit ==
    /\ Watches
    /\ writer = "free" /\ writer' = "watch"
    /\ UNCHANGED <<log, hist, sms, uniq, permit, applier, builder, inmem, install,
                   disk, raftSnap, purged, installs, crashes>>

\* Mutant: the permit moves into the stream that is returned to the client.
WatchDoneKeepsPermit ==
    /\ writer = "watch"
    /\ UNCHANGED vars

\* The stream is built, or the read failed: the permit is dropped.
WatchDone ==
    /\ writer = "watch" /\ writer' = "free"
    /\ UNCHANGED <<log, hist, sms, uniq, permit, applier, builder, inmem, install,
                   disk, raftSnap, purged, installs, crashes>>

(***************************************************************************)
(* The snapshot builder: do_build_snapshot, one step per await.             *)
(***************************************************************************)
\* Freezes that are under way count against the bound.
FreezesLeft ==
    uniq + (IF builder.pc \in {"wait", "permit"} THEN 1 ELSE 0)
         + (IF inmem \in {"wait", "permit"} THEN 1 ELSE 0) < MaxFreezes

BuildStart ==
    /\ builder.pc = "idle" /\ FreezesLeft
    /\ applier.pc # "failed"          \* a fatal error stops the raft core
    /\ builder' = [builder EXCEPT !.pc = "wait", !.sm = Cur]
    /\ UNCHANGED <<log, hist, sms, uniq, permit, writer, applier, inmem,
                   install, disk, raftSnap, purged, installs, crashes>>

\* Mutant: the writer permit is taken first and held while waiting.
BuildPermitWriterFirst ==
    /\ builder.pc = "wait"
    /\ \/ /\ writer = "free" /\ writer' = "build"
          /\ UNCHANGED <<permit, builder>>
       \/ /\ writer = "build" /\ writer' = "free"
          /\ permit = "free" /\ permit' = "build"
          /\ builder' = [builder EXCEPT !.pc = "permit"]
    /\ UNCHANGED <<log, hist, sms, uniq, applier, inmem, install, disk,
                   raftSnap, purged, installs, crashes>>

\* Always the compactor permit first.
BuildPermit ==
    /\ builder.pc = "wait" /\ permit = "free"
    /\ permit' = "build"
    /\ builder' = [builder EXCEPT !.pc = "permit"]
    /\ UNCHANGED <<log, hist, sms, uniq, writer, applier, inmem, install, disk,
                   raftSnap, purged, installs, crashes>>

\* Mutant: the writable level is frozen without the writer permit.
BuildFreezeDuringBatch ==
    /\ builder.pc = "permit"
    /\ LET lm == Freeze(sms[builder.sm], uniq)
       IN  /\ sms' = [sms EXCEPT ![builder.sm] = lm]
           /\ builder' = [builder EXCEPT !.pc = "frozen", !.imm = lm.imm,
                                         !.db = lm.db]
    /\ uniq' = uniq + 1
    /\ UNCHANGED <<log, hist, permit, writer, applier, inmem, install, disk,
                   raftSnap, purged, installs, crashes>>

\* Mutant: the current state machine is frozen, not the one captured first.
BuildFreezeCurrent ==
    /\ builder.pc = "permit" /\ writer = "free"
    /\ LET lm == Freeze(sms[Cur], uniq)
       IN  /\ sms' = [sms EXCEPT ![Cur] = lm]
           /\ builder' = [builder EXCEPT !.pc = "frozen", !.imm = lm.imm,
                                         !.db = lm.db]
    /\ uniq' = uniq + 1
    /\ UNCHANGED <<log, hist, permit, writer, applier, inmem, install, disk,
                   raftSnap, purged, installs, crashes>>

\* Writer permit, freeze, permit dropped, new_compactor: no await after the
\* permit is granted.
BuildFreeze ==
    /\ builder.pc = "permit" /\ writer = "free"
    /\ LET lm == Freeze(sms[builder.sm], uniq)
       IN  /\ sms' = [sms EXCEPT ![builder.sm] = lm]
           /\ builder' = [builder EXCEPT !.pc = "frozen", !.imm = lm.imm,
                                         !.db = lm.db]
    /\ uniq' = uniq + 1
    /\ UNCHANGED <<log, hist, permit, writer, applier, inmem, install, disk,
                   raftSnap, purged, installs, crashes>>

\* The clock, ahead of every file.
NextUniq ==
    LET used == {f.uniq : f \in disk}
    IN  IF used = {} THEN 0
        ELSE 1 + CHOOSE u \in used : \A w \in used : w <= u

\* A file name nobody has: snapshot id is the last applied log and a clock.
FreshFile(db) == [db |-> db, uniq |-> NextUniq]

\* compact_into_stream, the writer thread, and the rename to the final path.
BuildWrite ==
    /\ builder.pc = "frozen"
    /\ LET file == CompactIntoDB(builder.imm, builder.db)
       IN  /\ disk' = disk \cup {FreshFile(file)}
           /\ builder' = [builder EXCEPT !.pc = "written", !.file = file]
    /\ UNCHANGED <<log, hist, sms, uniq, permit, writer, applier, inmem,
                   install, raftSnap, purged, installs, crashes>>

\* Reading the levels or writing the file failed: the permit is dropped, the
\* frozen level stays.
BuildError ==
    /\ builder.pc = "frozen"
    /\ builder' = NoBuild
    /\ permit' = "free"
    /\ UNCHANGED <<log, hist, sms, uniq, writer, applier, inmem, install, disk,
                   raftSnap, purged, installs, crashes>>

\* commit_to_snapshot_store fails to open the file it has just renamed: the
\* build fails and the file stays.
BuildOpenError ==
    /\ builder.pc = "frozen"
    /\ disk' = disk \cup {FreshFile(CompactIntoDB(builder.imm, builder.db))}
    /\ builder' = NoBuild
    /\ permit' = "free"
    /\ UNCHANGED <<log, hist, sms, uniq, writer, applier, inmem, install,
                   raftSnap, purged, installs, crashes>>

\* Mutant: the builder forgets its state machine before the files are cleaned.
BuildReplaceForgets ==
    /\ builder.pc = "written"
    /\ sms' = [sms EXCEPT ![builder.sm] =
                 ReplaceWithCompacted(@, NewestIndex(builder.imm), builder.file)]
    /\ builder' = [NoBuild EXCEPT !.pc = "replaced", !.file = builder.file]
    /\ UNCHANGED <<log, hist, uniq, permit, writer, applier, inmem, install,
                   disk, raftSnap, purged, installs, crashes>>

\* replace_with_compacted on the state machine captured at the start.
BuildReplace ==
    /\ builder.pc = "written"
    /\ sms' = [sms EXCEPT ![builder.sm] =
                 ReplaceWithCompacted(@, NewestIndex(builder.imm), builder.file)]
    /\ builder' = [NoBuild EXCEPT !.pc = "replaced", !.sm = builder.sm,
                                  !.file = builder.file]
    /\ UNCHANGED <<log, hist, uniq, permit, writer, applier, inmem, install,
                   disk, raftSnap, purged, installs, crashes>>

\* A blocking task drops the compactor and with it the permit.
BuildRelease ==
    /\ builder.pc = "replaced"
    /\ permit' = "free"
    /\ builder' = [builder EXCEPT !.pc = "clean"]
    /\ UNCHANGED <<log, hist, sms, uniq, writer, applier, inmem, install, disk,
                   raftSnap, purged, installs, crashes>>

\* MetaSnapshotId order: last applied log first, then uniq.
Later(f, g) ==
    \/ f.db.la > g.db.la
    \/ f.db.la = g.db.la /\ f.uniq > g.uniq

\* Mutant: the oldest files are kept.
BuildCleanKeepsOldest ==
    /\ builder.pc = "clean"
    /\ disk' = {f \in disk :
                  Cardinality({g \in disk : Later(f, g)}) < KeepSnapshots}
    /\ raftSnap' = builder.file.la
    /\ builder' = NoBuild
    /\ UNCHANGED <<log, hist, sms, uniq, permit, writer, applier, inmem,
                   install, purged, installs, crashes>>

\* clean_old_snapshots keeps the latest files; raft learns of the snapshot.
BuildClean ==
    /\ builder.pc = "clean"
    /\ disk' = {f \in disk :
                  Cardinality({g \in disk : Later(g, f)}) < KeepSnapshots}
    /\ raftSnap' = builder.file.la
    /\ builder' = NoBuild
    /\ UNCHANGED <<log, hist, sms, uniq, permit, writer, applier, inmem,
                   install, purged, installs, crashes>>

\* Files are removed oldest first; an error ends the build, which raft then
\* takes for failed.
BuildCleanFails ==
    /\ builder.pc = "clean"
    /\ LET old == {f \in disk :
                     Cardinality({g \in disk : Later(g, f)}) >= KeepSnapshots}
       IN  \E gone \in SUBSET old :
             /\ \A f \in gone, g \in old : Later(f, g) => g \in gone
             /\ disk' = disk \ gone
    /\ builder' = NoBuild
    /\ UNCHANGED <<log, hist, sms, uniq, permit, writer, applier, inmem,
                   install, raftSnap, purged, installs, crashes>>

(***************************************************************************)
(* The in-memory compactor: compact_loop holds a Weak reference to the      *)
(* state machine the process opened with, sms[1].                           *)
(***************************************************************************)
\* The current handle or the builder owns the state machine the loop knows.
OpenedAlive == Cur = 1 \/ (builder.pc # "idle" /\ builder.sm = 1)

\* The timer fires and Weak::upgrade succeeds.  Requests that still read a
\* superseded state machine own it as well, so this may happen at any time.
CompactStart ==
    /\ inmem = "sleep" /\ FreezesLeft
    /\ inmem' = "wait"
    /\ UNCHANGED <<log, hist, sms, uniq, permit, writer, applier, builder,
                   install, disk, raftSnap, purged, installs, crashes>>

\* Mutant: the compactor permit is not awaited.
CompactPermitSkipped ==
    /\ inmem = "wait" /\ inmem' = "permit"
    /\ UNCHANGED <<log, hist, sms, uniq, permit, writer, applier, builder,
                   install, disk, raftSnap, purged, installs, crashes>>

\* InMemoryCompactor::new takes the compactor permit first.
CompactPermit ==
    /\ inmem = "wait" /\ permit = "free"
    /\ permit' = "inmem" /\ inmem' = "permit"
    /\ UNCHANGED <<log, hist, sms, uniq, writer, applier, builder, install,
                   disk, raftSnap, purged, installs, crashes>>

\* Nobody owned the state machine any more: the loop ends.
CompactStop ==
    /\ inmem = "sleep" /\ ~OpenedAlive
    /\ inmem' = "stopped"
    /\ UNCHANGED <<log, hist, sms, uniq, permit, writer, applier, builder,
                   install, disk, raftSnap, purged, installs, crashes>>

\* Then the writer permit; freeze() drops it.
CompactFreeze ==
    /\ inmem = "permit" /\ writer = "free"
    /\ sms' = [sms EXCEPT ![1] = Freeze(@, uniq)]
    /\ uniq' = uniq + 1
    /\ inmem' = "frozen"
    /\ UNCHANGED <<log, hist, permit, writer, applier, builder, install, disk,
                   raftSnap, purged, installs, crashes>>

Levels == Cardinality(DOMAIN sms[1].imm)

\* need_compact refused.  Between the two limits the verdict depends on level
\* sizes, which the model does not keep.
CompactSkip ==
    /\ inmem = "frozen" /\ Levels <= CompactMax
    /\ inmem' = "sleep" /\ permit' = "free"
    /\ UNCHANGED <<log, hist, sms, uniq, writer, applier, builder, install,
                   disk, raftSnap, purged, installs, crashes>>

\* compact_min_adjacent merges two adjacent levels, any two here.
CompactMerge ==
    /\ inmem = "frozen" /\ Levels >= CompactMin
    /\ \E i, j \in DOMAIN sms[1].imm :
         /\ Adjacent(sms[1].imm, i, j)
         /\ sms' = [sms EXCEPT ![1] =
                      ReplaceImmutableLevels(@, CompactPair(@.imm, i, j))]
    /\ inmem' = "sleep" /\ permit' = "free"
    /\ UNCHANGED <<log, hist, uniq, writer, applier, builder, install, disk,
                   raftSnap, purged, installs, crashes>>

(***************************************************************************)
(* Snapshots from a leader, log purge, crash and restart.                   *)
(***************************************************************************)
\* What any node's snapshot of the first i entries holds.
SnapshotAt(i) == [la |-> i, seq |-> hist[i + 1].seq, kv |-> hist[i + 1].kv]

\* Mutant: the received file stays where it was received.
InstallMoveNotSaved(i, u) ==
    /\ applier.pc = "idle" /\ install = NoFile /\ installs < MaxInstalls
    /\ install' = [db |-> SnapshotAt(i), uniq |-> u]
    /\ installs' = installs + 1
    /\ UNCHANGED <<log, hist, sms, uniq, permit, writer, applier, builder, inmem,
                   disk, raftSnap, purged, crashes>>

\* install_snapshot: the received file is moved to its final path, under the
\* id the leader gave it.  openraft runs it on the worker that applies.
InstallMove(i, u) ==
    /\ applier.pc = "idle" /\ install = NoFile /\ installs < MaxInstalls
    /\ install' = [db |-> SnapshotAt(i), uniq |-> u]
    /\ disk' = disk \cup {install'}
    /\ installs' = installs + 1
    /\ UNCHANGED <<log, hist, sms, uniq, permit, writer, applier, builder, inmem,
                   raftSnap, purged, crashes>>

\* Mutant: last_applied is not compared.
InstallReplaceUnchecked ==
    /\ install # NoFile /\ install' = NoFile
    /\ sms' = Append(sms, FromDB(install.db))
    /\ raftSnap' = install.db.la
    /\ UNCHANGED <<log, hist, uniq, permit, writer, applier, builder, inmem, disk,
                   purged, installs, crashes>>

\* The file is opened; do_install_snapshot ignores a snapshot that is not
\* ahead, else replaces the state machine.
InstallReplace ==
    /\ install # NoFile /\ install' = NoFile
    /\ LET mine == sms[Cur].writable.la
       IN  sms' = IF mine > 0 /\ mine >= install.db.la THEN sms
                  ELSE Append(sms, FromDB(install.db))
    /\ raftSnap' = install.db.la
    /\ UNCHANGED <<log, hist, uniq, permit, writer, applier, builder, inmem, disk,
                   purged, installs, crashes>>

\* The file cannot be opened, for one because a build has cleaned it away: the
\* error is fatal to the raft core and the file, if it is there, stays.
InstallError ==
    /\ install # NoFile /\ install' = NoFile
    /\ applier' = [Idle EXCEPT !.pc = "failed"]
    /\ UNCHANGED <<log, hist, sms, uniq, permit, writer, builder, inmem, disk,
                   raftSnap, purged, installs, crashes>>

\* openraft purges no further than the last snapshot it knows.
Purge(i) ==
    /\ purged < i /\ i <= raftSnap /\ applier.pc # "failed"
    /\ purged' = i
    /\ UNCHANGED <<log, hist, sms, uniq, permit, writer, applier, builder,
                   inmem, install, disk, raftSnap, installs, crashes>>

LastFile == CHOOSE f \in disk : \A g \in disk : ~Later(g, f)

\* load_last_snapshot
Loaded == IF disk = {} THEN EmptyDB ELSE LastFile.db

\* The process dies anywhere and RaftStore::open runs: memory is gone, the
\* latest snapshot file becomes the state machine.
Restart ==
    /\ crashes < MaxCrashes
    /\ sms' = <<FromDB(Loaded)>>
    /\ uniq' = 0
    /\ permit' = "free" /\ writer' = "free"
    /\ applier' = Idle /\ builder' = NoBuild
    /\ inmem' = "sleep" /\ install' = NoFile
    /\ raftSnap' = Loaded.la
    /\ crashes' = crashes + 1
    /\ UNCHANGED <<log, hist, disk, purged, installs>>

-----------------------------------------------------------------------------
Watch == WatchPermit \/ WatchDone

Build == \/ BuildStart \/ BuildPermit \/ BuildFreeze \/ BuildWrite
         \/ BuildError \/ BuildOpenError \/ BuildReplace \/ BuildRelease
         \/ BuildClean \/ BuildCleanFails

Compact == \/ CompactStart \/ CompactStop \/ CompactPermit \/ CompactFreeze
           \/ CompactSkip \/ CompactMerge

Next ==
    \/ \E e \in Entry : Propose(e)
    \/ ApplyStart \/ ApplyEntry \/ ApplyCommit
    \/ Watch \/ Build \/ Compact
    \/ \E i \in 1 .. Len(log), u \in {0, NextUniq} : InstallMove(i, u)
    \/ InstallReplace \/ InstallError
    \/ \E i \in 1 .. Len(log) : Purge(i)
    \/ Restart

Spec == Init /\ [][Next]_vars

\* The same store when applying an entry may fail.
FaultySpec == Init /\ [][Next \/ ApplyError]_vars

\* Tokio's semaphores queue their waiters and every task is polled until it
\* ends, so a started apply, watch, build, compaction or install goes on.  New
\* entries, watches and builds, the timer and failures are not promised.
Fairness ==
    /\ SF_vars(ApplyStart) /\ WF_vars(ApplyEntry)
    /\ WF_vars(ApplyCommit /\ sms[Cur].writable.la = Len(log))
    /\ SF_vars(BuildPermit) /\ SF_vars(BuildFreeze)
    /\ WF_vars(BuildWrite) /\ WF_vars(BuildReplace) /\ WF_vars(BuildRelease)
    /\ WF_vars(BuildClean)
    /\ SF_vars(CompactPermit) /\ SF_vars(CompactFreeze)
    /\ WF_vars(CompactSkip \/ CompactMerge)
    /\ WF_vars(InstallReplace \/ InstallError) /\ WF_vars(WatchDone)

FairSpec == Spec /\ Fairness

-----------------------------------------------------------------------------
(***************************************************************************)
(* Properties.                                                              *)
(***************************************************************************)
Immutables(imm) == DOMAIN imm \subseteq Nat /\ \A i \in DOMAIN imm : imm[i] \in Level

Map(lm) == /\ DOMAIN lm = {"writable", "imm", "db"}
           /\ lm.writable \in Level /\ Immutables(lm.imm) /\ lm.db \in DB

\* The shape of every variable.
TypeOK ==
    /\ log \in Seq(Entry) /\ hist \in Seq(State) /\ Len(hist) = Len(log) + 1
    /\ Len(sms) \in Nat \ {0} /\ DOMAIN sms = 1 .. Len(sms)
    /\ \A i \in DOMAIN sms : Map(sms[i]) /\ sms[i].writable.la <= Len(log)
    /\ uniq \in Nat
    /\ permit \in {"free", "build", "inmem"}
    /\ writer \in {"free", "applier", "watch"}
    /\ applier.pc \in {"idle", "apply", "failed"}
    /\ applier.start \in Nat /\ applier.base \in Nat
    /\ applier.view.seq \in Nat /\ applier.view.kv \in Table
    /\ builder.pc \in {"idle", "wait", "permit", "frozen", "written", "replaced",
                      "clean"}
    /\ builder.pc # "idle" => builder.sm \in DOMAIN sms
    /\ Immutables(builder.imm) /\ builder.db \in DB /\ builder.file \in DB
    /\ inmem \in {"sleep", "wait", "permit", "frozen", "stopped"}
    /\ install.db \in DB /\ install.uniq \in Nat
    /\ \A f \in disk : f.db \in DB /\ f.uniq \in Nat /\ f.db.la <= Len(log)
    /\ raftSnap \in Nat /\ purged \in Nat
    /\ installs \in Nat /\ crashes \in Nat

\* A read of the newest data of any state machine, current or superseded,
\* returns for every key exactly what replaying the log up to its last
\* committed entry gives, whatever freezes, merges and database replacements
\* went on since (LeveledMap::get).
ReadsMatchLog ==
    \A i \in DOMAIN sms :
      LET lm == sms[i]
      IN  /\ lm.writable.seq = hist[Committed(i) + 1].seq
          /\ \A k \in Keys :
               Seen(Get(lm, k, lm.writable.seq)) = hist[Committed(i) + 1].kv[k]

\* While a batch is applied, what the applier reads through its view is the
\* state after the last applied entry, although levels are merged and the
\* database is replaced under it (SMV003::new_applier's writer permit).
WriterViewExact ==
    Applying =>
      LET lm == sms[Cur]
          st == hist[lm.writable.la + 1]
      IN  /\ applier.view.seq = st.seq
          /\ \A k \in Keys :
               Seen(ViewGet(lm, applier.base, applier.view, k)) = st.kv[k]

\* Every snapshot file holds exactly the effects of the entries up to the log
\* id in its name (do_build_snapshot, install_snapshot).
SnapshotsMatchLog ==
    \A f \in disk : f.db = SnapshotAt(f.db.la)

\* The levels a build compacted are still those of its state machine when it
\* replaces them: the assertion of remove_levels_upto, and no level vanishes
\* without being in the new database.
CompactedLevelsPresent ==
    builder.pc \in {"frozen", "written"} =>
      LET lm == sms[builder.sm]
      IN  /\ NewestIndex(builder.imm) \in DOMAIN lm.imm
          /\ lm.db = builder.db
          /\ \A i \in DOMAIN lm.imm :
               i <= NewestIndex(builder.imm) =>
                 i \in DOMAIN builder.imm /\ builder.imm[i] = lm.imm[i]

\* Point reads and range reads agree: the first level with the key, newest
\* first, has the greatest version of all levels (ImmutableLevels::get stops
\* at a hit, range() merges all levels by order_key).
GetAgreesWithRange ==
    \A i \in DOMAIN sms, k \in Keys :
      LET lm  == sms[i]
          all == MergedVersions(lm.imm, lm.db, k) \cup lm.writable.kv[k]
      IN  Get(lm, k, lm.writable.seq) =
            IF all = {} THEN NotFound ELSE Newest(all)

\* After a crash at any point the log still has every entry that the newest
\* snapshot file lacks (clean_old_snapshots against openraft's purge).
LogReachesSnapshot == purged <= Loaded.la

\* Without a restart the committed state never goes back, and the snapshot a
\* restart would load never gets older (installs that race with builds of the
\* superseded state machine included).
NeverBackwards ==
    [][/\ crashes' = crashes => Committed(Cur)' >= Committed(Cur)
       /\ Loaded'.la >= Loaded.la]_vars

\* Every committed entry is applied and committed in the end, unless raft
\* stops on an error: the applier gets the writer permit although watch
\* requests keep holding it across their read, and although the builder and the
\* compactor ask for it while they hold the other one (acquire_writer_permit).
EveryEntryApplied ==
    \A i \in 1 .. MaxLog :
      Len(log) >= i ~> (Committed(Cur) >= i \/ applier.pc = "failed")

\* Neither task waits for ever on a permit, whoever else holds the other one
\* ("always acquire the compactor permit first to avoid deadlock").
TasksFinish ==
    /\ builder.pc # "idle" ~> builder.pc = "idle"
    /\ inmem \in {"wait", "permit", "frozen"} ~> inmem \in {"sleep", "stopped"}

\* The in-memory levels keep being compacted at the configured interval, for as
\* long as the process runs (compact_immutables_ms).
CompactorKeepsRunning == inmem # "stopped"

-----------------------------------------------------------------------------
\* The refinement mapping to the abstract map.
Abstract == INSTANCE ReplicatedMap WITH
    at      <- Committed(Cur),
    shown   <- [k \in Keys |-> Seen(Get(sms[Cur], k, sms[Cur].writable.seq))],
    durable <- Loaded.la

\* The store implements the abstract map: batches are atomic for readers, and
\* a restart lands on the newest snapshot (apply_entries, do_install_snapshot,
\* RaftStore::open).
ImplementsReplicatedMap == Abstract!Spec
=============================================================================
