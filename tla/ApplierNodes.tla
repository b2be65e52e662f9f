---------------------------- MODULE ApplierNodes ----------------------------
(***************************************************************************)
(* Two nodes apply the same log, one step per await of the applier.  The    *)
(* leader never stops: the states it goes through are what the follower is  *)
(* compared with.  The follower saves snapshots, crashes and restarts from  *)
(* them, and may install a snapshot of the leader.  On each node a watcher  *)
(* follows the change events.                                               *)
(***************************************************************************)
EXTENDS Applier

CONSTANTS Commands,         \* the commands that are proposed
          Times,            \* log times of normal entries; 0 is "no time"
          ClockMayRegress,  \* a new leader's clock may be behind
          MaxLog,           \* bound: number of committed entries
          MaxInstalls,      \* bound: snapshots sent to the follower
          MaxCrashes        \* bound: restarts of the follower

ASSUME NodesAssumption ==
    /\ Times \subseteq Nat /\ ClockMayRegress \in BOOLEAN
    /\ MaxLog \in Nat /\ MaxInstalls \in Nat /\ MaxCrashes \in Nat

Nodes == {"leader", "follower"}

VARIABLES log,       \* the committed entries
          hist,      \* hist[i + 1]: the leader's data after i entries
          sm,        \* the state machine and the Applier of each node
          saved,     \* the follower's last snapshot
          watched,   \* per node, what a watcher made of the events
          installs, crashes

vars == <<log, hist, sm, saved, watched, installs, crashes>>

\* What a snapshot has of a state machine.
Data(s) == [la |-> s.la, seq |-> s.seq, kv |-> s.kv, index |-> s.index,
            nodes |-> s.nodes, features |-> s.features, members |-> s.members]

InitialData == [la |-> 0, seq |-> 0, kv |-> Empty, index |-> Empty,
                nodes |-> Empty, features |-> {}, members |-> {}]

\* A state machine with the data d that is not applying an entry.
Loaded(d, start) ==
    [la |-> d.la, seq |-> d.seq, kv |-> d.kv, index |-> d.index,
     nodes |-> d.nodes, features |-> d.features, members |-> d.members,
     start |-> start, pc |-> "idle", expired |-> {}, ops |-> <<>>, listed |-> {},
     changes |-> <<>>]

\* A watcher that has been given all current values.
Fresh(d) == [kv |-> d.kv, chained |-> TRUE]

Init ==
    /\ log = <<>> /\ hist = <<InitialData>>
    /\ sm = [n \in Nodes |-> Loaded(InitialData, 0)]
    /\ saved = InitialData
    /\ watched = [n \in Nodes |-> Fresh(InitialData)]
    /\ installs = 0 /\ crashes = 0

\* get_log_time: only normal entries have a time.
LogTime(c, t) == IF c.kind \in {"blank", "membership"} THEN 0 ELSE t

LatestTime == IF log = <<>> THEN 0
              ELSE CHOOSE t \in {log[i].time : i \in DOMAIN log} :
                     \A i \in DOMAIN log : log[i].time <= t

\* openraft commits an entry, one at a time as seen from the leader's applier.
Propose(c, t) ==
    /\ Len(log) < MaxLog
    /\ sm["leader"].pc = "idle" /\ sm["leader"].la = Len(log)
    /\ ClockMayRegress \/ LogTime(c, t) = 0 \/ LatestTime <= t
    /\ log' = Append(log, [cmd |-> c, time |-> LogTime(c, t)])
    /\ UNCHANGED <<hist, sm, saved, watched, installs, crashes>>

Current(n) == log[sm[n].la + 1]

\* A step of node n's applier that only changes its state machine.
Step(n, s) ==
    /\ sm' = [sm EXCEPT ![n] = s]
    /\ UNCHANGED <<log, hist, saved, watched, installs, crashes>>

\* Mutant: the cleanup time never goes back.
CleanStartMax(n) ==
    /\ sm[n].pc = "idle" /\ sm[n].la < Len(log)
    /\ LET t == Current(n).time
       IN  Step(n, IF t = 0 THEN [sm[n] EXCEPT !.pc = "clean"]
                   ELSE [sm[n] EXCEPT
                           !.pc = "clean", !.expired = ListExpireIndex(sm[n], t),
                           !.start = IF t < @ THEN @ ELSE t])

\* clean_expired_kvs lists the expired keys and saves the time for the next
\* listing; an entry without a time cleans nothing.
CleanStart(n) ==
    /\ sm[n].pc = "idle" /\ sm[n].la < Len(log)
    /\ LET t == Current(n).time
       IN  Step(n, IF t = 0 THEN [sm[n] EXCEPT !.pc = "clean"]
                   ELSE [sm[n] EXCEPT
                           !.pc = "clean", !.expired = ListExpireIndex(sm[n], t),
                           !.start = t])

\* Each listed key is deleted, whatever its record is by then.
CleanKey(n) ==
    /\ sm[n].pc = "clean" /\ sm[n].expired # {}
    /\ LET e == FirstExpired(sm[n].expired)
       IN  Step(n, [UpsertKv(sm[n], Current(n).time, Delete(e[3])) EXCEPT
                      !.expired = @ \ {e}])

\* last_applied, then the command.
Command(n) ==
    /\ sm[n].pc = "clean" /\ sm[n].expired = {}
    /\ Step(n, [ApplyCmd(sm[n], Current(n).time, Current(n).cmd) EXCEPT
                  !.la = @ + 1, !.pc = "ops"])

AppliedTime(n) == log[sm[n].la].time

\* The next operation of the chosen branch.
Operation(n) ==
    /\ sm[n].pc = "ops" /\ sm[n].listed = {} /\ sm[n].ops # <<>>
    /\ Step(n, [ExecuteOp(sm[n], AppliedTime(n), Head(sm[n].ops)) EXCEPT
                  !.ops = Tail(@)])

\* The next key of delete_by_prefix, in key order.
PrefixKey(n) ==
    /\ sm[n].pc = "ops" /\ sm[n].listed # {}
    /\ LET k == CHOOSE k \in sm[n].listed : \A o \in sm[n].listed : k[2] <= o[2]
       IN  Step(n, DeleteListed(sm[n], AppliedTime(n), k))

Notified(w, c) ==
    [kv      |-> IF c.result = Absent THEN Remove(w.kv, c.key)
                 ELSE Assign(w.kv, c.key, c.result),
     chained |-> /\ w.chained
                 /\ c.prev = IF c.key \in DOMAIN w.kv THEN w.kv[c.key] ELSE Absent]

OpsDone(n) == sm[n].pc = "ops" /\ sm[n].ops = <<>> /\ sm[n].listed = {}

\* Mutant: the last change is sent first.
SendChangeLastFirst(n) ==
    /\ OpsDone(n) /\ sm[n].changes # <<>>
    /\ LET c == sm[n].changes
       IN  /\ watched' = [watched EXCEPT ![n] = Notified(@, c[Len(c)])]
           /\ sm' = [sm EXCEPT ![n].changes = SubSeq(c, 1, Len(c) - 1)]
    /\ UNCHANGED <<log, hist, saved, installs, crashes>>

\* on_change_applied for each queued change.
SendChange(n) ==
    /\ OpsDone(n) /\ sm[n].changes # <<>>
    /\ watched' = [watched EXCEPT ![n] = Notified(@, Head(sm[n].changes))]
    /\ sm' = [sm EXCEPT ![n].changes = Tail(@)]
    /\ UNCHANGED <<log, hist, saved, installs, crashes>>

\* apply returns.
Finish(n) ==
    /\ OpsDone(n) /\ sm[n].changes = <<>>
    /\ sm' = [sm EXCEPT ![n].pc = "idle"]
    /\ hist' = IF n = "leader" THEN Append(hist, Data(sm[n])) ELSE hist
    /\ UNCHANGED <<log, saved, watched, installs, crashes>>

\* The follower saves a snapshot between two batches, which matters only if it
\* can still crash.
Save ==
    /\ crashes < MaxCrashes
    /\ sm["follower"].pc = "idle" /\ saved.la < sm["follower"].la
    /\ saved' = Data(sm["follower"])
    /\ UNCHANGED <<log, hist, sm, watched, installs, crashes>>

\* A crash anywhere, even within an entry; the watchers connect again.
Restart ==
    /\ crashes < MaxCrashes
    /\ sm' = [sm EXCEPT !["follower"] = Loaded(saved, 0)]
    /\ watched' = [watched EXCEPT !["follower"] = Fresh(saved)]
    /\ crashes' = crashes + 1
    /\ UNCHANGED <<log, hist, saved, installs>>

\* Mutant: the snapshot comes without the expire index.
InstallLosesIndex ==
    /\ installs < MaxInstalls
    /\ \A n \in Nodes : sm[n].pc = "idle"
    /\ sm["follower"].la < sm["leader"].la
    /\ saved' = Data(sm["leader"])
    /\ sm' = [sm EXCEPT !["follower"] =
                [Loaded(Data(sm["leader"]), sm["follower"].start) EXCEPT
                   !.index = Empty]]
    /\ installs' = installs + 1
    /\ UNCHANGED <<log, hist, watched, crashes>>

\* install_snapshot_v003: new data under the same cleanup time and the same
\* event sender.
Install ==
    /\ installs < MaxInstalls
    /\ \A n \in Nodes : sm[n].pc = "idle"
    /\ sm["follower"].la < sm["leader"].la
    /\ saved' = Data(sm["leader"])
    /\ sm' = [sm EXCEPT !["follower"] =
                Loaded(Data(sm["leader"]), sm["follower"].start)]
    /\ installs' = installs + 1
    /\ UNCHANGED <<log, hist, watched, crashes>>

Apply(n) == \/ CleanStart(n) \/ CleanKey(n) \/ Command(n) \/ Operation(n)
            \/ PrefixKey(n) \/ SendChange(n) \/ Finish(n)

\* The nodes share nothing but the log, so the order of their steps does not
\* matter: the follower waits for the leader to finish an entry.
Next ==
    \/ \E c \in Commands, t \in Times : Propose(c, t)
    \/ Apply("leader")
    \/ sm["leader"].pc = "idle" /\ Apply("follower")
    \/ Save \/ Restart \/ Install

Spec == Init /\ [][Next]_vars
-----------------------------------------------------------------------------
(***************************************************************************)
(* Properties.                                                              *)
(***************************************************************************)
PartialFunction(f, D, R) == DOMAIN f \subseteq D /\ \A x \in DOMAIN f : f[x] \in R

\* The shape of the indexes of both nodes.
TypeOK ==
    /\ Len(hist) - 1 <= Len(log) /\ installs \in Nat /\ crashes \in Nat
    /\ \A n \in Nodes :
         /\ sm[n].la \in 0 .. Len(log) /\ sm[n].seq \in Nat /\ sm[n].start \in Nat
         /\ PartialFunction(sm[n].kv, Key, Record)
         /\ PartialFunction(sm[n].index, Nat \X Nat, Key)
         /\ sm[n].pc \in {"idle", "clean", "ops"}
         /\ sm[n].listed \subseteq Key

\* The expire index has exactly one entry for each record that expires, under
\* its expire time and seq: otherwise clean_expired_kvs would delete a live
\* record by a stale entry, or never find an expired one.
ExpireIndexExact ==
    \A n \in Nodes :
      LET s        == sm[n]
          expiring == {k \in DOMAIN s.kv : s.kv[k].exp # Never}
      IN  /\ DOMAIN s.index = {<<s.kv[k].exp, s.kv[k].seq>> : k \in expiring}
          /\ \A k \in expiring : s.index[<<s.kv[k].exp, s.kv[k].seq>>] = k

\* "All expired keys will be removed before applying a log": when the command
\* of an entry with a time runs, no record is left that expired before it.
ExpiredRemoved ==
    \A n \in Nodes :
      sm[n].pc = "clean" /\ sm[n].expired = {} =>
        \A k \in DOMAIN sm[n].kv : sm[n].kv[k].exp >= Current(n).time

\* Log times never go back, but for entries without one.
TimesInOrder ==
    \A i, j \in DOMAIN log : i < j =>
      log[j].time = 0 \/ log[i].time <= log[j].time

\* The part of it that holds: log times may go back, or a snapshot may be
\* installed under the old cleanup time, as long as not both happen
\* (clean_expired_kvs, install_snapshot_v003).
ExpiredRemovedInOrder == installs = 0 \/ TimesInOrder => ExpiredRemoved

\* Cleaning removes expired records only: a record that expires at the very
\* time of the entry stays, and so does one whose key had an entry in the
\* index for an earlier record ("Expire time that equals to current time is
\* not considered expired", list_expire_index).
OnlyExpiredCleaned ==
    [][\A n \in Nodes :
         sm[n].pc = "clean" /\ sm'[n].pc = "clean" =>
           \A k \in DOMAIN sm[n].kv \ DOMAIN sm'[n].kv :
             sm[n].kv[k].exp < Current(n).time]_vars

\* After the same entries both nodes have the same data, although the
\* follower's cleanup time, which is in no snapshot, differs from the
\* leader's after a restart or an install (under the same condition).
ReplicasAgree ==
    LET f == sm["follower"]
    IN  (installs = 0 \/ TimesInOrder) /\ f.pc = "idle" /\ f.la < Len(hist) =>
          Data(f) = hist[f.la + 1]

\* A client that keeps a copy of the keys by the events it is sent has the
\* state machine's data after each entry ("Whenever the watch key data
\* updated, client will be notified").
WatchersConverge ==
    \A n \in Nodes : sm[n].pc = "idle" => watched[n].kv = sm[n].kv

\* No data came to the node other than by applying entries.
OnlyEntries(n) == n = "leader" \/ installs = 0

\* The part of it that holds: the events tell all that entries change
\* (Applier::apply).
WatchersFollowEntries ==
    \A n \in Nodes :
      OnlyEntries(n) /\ sm[n].pc = "idle" => watched[n].kv = sm[n].kv

\* The events of a key chain up: each has as prev what the one before it left
\* (Applier::changes, "the changes have been made by the applying one log
\* entry (key, prev, result)").
ChangesChain == \A n \in Nodes : OnlyEntries(n) => watched[n].chained

\* Counting no more than n + 1 keys of a prefix gives the same verdict as
\* counting all of them (eval_condition), for n below the greatest u64.
KeyCountExact ==
    \A n \in Nodes, d \in Dirs, c \in 0 .. MaxU64 - 1,
       op \in {"eq", "ne", "lt", "le", "gt", "ge"} :
      CompareKeyCount(sm[n], d, op, c) =
        Compare(Cardinality(ListKv(sm[n], d)), op, c)
=============================================================================
