------------------------ MODULE StateMachineReaders ------------------------
(***************************************************************************)
(* Readers of the state machine store: kv_get_many and kv_list open an MVCC *)
(* snapshot (LeveledMap::to_snapshot) without any permit, and read through  *)
(* it while entries are applied, levels are merged and databases replaced.  *)
(***************************************************************************)
EXTENDS StateMachineStore

CONSTANT Readers

VARIABLE reader

rvars == <<vars, reader>>

Closed == [open |-> FALSE, sm |-> 0, snap |-> 0, at |-> 0, calm |-> TRUE,
           got |-> [k \in {} |-> NotFound]]

RInit == Init /\ reader = [r \in Readers |-> Closed]

\* to_snapshot: the state machine of this moment and its seq.  at and calm are
\* history: the committed log index, and whether nothing has yet removed
\* versions from the map or added a tombstone to it.
Open(r) ==
    /\ ~reader[r].open
    /\ reader' = [reader EXCEPT ![r] =
         [Closed EXCEPT !.open = TRUE, !.sm = Cur, !.snap = sms[Cur].writable.seq,
                        !.at = Committed(Cur)]]
    /\ UNCHANGED vars

\* get_many_kv reads one key after the other.
GetKey(r, k) ==
    /\ reader[r].open /\ k \notin DOMAIN reader[r].got
    /\ LET v == Get(sms[reader[r].sm], k, reader[r].snap)
       IN  reader' = [reader EXCEPT ![r].got =
             [x \in DOMAIN @ \cup {k} |-> IF x = k THEN v ELSE @[x]]]
    /\ UNCHANGED vars

\* LeveledMap::range for one key: all levels are merged by order_key, and the
\* database is not filtered by the snapshot seq.
RangeGet(lm, k, snap) ==
    LET levels == {lm.writable} \cup {lm.imm[i] : i \in DOMAIN lm.imm}
        found  == {v \in UNION {l.kv[k] : l \in levels} : v.seq <= snap}
                    \cup ({DBGet(lm.db, k)} \ {NotFound})
    IN  IF found = {} THEN NotFound ELSE Newest(found)

\* list_kv clones the writable part and the immutable levels at once.
ListAll(r) ==
    /\ reader[r].open /\ reader[r].got = Closed.got
    /\ reader' = [reader EXCEPT ![r].got =
         [k \in Keys |-> RangeGet(sms[reader[r].sm], k, reader[r].snap)]]
    /\ UNCHANGED vars

Close(r) ==
    /\ reader[r].open /\ reader[r].got # Closed.got
    /\ reader' = [reader EXCEPT ![r] = Closed]
    /\ UNCHANGED vars

Tombstones(lm) == {<<k, v>> \in Keys \X {Tombstone(s) : s \in 0 .. lm.writable.seq} :
                     v \in lm.writable.kv[k]}

\* A step of the store, as one reader's history sees it.
Disturbs(r) ==
    \/ inmem = "frozen" /\ inmem' # "frozen"
    \/ builder.pc = "written" /\ builder'.pc # "written"
    \/ /\ applier.pc = "apply" /\ applier'.pc = "idle"
       /\ Tombstones(sms'[reader[r].sm]) # Tombstones(sms[reader[r].sm])

StoreStep ==
    /\ Next
    /\ reader' = IF crashes' # crashes THEN [r \in Readers |-> Closed]
                 ELSE [r \in Readers |->
                         IF reader[r].open
                         THEN [reader[r] EXCEPT !.calm = @ /\ ~Disturbs(r)]
                         ELSE reader[r]]

RNext ==
    \/ StoreStep
    \/ \E r \in Readers :
         \/ Open(r) \/ ListAll(r) \/ Close(r)
         \/ \E k \in Keys : GetKey(r, k)

RSpec == RInit /\ [][RNext]_rvars

-----------------------------------------------------------------------------
\* What a reader got equals the state at the moment its snapshot was taken.
\* LeveledMap::to_snapshot promises "a repeatable read readonly view".
RepeatableRead ==
    \A r \in Readers : reader[r].open =>
      \A k \in DOMAIN reader[r].got :
        Seen(reader[r].got[k]) = hist[reader[r].at + 1].kv[k]

\* The part of that promise the code keeps: as long as no merge finished, no
\* database was replaced and no tombstone was committed since the snapshot was
\* taken, the seq alone isolates a reader from the writer.
CalmReadsRepeat ==
    \A r \in Readers : reader[r].open /\ reader[r].calm =>
      \A k \in DOMAIN reader[r].got :
        Seen(reader[r].got[k]) = hist[reader[r].at + 1].kv[k]

\* Whatever the disturbance, what a reader gets of a key is nothing, or a value
\* the key had in the snapshot's own state or in a later committed one: never
\* a value that was overwritten before the snapshot was taken, and never one
\* that is only staged (LeveledMap::get and range, apply_entries).
NoOlderNoStagedValue ==
    \A r \in Readers : reader[r].open =>
      \A k \in DOMAIN reader[r].got :
        LET got == Seen(reader[r].got[k])
        IN  \/ got = 0
            \/ \E i \in reader[r].at .. Committed(reader[r].sm) :
                 got = hist[i + 1].kv[k]
=============================================================================
