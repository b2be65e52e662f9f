--------------------------- MODULE ReplicatedMap ---------------------------
(***************************************************************************)
(* What a node's state machine store promises to the rest of the system.   *)
(* There is a committed log, whose first i entries produce hist[i + 1].     *)
(* The node shows one of these states as a whole, moves forward only, and   *)
(* after a crash it is back at a state it had made durable.                 *)
(***************************************************************************)
EXTENDS Naturals, Sequences

VARIABLES hist,     \* hist[i + 1]: the state after i entries
          at,       \* the node shows the state after at entries
          shown,    \* the map a client reads
          durable   \* the node recovers the state after durable entries

Init == /\ Len(hist) = 1
        /\ at = 0 /\ shown = hist[1].kv
        /\ durable = 0

\* The cluster commits another entry.
Grow == /\ Len(hist') = Len(hist) + 1
        /\ \A i \in 1 .. Len(hist) : hist'[i] = hist[i]
        /\ UNCHANGED <<at, shown, durable>>

\* Entries are applied, or a snapshot is installed: in one step a client sees
\* all of the effects up to some entry.  A snapshot may be saved with it.
Advance == /\ at' \in at .. (Len(hist) - 1)
           /\ shown' = hist[at' + 1].kv
           /\ durable' \in durable .. (Len(hist) - 1)
           /\ UNCHANGED hist

\* Crash and restart.
Recover == /\ at' = durable
           /\ shown' = hist[at' + 1].kv
           /\ UNCHANGED <<hist, durable>>

Next == Grow \/ Advance \/ Recover

Spec == Init /\ [][Next]_<<hist, at, shown, durable>>
=============================================================================
