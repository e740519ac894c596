---------------------------- MODULE SelectionLock ----------------------------
(***************************************************************************)
(* What the run queue and its callers promise each other about a           *)
(* selection: between the pop that opens it and the commit or the undo     *)
(* that closes it, no other mutation of the queue happens                  *)
(* (detcore/src/scheduler/runqueue.rs: "the RunQueue enters a *locked*     *)
(* state").  RunQueue implements this contract with its data structure,    *)
(* TurnProtocol with the daemon and the handlers that race it.             *)
(***************************************************************************)
CONSTANTS Tids, NoTid

VARIABLES queued, selected

\* Nothing is selected: threads may join and leave, and a critical section
\* that ends with a pop leaves one of the queued threads selected.
Unlocked ==
    /\ selected = NoTid
    /\ queued' \in SUBSET Tids
    /\ selected' \in queued' \cup {NoTid}

\* A selection closes: by an undo or a commit that requeues the thread, or
\* by taking that thread, and no other, out of the queue.
Close ==
    /\ selected # NoTid
    /\ selected' = NoTid
    /\ queued' \in {queued, queued \ {selected}}

Init == queued = {} /\ selected = NoTid

Spec == Init /\ [][Unlocked \/ Close]_<<queued, selected>>
=============================================================================
