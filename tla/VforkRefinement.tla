-------------------------- MODULE VforkRefinement --------------------------
(***************************************************************************)
(* The scheduler's vfork barriers implement the schedule without host      *)
(* timing of InstantVfork: a report still to come counts as arrived.       *)
(***************************************************************************)
EXTENDS VforkBarrier

Rejoiners == barriers.edges \ dead

Unreleased == {p \in DOMAIN barriers.of:
    IF barriers.of[p] = Pending THEN p \in Range(coming)
    ELSE p \notin barriers.released /\ barriers.of[p] \notin dead}

ChildOf(p) == IF barriers.of[p] = Pending THEN CHOOSE c \in DOMAIN coming: coming[c] = p
              ELSE barriers.of[p]

Instant == INSTANCE InstantVfork WITH
    queue      <- Without(PushedFront(Rejoiners, queue \o Sorted(admitting) \o Sorted(DOMAIN coming)), dead),
    suspended  <- [p \in Unreleased |-> ChildOf(p)],
    orphaned   <- Unreleased \cap (barriers.lost \cup dead),
    background <- background \ (Unreleased \cup Rejoiners \cup dead),
    waiting    <- waiting \ dead,
    chosen     <- IF selected \in dead THEN NoThread ELSE selected

\* The committed turns do not depend on when the backend reports a vfork
\* child's registration, the parent's continuation, a teardown or a death:
\* they are turns of the schedule in which each takes effect at once
\* (step2a_wait_for_vfork_barrier, retire_vfork_parent, release_vfork_child).
\* A death that no pass waits for is host-timed, and ends the promise.
ImplementsInstantVfork ==
    /\ Instant!Init
    /\ [][unseen' \/ Instant!Next \/ UNCHANGED Instant!vars]_vars
=============================================================================
