---------------------------- MODULE VforkBarrier ----------------------------
(***************************************************************************)
(* The scheduler's vfork barriers (scheduler.rs).  A granted vfork leaves  *)
(* its parent inside clone(2), outside the schedule, until the child execs *)
(* or exits.  The child's registration, the parent's continuation, the     *)
(* report of a child torn down before it registered and every              *)
(* deregistration are host-timed; a barrier per parent keeps them from     *)
(* choosing a turn.  The scheduler's pass (step2a, step2c, step 3) and the *)
(* commit of the turn it selected are two steps, since the scheduler waits *)
(* for the selected thread's request without its lock.                     *)
(***************************************************************************)
EXTENDS ThreadQueues

CONSTANTS
    Threads,      \* thread ids
    Initial,      \* the threads queued at the start
    Pending,      \* the barrier of a child that has not registered
    NoThread,     \* no turn is selected
    MayDie        \* threads something outside the run may kill

ASSUME VforkAssumption ==
    /\ Threads \subseteq Nat /\ IsFiniteSet(Threads)
    /\ Initial \subseteq Threads
    /\ MayDie \subseteq Threads
    /\ Pending \notin Threads /\ NoThread \notin Threads

VARIABLES
    queue,        \* run_queue, one priority band
    admitting,    \* pending_run_queue_admissions
    selected,     \* the tentative selection
    registered,   \* next_turns
    background,   \* external_io_blockers
    waiting,      \* parked for another thread's turn
    posted,       \* [backgrounded thread -> the request it posted after its call]
    barriers,     \* the vfork barrier maps
    clones,       \* kernel: [parent inside clone(2) -> its child, or NoThread]
    coming,       \* [child that has yet to register -> its parent]
    torn,         \* [child torn down before registering, unreported -> parent]
    freed,        \* kernel: children that have execed, exited or died
    dead,         \* kernel: gone and not deregistered yet
    unborn,       \* ids not used yet
    unseen        \* a death that the next pass would not notice (history)

vars == <<queue, admitting, selected, registered, background, waiting, posted,
          barriers, clones, coming, torn, freed, dead, unborn, unseen>>

-----------------------------------------------------------------------------
(* The barrier maps.  "of" is vfork_barriers, "edges" vfork_rejoin_edges,  *)
(* "lost" dead_parent_vfork_barriers, "tombs" dead_vfork_parents,          *)
(* "unmade" unregistered_vfork_child_exits.                                *)

NoBarriers ==
    [of |-> <<>>, released |-> {}, edges |-> {}, lost |-> {}, tombs |-> {}, unmade |-> {}]

DropVforkBarriers(b, S) ==
    [b EXCEPT !.of = Limited(@, S), !.released = @ \ S, !.edges = @ \ S,
              !.lost = @ \ S, !.unmade = @ \ S]

BeginVforkBarrier(b, p) ==
    [DropVforkBarriers(b, {p}) EXCEPT !.tombs = @ \ {p}, !.of = Bind(@, p, Pending)]

RetireVforkParent_untombed(b, p, known) ==
    IF p \notin DOMAIN b.of THEN b
    ELSE IF b.of[p] \in known /\ p \notin b.released THEN [b EXCEPT !.lost = @ \cup {p}]
    ELSE DropVforkBarriers(b, {p})

RetireVforkParent(b, p, known) ==
    IF p \notin DOMAIN b.of THEN b
    ELSE IF b.of[p] = Pending THEN [DropVforkBarriers(b, {p}) EXCEPT !.tombs = @ \cup {p}]
    ELSE IF b.of[p] \in known /\ p \notin b.released THEN [b EXCEPT !.lost = @ \cup {p}]
    ELSE DropVforkBarriers(b, {p})

ReleaseVforkChild_live(b, c, resumes) ==
    LET parents == {p \in DOMAIN b.of: b.of[p] = c} IN
    [b EXCEPT !.released = @ \cup parents,
              !.edges = @ \cup (IF resumes THEN parents ELSE {})]

ReleaseVforkChild(b, c, resumes) ==
    LET parents == {p \in DOMAIN b.of: b.of[p] = c}
        kept    == parents \ b.lost
    IN [DropVforkBarriers(b, parents \cap b.lost) EXCEPT
            !.released = @ \cup kept,
            !.edges = @ \cup (IF resumes THEN kept ELSE {})]

RemoveExecVforkBarriers(b, S) ==
    DropVforkBarriers(b, {p \in DOMAIN b.of: p \in S \/ b.of[p] \in S})

CompleteVforkRegistration(b, p, c) ==
    IF p \in b.tombs THEN [b EXCEPT !.tombs = @ \ {p}] ELSE [b EXCEPT !.of[p] = c]

RecordUnregisteredExit(b, p) ==
    IF p \in DOMAIN b.of /\ b.of[p] = Pending THEN [b EXCEPT !.unmade = @ \cup {p}] ELSE b

\* logically_kill_thread's part: the parent's retirement, then its release
\* edge as a child.
LogicallyKill(b, u, known) == ReleaseVforkChild(RetireVforkParent(b, u, known), u, FALSE)

-----------------------------------------------------------------------------
(* Step 3 and the wait for a backgrounded child.                           *)

QueuedChild(b, q) == {p \in DOMAIN b.of: b.of[p] \in Range(q)}

GatedChild(b, q, bg) ==
    IF QueuedChild(b, q) # {} THEN {}
    ELSE {p \in DOMAIN b.of: b.of[p] \in bg \ DOMAIN b.of}

Step3(b, q, bg) ==
    IF q = <<>> THEN NoThread
    ELSE IF QueuedChild(b, q) # {} THEN b.of[Min(QueuedChild(b, q))]
    ELSE IF GatedChild(b, q, bg) # {} THEN NoThread
    ELSE Head(q)

\* Step 2c: the calls found finished that rejoin now.
Harvested(b, q, bg) ==
    LET ready == bg \cap DOMAIN posted
        gated == GatedChild(b, q, bg)
    IN IF q = <<>> THEN ready
       ELSE IF gated = {} THEN {} ELSE {b.of[Min(gated)]} \cap ready

\* Step 2a: the barriers that end, and the parents that rejoin with them.
Completed(b) ==
    {p \in DOMAIN b.of \cap DOMAIN posted:
        posted[p] = "failed" \/ b.of[p] # Pending \/ p \in b.unmade}

Rejoining(b) ==
    {p \in Completed(b) \cap b.edges: b.of[p] # Pending /\ posted[p] = "continue"}

Ended(b) == IF b.edges \subseteq Completed(b) THEN Completed(b)
            ELSE Completed(b) \ Rejoining(b)

Waits_pending(b) == {p \in DOMAIN b.of: b.of[p] = Pending}

Waits(b) == {p \in DOMAIN b.of: b.of[p] = Pending \/ p \in b.released}

-----------------------------------------------------------------------------
Init ==
    /\ queue = Sorted(Initial)
    /\ admitting = {}
    /\ selected = NoThread
    /\ registered = Initial
    /\ background = {}
    /\ waiting = {}
    /\ posted = <<>>
    /\ barriers = NoBarriers
    /\ clones = <<>>
    /\ coming = <<>>
    /\ torn = <<>>
    /\ freed = {}
    /\ dead = {}
    /\ unborn = Threads \ Initial
    /\ unseen = FALSE

kernel == <<clones, coming, torn, freed, dead, unborn, unseen>>

\* One pass: the deferred admissions, step2a, and, when no barrier waits,
\* step2c and step 3.
Pass ==
    LET b   == DropVforkBarriers(barriers, Ended(barriers))
        in  == Rejoining(barriers) \cap Ended(barriers) \cap background
        q   == PushedFront(in, queue \o Sorted(admitting))
        bg  == background \ in
        out == IF Waits(b) # {} THEN {} ELSE Harvested(b, q, bg)
        q2  == PushedFront(out, q)
        bg2 == bg \ out
    IN
    /\ selected = NoThread
    /\ barriers' = b
    /\ queue' = q2
    /\ admitting' = {}
    /\ background' = bg2
    /\ posted' = Limited(posted, in \cup out)
    /\ selected' = IF Waits(b) # {} THEN NoThread ELSE Step3(b, q2, bg2)
    /\ UNCHANGED <<registered, waiting>>
    /\ UNCHANGED kernel

-----------------------------------------------------------------------------
(* The selected thread's turn.                                             *)

Committed(t) == selected = t /\ t \notin dead /\ selected' = NoThread

Requeued(t) == Append(Without(queue, {t}), t)

Step(t) ==
    /\ Committed(t)
    /\ queue' = Requeued(t)
    /\ UNCHANGED <<admitting, registered, background, waiting, posted, barriers>>
    /\ UNCHANGED kernel

\* The grant begins the barrier and backgrounds the parent; clone(2) then
\* makes child c, makes one that is torn down before it registers, or fails.
Vfork(t) ==
    /\ Committed(t)
    /\ queue' = Without(queue, {t})
    /\ background' = background \cup {t}
    /\ barriers' = BeginVforkBarrier(barriers, t)
    /\ \/ \E c \in unborn:
            /\ clones' = Bind(clones, t, c)
            /\ unborn' = unborn \ {c}
            /\ \/ coming' = Bind(coming, c, t) /\ UNCHANGED <<torn, freed>>
               \/ torn' = Bind(torn, c, t) /\ freed' = freed \cup {c} /\ UNCHANGED coming
       \/ clones' = Bind(clones, t, NoThread) /\ UNCHANGED <<unborn, coming, torn, freed>>
    /\ UNCHANGED <<admitting, registered, waiting, posted, dead, unseen>>

BeginCall(t) ==
    /\ Committed(t)
    /\ queue' = Without(queue, {t})
    /\ background' = background \cup {t}
    /\ UNCHANGED <<admitting, registered, waiting, posted, barriers>>
    /\ UNCHANGED kernel

Wait(t) ==
    /\ Committed(t)
    /\ queue' = Without(queue, {t})
    /\ waiting' = waiting \cup {t}
    /\ UNCHANGED <<admitting, registered, background, posted, barriers>>
    /\ UNCHANGED kernel

Wake(t, u) ==
    /\ Committed(t) /\ u \in waiting
    /\ queue' = Append(Requeued(t), u)
    /\ waiting' = waiting \ {u}
    /\ UNCHANGED <<admitting, registered, background, posted, barriers>>
    /\ UNCHANGED kernel

\* record_successful_exec, in the caller's turn.
Exec(t) ==
    /\ Committed(t)
    /\ queue' = Requeued(t)
    /\ barriers' = ReleaseVforkChild(barriers, t, TRUE)
    /\ freed' = freed \cup {t}
    /\ UNCHANGED <<admitting, registered, background, waiting, posted>>
    /\ UNCHANGED <<clones, coming, torn, dead, unborn, unseen>>

\* The Exit grant; the thread deregisters in the host's time.
Exit(t) ==
    /\ Committed(t)
    /\ queue' = Without(queue, {t})
    /\ barriers' = ReleaseVforkChild(barriers, t, TRUE)
    /\ freed' = freed \cup {t}
    /\ dead' = dead \cup {t}
    /\ UNCHANGED <<admitting, registered, background, waiting, posted>>
    /\ UNCHANGED <<clones, coming, torn, unborn, unseen>>

\* u leaves the scheduler's maps.
Forgotten(u, q) ==
    /\ queue' = Without(q, {u})
    /\ admitting' = admitting \ {u}
    /\ registered' = registered \ {u}
    /\ background' = background \ {u}
    /\ waiting' = waiting \ {u}
    /\ posted' = Limited(posted, {u})
    /\ clones' = Limited(clones, {u})
    /\ UNCHANGED <<coming, torn, unborn, unseen>>

\* A turn that ends u: a sibling's exit_group, or a committed SIGKILL.
Kill(t, u) ==
    /\ Committed(t) /\ u # t /\ u \in registered \ dead
    /\ Forgotten(u, Requeued(t))
    /\ barriers' = LogicallyKill(barriers, u, registered)
    /\ freed' = freed \cup {u}
    /\ UNCHANGED dead

\* An exec that ends its sibling u.  A vfork child has no sibling.
ExecEnds(t, u) ==
    /\ Committed(t) /\ u # t /\ u \in registered \ dead
    /\ t \notin Range(barriers.of)
    /\ Forgotten(u, Requeued(t))
    /\ barriers' = RemoveExecVforkBarriers(LogicallyKill(barriers, u, registered), {u})
    /\ freed' = freed \cup {u}
    /\ UNCHANGED dead

-----------------------------------------------------------------------------
(* What arrives in the host's time.                                        *)

\* The child registers itself; its admission waits for the next pass.
Register(c) ==
    /\ c \in DOMAIN coming
    /\ barriers' = CompleteVforkRegistration(barriers, coming[c], c)
    /\ registered' = registered \cup {c}
    /\ admitting' = admitting \cup {c}
    /\ coming' = Limited(coming, {c})
    /\ UNCHANGED <<queue, selected, background, waiting, posted>>
    /\ UNCHANGED <<clones, torn, freed, dead, unborn, unseen>>

\* The deregistration of a child that never registered.
TearDown(c) ==
    /\ c \in DOMAIN torn
    /\ barriers' = RecordUnregisteredExit(barriers, torn[c])
    /\ torn' = Limited(torn, {c})
    /\ UNCHANGED <<queue, admitting, selected, registered, background, waiting, posted>>
    /\ UNCHANGED <<clones, coming, freed, dead, unborn, unseen>>

\* clone(2) returns to a vfork parent, which posts how it went.
Continue(p) ==
    /\ p \in DOMAIN clones \ dead
    /\ clones[p] = NoThread \/ clones[p] \in freed
    /\ posted' = Bind(posted, p, IF clones[p] = NoThread THEN "failed" ELSE "continue")
    /\ clones' = Limited(clones, {p})
    /\ UNCHANGED <<queue, admitting, selected, registered, background, waiting, barriers>>
    /\ UNCHANGED <<coming, torn, freed, dead, unborn, unseen>>

\* Another background call finishes.
CallDone(t) ==
    /\ t \in background \ (DOMAIN clones \cup DOMAIN posted \cup dead)
    /\ posted' = Bind(posted, t, "continue")
    /\ UNCHANGED <<queue, admitting, selected, registered, background, waiting, barriers>>
    /\ UNCHANGED kernel

\* A pass notices the death of a child it waits to run or to readmit, not that
\* of a child parked for another thread; a parent's matters only once its child
\* has registered.
Noticed(u) ==
    /\ u \notin Range(coming)
    /\ u \in Range(barriers.of) => u \in Range(queue) \cup background

\* Something outside the run kills u.
Die(u) ==
    /\ u \in (MayDie \cap registered) \ dead
    /\ dead' = dead \cup {u}
    /\ freed' = freed \cup {u}
    /\ unseen' = (unseen \/ ~Noticed(u))
    /\ UNCHANGED <<queue, admitting, selected, registered, background, waiting, posted, barriers>>
    /\ UNCHANGED <<clones, coming, torn, unborn>>

\* A thread that is gone deregisters; a turn that waits for it is abandoned.
Deregister(u) ==
    /\ u \in dead
    /\ Forgotten(u, queue)
    /\ barriers' = LogicallyKill(barriers, u, registered)
    /\ selected' = IF selected = u THEN NoThread ELSE selected
    /\ dead' = dead \ {u}
    /\ UNCHANGED freed

Turn(t) ==
    \/ Step(t) \/ Vfork(t) \/ BeginCall(t) \/ Wait(t) \/ Exec(t) \/ Exit(t)
    \/ \E u \in Threads: Wake(t, u) \/ Kill(t, u) \/ ExecEnds(t, u)

Next ==
    \/ Pass
    \/ \E t \in Threads:
        \/ Turn(t)
        \/ Register(t) \/ TearDown(t) \/ Continue(t) \/ CallDone(t) \/ Die(t) \/ Deregister(t)

Spec == Init /\ [][Next]_vars

-----------------------------------------------------------------------------
(* What holds of the barriers between any two of these steps.              *)

\* complete_vfork_registration does not panic: a child that has yet to
\* register finds its parent's barrier pending, or the record its dead parent
\* left.
RegistrationFindsItsParent ==
    \A c \in DOMAIN coming:
        LET p == coming[c] IN
        p \in barriers.tombs \/ (p \in DOMAIN barriers.of /\ barriers.of[p] = Pending)

\* No turn commits while a barrier waits, so each such wait is for a report
\* that is still owed, or that the next pass acts on: the child's registration
\* or teardown, the parent's continuation, or the parent's own death.  So
\* nothing but a lost report makes the wait last until VFORK_BARRIER_VALVE.
BarrierWaitsAreOwed ==
    \A p \in Waits(barriers):
        \/ p \in Range(coming) \cup Range(torn)
        \/ p \in DOMAIN clones /\ clones[p] \in freed \cup {NoThread}
        \/ p \in Completed(barriers) \cup dead
=============================================================================
