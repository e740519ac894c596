---------------------------- MODULE InstantVfork ----------------------------
(***************************************************************************)
(* The turns Hermit promises around vfork(2), with no host timing in them. *)
(* A vfork's turn suspends the parent and queues its child in one step;    *)
(* the child's exec or exit puts the parent back at the head of the queue  *)
(* in one step; a death takes effect at once.  Whose turn is next is a     *)
(* function of the state, so a scheduler that implements this              *)
(* specification commits the same turns whenever its backend's reports     *)
(* arrive.  The choices left are the guest's (what a turn does), the       *)
(* kernel's (whether a clone fails), an outside kill, and which finished   *)
(* background calls are found when nothing else can run.                   *)
(***************************************************************************)
EXTENDS ThreadQueues

CONSTANTS Threads,      \* thread ids, compared as the scheduler compares them
          Initial,      \* the threads queued at the start
          NoThread      \* no turn is chosen

VARIABLES
    queue,        \* the run queue, one priority band
    chosen,       \* the thread whose turn is next, or NoThread
    suspended,    \* [vfork parent -> its child], while the child is unreleased
    orphaned,     \* the suspended parents that have died
    background,   \* threads in a call the kernel completes in its own time
    waiting,      \* threads only another thread's turn can wake
    unborn        \* ids not used yet

vars == <<queue, chosen, suspended, orphaned, background, waiting, unborn>>

Live == Range(queue) \cup background \cup waiting \cup (DOMAIN suspended \ orphaned)

-----------------------------------------------------------------------------
\* Parents whose child is queued in q, and parents whose child is in a
\* background call: the lowest parent's child goes first, and is waited for.
QueuedChild(q) == {p \in DOMAIN suspended: suspended[p] \in Range(q)}

AwaitedChild(q, bg) == IF QueuedChild(q) # {} THEN {}
                       ELSE {p \in DOMAIN suspended: suspended[p] \in bg}

NextThread(q, bg) ==
    IF QueuedChild(q) # {} THEN suspended[Min(QueuedChild(q))]
    ELSE IF AwaitedChild(q, bg) # {} \/ q = <<>> THEN NoThread
    ELSE Head(q)

\* The parents a child's exec, exit or death releases.
ParentsOf(c) == {p \in DOMAIN suspended: suspended[p] = c}

-----------------------------------------------------------------------------
Init ==
    /\ queue = Sorted(Initial)
    /\ chosen = NoThread
    /\ suspended = <<>>
    /\ orphaned = {}
    /\ background = {}
    /\ waiting = {}
    /\ unborn = Threads \ Initial

\* The next thread is chosen.  While other threads are queued only an awaited
\* child's call is found finished; with nothing queued any finished calls are.
Found ==
    IF queue = <<>> THEN SUBSET background
    ELSE {{}} \cup {{suspended[Min(AwaitedChild(queue, background))]}:
                        p \in AwaitedChild(queue, background)}

Choose ==
    /\ chosen = NoThread
    /\ \E S \in Found:
        /\ queue' = PushedFront(S, queue)
        /\ background' = background \ S
    /\ chosen' \in {NoThread, NextThread(queue', background')}
    /\ UNCHANGED <<suspended, orphaned, waiting, unborn>>

Turn(t) == t # NoThread /\ chosen = t /\ chosen' = NoThread

Step(t) ==
    /\ Turn(t)
    /\ queue' = Append(Without(queue, {t}), t)
    /\ UNCHANGED <<suspended, orphaned, background, waiting, unborn>>

Vfork(t, c) ==
    /\ Turn(t) /\ c \in unborn
    /\ queue' = Append(Without(queue, {t}), c)
    /\ suspended' = Bind(suspended, t, c)
    /\ unborn' = unborn \ {c}
    /\ UNCHANGED <<orphaned, background, waiting>>

\* The clone fails, or its child dies before it runs: the parent's call
\* finishes as any background call does.
VforkFails(t) ==
    /\ Turn(t)
    /\ queue' = Without(queue, {t})
    /\ background' = background \cup {t}
    /\ unborn' \in {unborn} \cup {unborn \ {c}: c \in unborn}
    /\ UNCHANGED <<suspended, orphaned, waiting>>

BeginCall(t) ==
    /\ Turn(t)
    /\ queue' = Without(queue, {t})
    /\ background' = background \cup {t}
    /\ UNCHANGED <<suspended, orphaned, waiting, unborn>>

Wait(t) ==
    /\ Turn(t)
    /\ queue' = Without(queue, {t})
    /\ waiting' = waiting \cup {t}
    /\ UNCHANGED <<suspended, orphaned, background, unborn>>

Wake(t, u) ==
    /\ Turn(t) /\ u \in waiting
    /\ queue' = Append(Append(Without(queue, {t}), t), u)
    /\ waiting' = waiting \ {u}
    /\ UNCHANGED <<suspended, orphaned, background, unborn>>

\* An exec or exit: a live parent is first in the queue at once.
Releases(t, q) ==
    /\ Turn(t)
    /\ queue' = PushedFront(ParentsOf(t) \ orphaned, q)
    /\ suspended' = Limited(suspended, ParentsOf(t))
    /\ orphaned' = orphaned \ ParentsOf(t)
    /\ UNCHANGED <<background, waiting, unborn>>

Exec(t) == Releases(t, Append(Without(queue, {t}), t))

Exit(t) == Releases(t, Without(queue, {t}))

\* u is gone: the parent it suspended finishes its call like any other
\* background call, and the child it suspends still runs first.
Gone(u, q) ==
    /\ u \in Live
    /\ queue' = Without(q, {u})
    /\ suspended' = Limited(suspended, ParentsOf(u))
    /\ orphaned' = (orphaned \cup ({u} \cap DOMAIN suspended)) \ ParentsOf(u)
    /\ background' = (background \cup (ParentsOf(u) \ orphaned)) \ {u}
    /\ waiting' = waiting \ {u}
    /\ UNCHANGED unborn

Kill(t, u) == Turn(t) /\ u # t /\ Gone(u, Append(Without(queue, {t}), t))

\* An exec that ends its sibling u, and with it the interval u suspended.
ExecEnds(t, u) ==
    /\ Turn(t) /\ u # t /\ u \in Live
    /\ ParentsOf(t) = {}
    /\ queue' = Without(Append(Without(queue, {t}), t), {u})
    /\ suspended' = Limited(suspended, {u} \cup ParentsOf(u))
    /\ orphaned' = orphaned \ ({u} \cup ParentsOf(u))
    /\ background' = (background \cup (ParentsOf(u) \ orphaned)) \ {u}
    /\ waiting' = waiting \ {u}
    /\ UNCHANGED unborn

Dies(u) == Gone(u, queue) /\ chosen' = IF chosen = u THEN NoThread ELSE chosen

Next ==
    \/ \E t \in Threads:
        \/ Step(t) \/ VforkFails(t) \/ BeginCall(t) \/ Wait(t) \/ Exec(t) \/ Exit(t)
        \/ \E u \in Threads: Vfork(t, u) \/ Wake(t, u) \/ Kill(t, u) \/ ExecEnds(t, u)
        \/ Dies(t)
    \/ Choose

Spec == Init /\ [][Next]_vars
=============================================================================
