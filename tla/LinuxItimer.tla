---------------------------- MODULE LinuxItimer ----------------------------
(***************************************************************************)
(* A periodic or one-shot ITIMER_REAL of one process as Linux runs it, and *)
(* as scheduler/itimer_coalesce.rs describes it: an expiry sends SIGALRM   *)
(* to the leader and stops the timer, and only a dequeue of a SIGALRM from *)
(* the shared queue, whatever sent it, restarts a periodic one.  This is   *)
(* what both of the scheduler's timers promise.                            *)
(***************************************************************************)
CONSTANT NamespaceInit      \* whether the process is a PID namespace's init

VARIABLES
    timer,      \* "none", "armed", or "waiting" for a dequeue
    periodic,   \* whether the timer has an interval
    pending,    \* whether the shared queue holds a SIGALRM
    disp,       \* the disposition of SIGALRM: "ign", "dfl" or "caught"
    blocked,    \* whether the leader blocks SIGALRM
    answer      \* the last value a getitimer or setitimer read: "zero" or "positive"

vars == <<timer, periodic, pending, disp, blocked, answer>>

Dispositions == {"ign", "dfl", "caught"}

Init ==
    /\ timer = "none" /\ periodic = FALSE /\ pending = FALSE
    /\ disp \in Dispositions /\ blocked \in BOOLEAN
    /\ answer = "zero"

\* sig_ignored of the leader, with the disposition d and the mask bit b.
IgnoredWith(d, b) == (d = "ign" \/ (d = "dfl" /\ NamespaceInit)) /\ ~b
Ignored == IgnoredWith(disp, blocked)

Remaining == IF timer = "armed" THEN "positive" ELSE "zero"

SetItimer(value, interval) ==
    /\ timer' = IF value THEN "armed" ELSE "none"
    /\ periodic' = (value /\ interval)
    /\ answer' = Remaining
    /\ UNCHANGED <<pending, disp, blocked>>

GetItimer == answer' = Remaining /\ UNCHANGED <<timer, periodic, pending, disp, blocked>>

Stopped == IF periodic THEN "waiting" ELSE "none"

\* The leader, which leaves the signal unblocked, may take a pending copy
\* just before the expiry that it ignores.
Expire ==
    /\ timer = "armed"
    /\ timer' = Stopped
    /\ IF Ignored THEN pending' \in {pending, FALSE} ELSE pending' = TRUE
    /\ UNCHANGED <<periodic, disp, blocked, answer>>

Send ==
    /\ pending' = (pending \/ ~Ignored)
    /\ UNCHANGED <<timer, periodic, disp, blocked, answer>>

Dequeue ==
    /\ pending
    /\ pending' = FALSE
    /\ timer' = IF timer = "waiting" THEN "armed" ELSE timer
    /\ UNCHANGED <<periodic, disp, blocked, answer>>

\* Setting SIG_IGN flushes the queue, which is no dequeue.
Sigaction(d) ==
    /\ disp' = d
    /\ pending' = (pending /\ d # "ign")
    /\ UNCHANGED <<timer, periodic, blocked, answer>>

Mask(b) == blocked' = b /\ UNCHANGED <<timer, periodic, pending, disp, answer>>

\* exec resets a handler, and the caller's mask becomes the leader's.  The
\* timer goes on, and may expire at its end.
Exec(d, b) ==
    /\ d \in {disp, IF disp = "caught" THEN "dfl" ELSE disp}
    /\ disp' = d /\ blocked' = b
    /\ \/ UNCHANGED <<timer, pending>>
       \/ /\ timer = "armed" /\ timer' = Stopped
          /\ IF IgnoredWith(d, b) THEN pending' \in {pending, FALSE} ELSE pending' = TRUE
    /\ UNCHANGED <<periodic, answer>>

\* The process is gone and another one has its pid.
Replaced ==
    /\ timer' = "none" /\ periodic' = FALSE /\ pending' = FALSE
    /\ disp' \in Dispositions /\ blocked' \in BOOLEAN
    /\ answer' = "zero"

Next ==
    \/ \E value, interval \in BOOLEAN : SetItimer(value, interval)
    \/ GetItimer \/ Expire \/ Send \/ Dequeue
    \/ \E d \in Dispositions : Sigaction(d)
    \/ \E b \in BOOLEAN : Mask(b)
    \/ \E d \in Dispositions, b \in BOOLEAN : Exec(d, b)
    \/ Replaced

Spec == Init /\ [][Next]_vars
=============================================================================
