---------------------------- MODULE TracedItimer ----------------------------
(***************************************************************************)
(* The traced path's ITIMER_REAL of one process                            *)
(* (scheduler/itimer_coalesce.rs over scheduler/timed_waiters.rs).  The    *)
(* kernel's own timer is not used: the scheduler pops the expiry, sends a  *)
(* SIGALRM, and learns of its dequeue only by reading the shared queue at  *)
(* its reconcile points.  Logical time is left out: an active timer may    *)
(* expire at any pass (TimedEvents has the deadlines and their grid).      *)
(***************************************************************************)
CONSTANT
    NamespaceInit   \* whether the process is a PID namespace's init

VARIABLES
    at,             \* "turn": a thread runs; "stopped": it stopped at a signal's
                    \* delivery and filed InboundSignal; "pass": quiesced
    phase,          \* the alarm's phase: "none", "active" or "inactive"
    copy,           \* AlarmPhase::Inactive's copy
    periodic,       \* whether the alarm has an interval
    visible,        \* the conditions of alarm_observable_now
    unobservable,   \* alarm_unobservable
    barrier,        \* exec_teardowns holds the process
    deferred,       \* alarm_exec_deferred holds it
    queue,          \* the shared queue's SIGALRM: "none", "copy", or a "phantom"
                    \* that only ptrace keeps (Linux drops it when it is sent)
    disp, blocked,  \* SIGALRM's disposition, and the leader's mask bit
    answer          \* the last value a getitimer or setitimer read

alarm == <<phase, copy, periodic>>
vars == <<at, alarm, visible, unobservable, barrier, deferred, queue, disp, blocked, answer>>

Dispositions == {"ign", "dfl", "caught"}

Init ==
    /\ at = "turn"
    /\ phase = "none" /\ copy = FALSE /\ periodic = FALSE
    /\ visible = TRUE /\ unobservable = FALSE
    /\ barrier = FALSE /\ deferred = FALSE
    /\ queue = "none"
    /\ disp \in Dispositions /\ blocked \in BOOLEAN
    /\ answer = "zero"

-----------------------------------------------------------------------------
\* leader_ignores_sigalrm, with the disposition d and the mask bit b.
Ignores(d, b) == (d = "ign" \/ (d = "dfl" /\ NamespaceInit)) /\ ~b

\* What the queue holds after a send: one the leader ignores is a phantom.
Sent(q, ignored) == IF ~ignored THEN "copy" ELSE IF q = "none" THEN "phantom" ELSE q

\* alarm_observable, which commits the loss of observability.
Observable == visible /\ ~unobservable
CommitsObservability == unobservable' = (unobservable \/ ~visible)

\* Mutant of Rearms: a process that stopped being observable waits on.
Rearms_observable(ph, c, q) == ph = "inactive" /\ Observable /\ c /\ q = "none"

\* Whether reconcile_alarm re-arms an alarm of phase ph and copy c, with the
\* queue q: its copy was dequeued, or the process is no longer observable.
Rearms(ph, c, q) == ph = "inactive" /\ (~Observable \/ (c /\ q = "none"))

\* Its check of observability, which it makes only for an inactive alarm.
Checked(ph) == IF ph = "inactive" THEN CommitsObservability ELSE UNCHANGED unobservable

\* reconcile_alarm, outside an exec barrier.
Reconcile(q) ==
    /\ phase' = IF Rearms(phase, copy, q) THEN "active" ELSE phase
    /\ copy' = (copy /\ phase' = "inactive")
    /\ Checked(phase)

-----------------------------------------------------------------------------
\* Guest code of the process runs, outside its execve.
Runs == at = "turn" /\ ~barrier

\* setitimer: RegisterAlarm reconciles first (O1), then register_alarm.
SetItimer(value, interval) ==
    LET reconciled == IF Rearms(phase, copy, queue) THEN "active" ELSE phase
    IN  /\ Runs
        /\ answer' = IF reconciled = "active" THEN "positive" ELSE "zero"
        /\ phase' = IF value THEN "active" ELSE "none"
        /\ copy' = FALSE
        /\ periodic' = (value /\ interval)
        /\ Checked(phase)
        /\ UNCHANGED <<at, visible, barrier, deferred, queue, disp, blocked>>

\* getitimer: AlarmRemaining (O1).
GetItimer ==
    /\ Runs
    /\ Reconcile(queue)
    /\ answer' = IF phase' = "active" THEN "positive" ELSE "zero"
    /\ UNCHANGED <<at, periodic, visible, barrier, deferred, queue, disp, blocked>>

\* A signalfd read or rt_sigtimedwait takes the pending copy, and its end
\* reconciles (O2).
Take ==
    /\ Runs /\ queue # "none"
    /\ queue' = "none"
    /\ Reconcile("none")
    /\ UNCHANGED <<at, periodic, visible, barrier, deferred, disp, blocked, answer>>

\* The kernel dequeues the copy for a delivery: the thread files InboundSignal
\* before it runs anything.
Deliver ==
    /\ Runs /\ queue # "none"
    /\ queue' = "none"
    /\ at' = "stopped"
    /\ UNCHANGED <<alarm, visible, unobservable, barrier, deferred, disp, blocked, answer>>

\* note_guest_sigalrm (rule 4): an inactive alarm without a known copy has one
\* now, unless the leader ignores it.
NoteSigalrm ==
    copy' = (copy \/ (phase = "inactive" /\ ~Ignores(disp, blocked)))

\* A guest's kill or rt_sigqueueinfo, of this process or another, in its turn;
\* or a POSIX timer's SIGALRM, at a pass.
Send ==
    /\ at \in {"turn", "pass"}
    /\ queue' = Sent(queue, Ignores(disp, blocked))
    /\ NoteSigalrm
    /\ UNCHANGED <<at, phase, periodic, visible, unobservable, barrier, deferred, disp, blocked, answer>>

\* A send whose targets cannot be classified (a pidfd, a nested namespace).
SendUnclassified ==
    /\ at = "turn"
    /\ queue' = Sent(queue, Ignores(disp, blocked))
    /\ unobservable' = (unobservable \/ phase = "inactive")
    /\ UNCHANGED <<at, alarm, visible, barrier, deferred, disp, blocked, answer>>

\* Mutant of NoteDisposition: the flush is taken for nothing.
NoteDisposition_kept(d) == UNCHANGED copy

\* note_sigalrm_disposition (rule 5): SIG_IGN flushes the queue.
NoteDisposition(d) == copy' = (copy /\ d # "ign")

Sigaction(d) ==
    /\ Runs
    /\ disp' = d
    /\ queue' = IF d = "ign" THEN "none" ELSE queue
    /\ NoteDisposition(d)
    /\ UNCHANGED <<at, phase, periodic, visible, unobservable, barrier, deferred, blocked, answer>>

\* The leader changes its mask: an unblocked pending copy stops it first.
Mask(b) ==
    /\ Runs
    /\ blocked \/ queue = "none"
    /\ blocked' = b
    /\ UNCHANGED <<at, alarm, visible, unobservable, barrier, deferred, queue, disp, answer>>

\* The conditions of alarm_observable_now change: a thread runs outside the
\* schedule, a child with exit signal SIGALRM is created or reaped.
Hide(v) ==
    /\ at = "turn"
    /\ visible' = v
    /\ UNCHANGED <<at, alarm, unobservable, barrier, deferred, queue, disp, blocked, answer>>

-----------------------------------------------------------------------------
\* A quiesced boundary (O3): reconcile_inactive_alarms, before the next pass.
Boundary ==
    /\ at \in {"turn", "stopped"}
    /\ at' = "pass"
    /\ IF barrier THEN UNCHANGED <<phase, copy, unobservable>> ELSE Reconcile(queue)
    /\ UNCHANGED <<periodic, visible, barrier, deferred, queue, disp, blocked, answer>>

\* The pass grants a turn.
Grant ==
    /\ at = "pass"
    /\ at' = "turn"
    /\ UNCHANGED <<alarm, visible, unobservable, barrier, deferred, queue, disp, blocked, answer>>

\* An expiry the leader ignores does not look at the queue.  A copy pending
\* there is one the leader, which leaves it unblocked, is about to take: it
\* counts as taken before the expiry, and what is left of it as a phantom.
Discarded(q) == IF q = "copy" THEN "phantom" ELSE q

\* pop_if_before and fire_itimer_real.  A send that does not land leaves the
\* timer armed, and a leader whose state cannot be read makes it unobservable.
Pop ==
    /\ at = "pass" /\ phase = "active"
    /\ \/ /\ ~periodic
          /\ phase' = "none"
          /\ queue' = Sent(queue, Ignores(disp, blocked))
          /\ UNCHANGED <<copy, unobservable, deferred>>
       \/ /\ periodic /\ barrier
          /\ phase' = "inactive" /\ copy' = FALSE
          /\ deferred' = TRUE
          /\ UNCHANGED <<unobservable, queue>>
       \/ /\ periodic /\ ~barrier /\ ~Observable
          /\ queue' = Sent(queue, Ignores(disp, blocked))
          /\ CommitsObservability
          /\ UNCHANGED <<phase, copy, deferred>>
       \/ /\ periodic /\ ~barrier /\ Observable
          /\ phase' = "inactive"
          /\ copy' = ~Ignores(disp, blocked)
          /\ queue' = IF Ignores(disp, blocked) THEN Discarded(queue) ELSE "copy"
          /\ UNCHANGED <<unobservable, deferred>>
       \/ /\ periodic /\ ~barrier /\ Observable
          /\ unobservable' = TRUE
          /\ queue' = Sent(queue, Ignores(disp, blocked))
          /\ UNCHANGED <<phase, copy, deferred>>
    /\ UNCHANGED <<at, periodic, visible, barrier, disp, blocked, answer>>

-----------------------------------------------------------------------------
\* execve starts to tear the process down.
ExecStarts ==
    /\ Runs
    /\ barrier' = TRUE
    /\ UNCHANGED <<at, alarm, visible, unobservable, deferred, queue, disp, blocked, answer>>

\* finish_exec_alarm, with the disposition d and the leader's mask bit b: the
\* deferred expiry is decided, by a send that lands or does not, or without
\* knowing the leader's state; then the barrier's reconcile runs.
FinishExecAlarm(d, b) ==
    \/ /\ deferred /\ Observable /\ ~Ignores(d, b)
       /\ \/ copy' = TRUE /\ queue' = "copy" /\ UNCHANGED phase
          \/ copy' = FALSE /\ phase' = "active" /\ UNCHANGED queue
       /\ UNCHANGED unobservable
    \/ /\ deferred
       /\ queue' = Sent(queue, Ignores(d, b))
       /\ phase' = "active" /\ copy' = FALSE
       /\ unobservable' = TRUE
    \/ /\ ~deferred \/ (Observable /\ Ignores(d, b))
       /\ queue' = IF deferred /\ ~copy THEN Discarded(queue) ELSE queue
       /\ Reconcile(queue)

\* The barrier ends: a successful exec resets a handler, and its caller becomes
\* the leader.
ExecEnds(succeeded, b) ==
    LET d == IF succeeded /\ disp = "caught" THEN "dfl" ELSE disp
    IN  /\ at = "turn" /\ barrier
        /\ ~succeeded => b = blocked
        /\ barrier' = FALSE /\ deferred' = FALSE
        /\ disp' = d /\ blocked' = b
        /\ FinishExecAlarm(d, b)
        /\ UNCHANGED <<at, periodic, visible, answer>>

-----------------------------------------------------------------------------
Next ==
    \/ \E value, interval \in BOOLEAN : SetItimer(value, interval)
    \/ GetItimer \/ Take \/ Deliver \/ Send \/ SendUnclassified
    \/ \E d \in Dispositions : Sigaction(d)
    \/ \E b \in BOOLEAN : Mask(b) \/ Hide(b)
    \/ Boundary \/ Grant \/ Pop
    \/ ExecStarts
    \/ \E succeeded, b \in BOOLEAN : ExecEnds(succeeded, b)

-----------------------------------------------------------------------------
\* The timer the guest can tell: a deferred expiry has not happened yet, and a
\* copy that left the queue has restarted the timer.
LinuxTimer ==
    IF phase = "none" THEN "none"
    ELSE IF phase = "active" \/ deferred \/ (copy /\ queue = "none") THEN "armed"
    ELSE "waiting"

Linux == INSTANCE LinuxItimer WITH timer <- LinuxTimer, pending <- (queue = "copy")
=============================================================================
