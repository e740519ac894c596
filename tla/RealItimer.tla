----------------------------- MODULE RealItimer -----------------------------
(***************************************************************************)
(* A process's ITIMER_REAL under either backend: signal_control_installed  *)
(* decides at each of the scheduler's entry points which implementation    *)
(* the timer has, the traced one (TracedItimer) or the controlled one      *)
(* (ControlledItimer).  Both promise the timer of Linux (LinuxItimer).     *)
(***************************************************************************)
EXTENDS Integers

CONSTANTS
    NamespaceInit,  \* whether the process is a PID namespace's init
    MaxDequeues,    \* bound on the dequeues of one process
    MaxLives        \* bound on the processes that have the pid

ASSUME ItimerAssumption ==
    NamespaceInit \in BOOLEAN /\ MaxDequeues \in Nat /\ MaxLives \in Nat \ {0}

VARIABLES
    signal_control,                                   \* signal_control_installed
    at, phase, periodic, queue, disp, blocked, answer,
    copy, visible, unobservable, barrier, deferred,            \* traced only
    life, retired, sequence, last, report, late, failed    \* controlled only

traced == <<copy, visible, unobservable, barrier, deferred>>
controlled == <<life, retired, sequence, last, report, late, failed>>
vars == <<signal_control, at, phase, periodic, queue, disp, blocked, answer, traced, controlled>>

Traced == INSTANCE TracedItimer
Controlled == INSTANCE ControlledItimer

\* What the other implementation's fields hold is never read.
Init ==
    \/ /\ signal_control = FALSE /\ Traced!Init
       /\ life = 0 /\ retired = FALSE /\ sequence = <<>> /\ last = <<>>
       /\ report = Controlled!NoReport /\ late = {} /\ failed = FALSE
    \/ /\ signal_control = TRUE /\ Controlled!Init
       /\ copy = FALSE /\ visible = FALSE /\ unobservable = FALSE
       /\ barrier = FALSE /\ deferred = FALSE

Next ==
    /\ UNCHANGED signal_control
    /\ IF signal_control THEN Controlled!Next /\ UNCHANGED traced
                         ELSE Traced!Next /\ UNCHANGED controlled

Spec == Init /\ [][Next]_vars

-----------------------------------------------------------------------------
\* What the guest sees of a traced timer (when it expires, whether the expiry
\* sends, what restarts it, what getitimer and setitimer read) is Linux's
\* ITIMER_REAL for as long as its dequeues can be observed, though the scheduler
\* sees only the queue at its reconcile points, ptrace keeps copies Linux drops,
\* and an exec hides the leader's mask for a while (reconcile_alarm).
TracedImplementsLinux ==
    /\ ~signal_control => Traced!Linux!Init
    /\ [][~signal_control /\ Traced!Observable /\ Traced!Observable'
           => Traced!Linux!Next \/ UNCHANGED Traced!Linux!vars]_vars

\* A controlled timer is Linux's ITIMER_REAL: only a dequeue of its own process's
\* shared SIGALRM restarts a waiting timer, once however often it is reported,
\* and no report of a process that had the pid before (RealTimers::dequeue).
ControlledImplementsLinux ==
    /\ signal_control => Controlled!Linux!Init
    /\ [][signal_control
           => Controlled!Linux!Next \/ UNCHANGED Controlled!Linux!vars]_vars

\* At a pass, a timer waits only for a dequeue the scheduler will see: its process
\* is observable, and a known copy is still in the queue.  So no timer whose
\* process ran outside the schedule, or whose copy was taken, waits for ever.
WaitsForADequeue ==
    ~signal_control /\ at = "pass" /\ phase = "inactive" /\ ~barrier =>
        /\ Traced!Observable
        /\ copy => queue = "copy"
=============================================================================
