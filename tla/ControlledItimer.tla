-------------------------- MODULE ControlledItimer --------------------------
(***************************************************************************)
(* The ITIMER_REAL of a process whose backend owns its signals             *)
(* (scheduler/real_timer.rs, driven by scheduler/parked.rs; KVM).  The     *)
(* backend publishes each expiry's SIGALRM and reports every dequeue, with *)
(* its process generation and sequence number, until the report is         *)
(* acknowledged.  Reports can be repeated, and those of a process that is  *)
(* gone can arrive when another process has its pid.                       *)
(***************************************************************************)
EXTENDS Integers

CONSTANTS
    NamespaceInit,  \* whether the process is a PID namespace's init
    MaxDequeues,    \* bound on the dequeues of one process
    MaxLives        \* bound on the processes that have the pid

Lives == 1..MaxLives

VARIABLES
    at,             \* "turn": a thread runs; "reporting": its backend reports a dequeue;
                    \* "stopped": it filed InboundSignal; "pass": quiesced
    life,           \* the current process's generation
    retired,        \* whether it is retired
    phase,          \* "disarmed", "active", "inactive", "dequeued"
    periodic,       \* whether the arm has an interval
    sequence,       \* per generation, the accepted dequeues
    last,           \* per generation, last_dequeue: 0 or its sequence number
    report,         \* the dequeue being reported
    late,           \* reports of earlier processes that may still arrive
    failed,         \* fail_parked: the run has failed
    queue,          \* whether the shared queue holds a SIGALRM
    disp, blocked,  \* SIGALRM's disposition, and the leader's mask bit
    answer          \* the last value a getitimer or setitimer read

backend == <<report, late>>
guest == <<queue, disp, blocked>>
vars == <<at, life, retired, phase, periodic, sequence, last, backend, failed, guest, answer>>

Dispositions == {"ign", "dfl", "caught"}

\* A report: the generation, the sequence number, whether a process-directed
\* SIGALRM was dequeued, and whether the dequeue is a synchronous read's.
NoReport == [life |-> 0, seq |-> 0, alarm |-> FALSE, read |-> FALSE]

Init ==
    /\ at = "turn" /\ life = 1 /\ retired = FALSE
    /\ phase = "disarmed" /\ periodic = FALSE
    /\ sequence = [l \in Lives |-> 0] /\ last = [l \in Lives |-> 0]
    /\ report = NoReport /\ late = {}
    /\ failed = FALSE
    /\ queue = FALSE /\ disp \in Dispositions /\ blocked \in BOOLEAN
    /\ answer = "zero"

\* The backend ignores the signal when it is published.
Ignores == (disp = "ign" \/ (disp = "dfl" /\ NamespaceInit)) /\ ~blocked

Runs == at = "turn" /\ ~retired /\ ~failed

\* reconcile: a timer whose copy was dequeued restarts.
Reconciled == IF phase = "dequeued" /\ ~retired THEN "active" ELSE phase

-----------------------------------------------------------------------------
\* setitimer reconciles (O1), then replaces the arm; a copy already published
\* stays pending.
SetItimer(value, interval) ==
    /\ Runs
    /\ answer' = IF Reconciled = "active" THEN "positive" ELSE "zero"
    /\ phase' = IF value THEN "active" ELSE "disarmed"
    /\ periodic' = (value /\ interval)
    /\ UNCHANGED <<at, life, retired, sequence, last, backend, failed, guest>>

\* getitimer (O1): the snapshot after the reconcile.
GetItimer ==
    /\ Runs
    /\ phase' = Reconciled
    /\ answer' = IF Reconciled = "active" THEN "positive" ELSE "zero"
    /\ UNCHANGED <<at, life, retired, periodic, sequence, last, backend, failed, guest>>

Send ==
    /\ at \in {"turn", "pass"} /\ ~retired /\ ~failed
    /\ queue' = (queue \/ ~Ignores)
    /\ UNCHANGED <<at, life, retired, phase, periodic, sequence, last, backend,
                   failed, disp, blocked, answer>>

Sigaction(d) ==
    /\ Runs
    /\ disp' = d
    /\ queue' = (queue /\ d # "ign")
    /\ UNCHANGED <<at, life, retired, phase, periodic, sequence, last, backend,
                   failed, blocked, answer>>

Mask(b) ==
    /\ Runs
    /\ blocked' = b
    /\ UNCHANGED <<at, life, retired, phase, periodic, sequence, last, backend,
                   failed, queue, disp, answer>>

\* expire, publish_alarm and publication, under one lock.
Pop ==
    /\ at = "pass" /\ ~retired /\ ~failed
    /\ phase = "active"
    /\ phase' = "inactive"
    /\ queue' = (queue \/ ~Ignores)
    /\ UNCHANGED <<at, life, retired, periodic, sequence, last, backend, failed,
                   disp, blocked, answer>>

-----------------------------------------------------------------------------
\* The backend dequeues a signal for the running thread: the shared SIGALRM, or
\* another one.  It reports the dequeue before the thread goes on.
Dequeue(alarm, read) ==
    /\ Runs /\ sequence[life] < MaxDequeues
    /\ alarm => queue
    /\ queue' = (queue /\ ~alarm)
    /\ report' = [life |-> life, seq |-> sequence[life] + 1, alarm |-> alarm, read |-> read]
    /\ at' = "reporting"
    /\ UNCHANGED <<life, retired, phase, periodic, sequence, last, late, failed,
                   disp, blocked, answer>>

\* Mutant of Restarts: any dequeue restarts the pid's current timer.
Restarts_anyLife(r) == r.alarm /\ ~retired /\ periodic /\ phase = "inactive"

\* Whether the report marks the current timer dequeued.
Restarts(r) == r.alarm /\ r.life = life /\ ~retired /\ periodic /\ phase = "inactive"

\* RealTimers::dequeue: a repeated report is acknowledged again; one out of
\* sequence fails the run.
Apply(r) ==
    IF last[r.life] = r.seq THEN UNCHANGED <<phase, sequence, last, failed>>
    ELSE IF r.seq # sequence[r.life] + 1
    THEN failed' = TRUE /\ UNCHANGED <<phase, sequence, last>>
    ELSE /\ phase' = IF Restarts(r) THEN "dequeued" ELSE phase
         /\ sequence' = [sequence EXCEPT ![r.life] = r.seq]
         /\ last' = [last EXCEPT ![r.life] = r.seq]
         /\ UNCHANGED failed

\* The report arrives, again if its acknowledgment was lost.
Report ==
    /\ at = "reporting" /\ ~failed
    /\ Apply(report)
    /\ UNCHANGED <<at, life, retired, periodic, backend, guest, answer>>

\* Its acknowledgment arrives.  A read's end reconciles (O2); a delivery files
\* InboundSignal.
Acknowledged ==
    /\ at = "reporting" /\ ~failed
    /\ last[life] = report.seq
    /\ at' = IF report.read THEN "turn" ELSE "stopped"
    /\ phase' = IF report.read THEN Reconciled ELSE phase
    /\ report' = NoReport
    /\ UNCHANGED <<life, retired, periodic, sequence, last, late, failed, guest, answer>>

\* A quiesced boundary reconciles (O3).
Boundary ==
    /\ at \in {"turn", "stopped"} /\ ~failed
    /\ at' = "pass"
    /\ phase' = Reconciled
    /\ UNCHANGED <<life, retired, periodic, sequence, last, backend, failed, guest, answer>>

Grant ==
    /\ at = "pass" /\ ~failed
    /\ at' = "turn"
    /\ UNCHANGED <<life, retired, phase, periodic, sequence, last, backend, failed, guest, answer>>

-----------------------------------------------------------------------------
\* retire_process: the process is gone, perhaps before its report arrived.
Retire ==
    /\ ~retired /\ ~failed /\ life < MaxLives
    /\ retired' = TRUE
    /\ phase' = "disarmed" /\ periodic' = FALSE
    /\ late' = late \cup (IF at = "reporting" THEN {report} ELSE {})
    /\ report' = NoReport
    /\ at' = IF at = "reporting" THEN "turn" ELSE at
    /\ queue' = FALSE /\ answer' = "zero"
    /\ UNCHANGED <<life, sequence, last, failed, disp, blocked>>

\* bind: another process has the pid.
Bind ==
    /\ at = "turn" /\ retired /\ ~failed
    /\ life' = life + 1 /\ retired' = FALSE
    /\ disp' \in Dispositions /\ blocked' \in BOOLEAN
    /\ UNCHANGED <<at, phase, periodic, sequence, last, backend, failed, queue, answer>>

\* A late report of a process that is gone arrives, once or again.
LateReport(r) ==
    /\ r \in late /\ ~failed
    /\ Apply(r)
    /\ UNCHANGED <<at, life, retired, periodic, backend, guest, answer>>

-----------------------------------------------------------------------------
Next ==
    \/ \E value, interval \in BOOLEAN : SetItimer(value, interval)
    \/ GetItimer \/ Send \/ Pop
    \/ \E d \in Dispositions : Sigaction(d)
    \/ \E b \in BOOLEAN : Mask(b)
    \/ \E alarm, read \in BOOLEAN : Dequeue(alarm, read)
    \/ Report \/ Acknowledged \/ Boundary \/ Grant
    \/ Retire \/ Bind
    \/ \E r \in late : LateReport(r)

-----------------------------------------------------------------------------
\* The timer the guest can tell: a dequeue that is reported, or about to be, has
\* restarted it.
LinuxTimer ==
    IF phase \in {"active", "dequeued"} THEN "armed"
    ELSE IF phase = "inactive" /\ periodic
    THEN IF at = "reporting" /\ report.alarm /\ last[life] # report.seq
         THEN "armed" ELSE "waiting"
    ELSE "none"

Linux == INSTANCE LinuxItimer WITH timer <- LinuxTimer, pending <- queue
=============================================================================
