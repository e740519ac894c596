-------------------------- MODULE ChildExitSigchld --------------------------
(***************************************************************************)
(* The SIGCHLDs of one parent process: its children's exits, the copies    *)
(* the kernel posts at moments the host chooses, the copies the scheduler  *)
(* sends at their ChildExit timers, guest sends, and the dequeues of the   *)
(* parent's threads, judged by the ledger of ChildExitLedger.  A standard  *)
(* signal has one pending copy per queue, which keeps the siginfo of the   *)
(* first one queued.                                                       *)
(***************************************************************************)
EXTENDS ChildExitLedger, FiniteSets

CONSTANTS
    Leader,             \* the thread whose id is the parent's pid
    Setups              \* the backends and processes considered

Untracked == setup.untracked    \* the children that report no exit status
Killed == setup.killed          \* the children one SIGKILL send kills together
MaxSends == setup.sends         \* bound on the guests' and job-control SIGCHLDs
Flushes == setup.flushes        \* whether the parent may reset its disposition
MayBlockOutside == setup.outside    \* whether a thread may block outside the schedule

ASSUME SigchldAssumption ==
    \A s \in Setups :
        /\ s.children \subseteq Nat \ {0}
        /\ Leader \in s.threads /\ NoThread \notin s.threads
        /\ s.untracked \cap s.killed = {} /\ s.untracked \cup s.killed \subseteq s.children
        /\ {s.models, s.publication, s.flushes, s.outside} \subseteq BOOLEAN
        /\ s.sends \in Nat

VARIABLES
    exited,         \* the children whose exit was granted
    timers,         \* those whose ChildExit timer is armed
    unposted,       \* those whose kernel copy is still to be posted
    ledger,
    shared,         \* the copy pending in the process's shared queue
    private,        \* per thread, the copy pending in its own queue
    held,           \* per thread, a copy taken outside the schedule, not yet reported
    inflight,       \* per thread, the delivery its InboundSignal request asks for
    deferred,       \* BlockedPool::sigchld_deferred
    ready,          \* BlockedPool::sigchld_ready
    sends,          \* the guests' and job-control sends so far
    kicked,         \* history: the children whose timer an empty run queue dispatched
    delivered,      \* history: deliveries, by the child their siginfo names (0: none)
    notified        \* history: the children with a delivery, or a flush, since their exit

kernel == <<shared, private>>
delivery == <<inflight, deferred, ready>>
history == <<kicked, delivered, notified>>
vars == <<setup, exited, timers, unposted, ledger, kernel, held, delivery, sends, history>>

Init ==
    /\ setup \in Setups
    /\ exited = {} /\ timers = {} /\ unposted = {}
    /\ ledger = NewLedger
    /\ shared = NoCopy /\ private = [t \in Threads |-> NoCopy]
    /\ held = [t \in Threads |-> NoCopy]
    /\ inflight = [t \in Threads |-> NoCopy]
    /\ deferred = {} /\ ready = {}
    /\ sends = 0
    /\ delivered = [c \in Children \cup {0} |-> 0]
    /\ kicked = {} /\ notified = {}

\* Linux does not queue a standard signal already pending (legacy_queue).
Queued(pending, copy) == IF pending = NoCopy THEN copy ELSE pending

-----------------------------------------------------------------------------
\* The Exit grant of child c, classified Deliver or Undecided.
Exit(c) ==
    /\ c \notin exited /\ c \notin Killed
    /\ exited' = exited \cup {c}
    /\ timers' = timers \cup {c}
    /\ unposted' = unposted \cup {c}
    /\ ledger' = IF c \in Untracked THEN ledger ELSE Own(ledger, c)
    /\ UNCHANGED <<setup, kernel, held, delivery, sends, history>>

\* own_killed_child_notification, for each child one SIGKILL kills.  The kernel
\* has published them all when the send returns: one copy, naming any of them.
Kill ==
    /\ Killed # {} /\ Killed \cap exited = {}
    /\ exited' = exited \cup Killed
    /\ timers' = timers \cup Killed
    /\ ledger' = [ledger EXCEPT
         !.owned = [c \in Children |-> IF c \in Killed THEN "Unsent" ELSE @[c]],
         !.cohort = @ \cup Killed]
    /\ \E c \in Killed : shared' = Queued(shared, KernelCopy(c))
    /\ UNCHANGED <<setup, unposted, private, held, delivery, sends, history>>

\* The kernel posts its copy of c's exit.
Post(c) ==
    /\ c \in unposted
    /\ unposted' = unposted \ {c}
    /\ shared' = Queued(shared, KernelCopy(c))
    /\ UNCHANGED <<setup, exited, timers, ledger, private, held, delivery, sends, history>>

\* deferred_child_exit_sigchld
StandsIn(t) ==
    /\ t \in deferred
    /\ IF Models THEN t \notin ledger.attributed
       ELSE t = Leader /\ (Publication \/ t \notin ledger.attributed)

\* own_sigchld_thread_directed
ThreadDirected == ~Publication /\ ~Models /\ Cardinality(Threads) = 1

\* The ChildExit branch of dispatch_timed_signal_at: a deferred delivery stands
\* for the exit...
LeaderMarked == ~Models \/ ~WindowUsable(ledger)
TimerStandsIn(c, t) ==
    /\ c \in timers /\ StandsIn(t)
    /\ timers' = timers \ {c}
    /\ deferred' = deferred \ {t}
    /\ ready' = ready \cup {t} \cup (IF LeaderMarked THEN {Leader} ELSE {})
    /\ ledger' = StandIn(ledger, c)
    /\ UNCHANGED <<setup, exited, unposted, kernel, held, inflight, sends, history>>

\* ... or the scheduler sends its copy (send_child_exit_sigchld); for a child it
\* does not own, a plain one.  A receiver armed for the release barrier takes
\* the leader's mark off again.
TimerSends(c) ==
    LET noted == IF Owns(ledger, c) THEN TimerSend(ledger, c) ELSE ledger
        send == IF Owns(ledger, c) THEN ChildSend(c) ELSE OtherSend("scheduler")
        only == CHOOSE t \in Threads : TRUE
    IN  /\ c \in timers /\ ~\E t \in Threads : StandsIn(t)
        /\ ledger.owned[c] # "DeliveredBeforeSend"
        /\ timers' = timers \ {c}
        /\ IF ThreadDirected /\ Owns(ledger, c)
           THEN /\ private' = [private EXCEPT ![only] = Queued(@, SchedulerCopy)]
                /\ ledger' = [noted EXCEPT !.thread_directed[c] = only]
                /\ UNCHANGED shared
           ELSE /\ shared' = Queued(shared, SchedulerCopy)
                /\ ledger' = NoteSend(noted, send)
                /\ UNCHANGED private
        /\ \/ ready' = ready \cup (IF LeaderMarked THEN {Leader} ELSE {})
           \/ Cardinality(Threads) > 1 /\ ready' = ready
        /\ UNCHANGED <<setup, exited, unposted, held, inflight, deferred, sends, history>>

\* ... or sends nothing, because the kernel's copy was delivered before.
TimerQuiet(c) ==
    /\ c \in timers /\ ~\E t \in Threads : StandsIn(t)
    /\ ledger.owned[c] = "DeliveredBeforeSend"
    /\ timers' = timers \ {c}
    /\ ledger' = Forget(ledger, c)
    /\ ready' = ready \cup (IF LeaderMarked /\ Publication THEN {Leader} ELSE {})
    /\ UNCHANGED <<setup, exited, unposted, kernel, held, inflight, deferred, sends, history>>

\* An empty run queue's wake dispatches the timer (step2d_decide_empty_queue and
\* the last branch of dispatch_timed_signal_at), a plain process-directed send.
\* Only without publication does it take the ledger's decision, and then it
\* waits until the children that exited are physically gone.  Deliveries asked
\* for have been granted: a deferred one is readmitted before the queue counts
\* as empty.
TimerAtEmptyQueue(c) ==
    /\ c \in timers
    /\ \A t \in Threads : inflight[t] = NoCopy
    /\ Publication \/ unposted = {}
    /\ timers' = timers \ {c}
    /\ kicked' = kicked \cup {c}
    /\ \/ /\ ~Publication /\ ledger.owned[c] = "DeliveredBeforeSend"
          /\ ledger' = Forget(ledger, c)
          /\ UNCHANGED shared
       \/ /\ Publication \/ ledger.owned[c] # "DeliveredBeforeSend"
          /\ shared' = Queued(shared, SchedulerCopy)
          /\ ledger' = NoteSend(IF Publication \/ ~Owns(ledger, c) THEN ledger
                                ELSE TimerSend(ledger, c), OtherSend("scheduler"))
    /\ UNCHANGED <<setup, exited, unposted, private, held, delivery, sends, delivered, notified>>

\* A guest sends the process a SIGCHLD in its turn (SharedSent) ...
GuestSend ==
    /\ sends < MaxSends
    /\ sends' = sends + 1
    /\ shared' = Queued(shared, OtherCopy)
    /\ ledger' = NoteSend(ledger, OtherSend("guest"))
    /\ UNCHANGED <<setup, exited, timers, unposted, private, held, delivery, history>>

\* ... or one of its threads (PrivateSent).
GuestSendThread(t) ==
    /\ sends < MaxSends
    /\ sends' = sends + 1
    /\ private' = [private EXCEPT ![t] = Queued(@, ThreadCopy)]
    /\ ledger' = IF Models THEN [ledger EXCEPT !.private_sent = @ \cup {t}] ELSE ledger
    /\ UNCHANGED <<setup, exited, timers, unposted, shared, held, delivery, history>>

\* The kernel tells the parent that a child stopped or continued.
JobControl ==
    /\ sends < MaxSends
    /\ sends' = sends + 1
    /\ shared' = Queued(shared, OtherCopy)
    /\ UNCHANGED <<setup, exited, timers, unposted, ledger, private, held, delivery, history>>

\* note_outside_blocker: a thread that could take SIGCHLD blocks outside.
BlockOutside ==
    /\ MayBlockOutside /\ Models /\ ~ledger.outside_taker
    /\ ledger' = [ledger EXCEPT !.outside_taker = TRUE]
    /\ UNCHANGED <<setup, exited, timers, unposted, kernel, held, delivery, sends, history>>

-----------------------------------------------------------------------------
\* A delivery: the handler, or the wait, sees every exit granted so far.
Delivers(copy) ==
    /\ delivered' = [delivered EXCEPT ![copy.child] = @ + 1]
    /\ notified' = exited
    /\ UNCHANGED kicked

\* The ledger's answer to thread t's dequeue of `copy', at a delivery stop
\* (child_exit_sigchld_delivers) or by a wait (synchronous_sigchld_stands).
Report(t, copy, admits) ==
    LET taken == DequeueSigchld(ledger, t, copy, admits)
    IN  /\ ledger' = taken.ledger
        /\ ready' = IF taken.ready THEN ready \cup {t} ELSE ready
        /\ IF taken.copy = NoCopy \/ admits
           THEN UNCHANGED history ELSE Delivers(taken.copy)
        /\ inflight' = IF admits THEN [inflight EXCEPT ![t] = taken.copy] ELSE inflight
        /\ UNCHANGED deferred

\* Linux takes a thread's own queue before the shared one (dequeue_signal).
Pending(t) == IF private[t] # NoCopy THEN private[t] ELSE shared
Dequeues(t) ==
    /\ Pending(t) # NoCopy /\ inflight[t] = NoCopy /\ held[t] = NoCopy
    /\ IF private[t] # NoCopy
       THEN private' = [private EXCEPT ![t] = NoCopy] /\ UNCHANGED shared
       ELSE shared' = NoCopy /\ UNCHANGED private

\* A thread takes its SIGCHLD in the schedule.
Take(t, admits) ==
    /\ Dequeues(t)
    /\ Report(t, Pending(t), admits)
    /\ UNCHANGED <<setup, exited, timers, unposted, held, sends>>

\* A thread outside the schedule takes it, and the ledger learns of it once the
\* thread rejoins.
TakeOutside(t) ==
    /\ ledger.outside_taker
    /\ Dequeues(t)
    /\ held' = [held EXCEPT ![t] = Pending(t)]
    /\ UNCHANGED <<setup, exited, timers, unposted, ledger, delivery, sends, history>>
Rejoin(t, admits) ==
    /\ held[t] # NoCopy
    /\ held' = [held EXCEPT ![t] = NoCopy]
    /\ Report(t, held[t], admits)
    /\ UNCHANGED <<setup, exited, timers, unposted, kernel, sends>>

\* The InboundSignal request is deferred behind runnable work ...
Defer(t) ==
    /\ inflight[t] # NoCopy /\ t \notin deferred /\ t \notin ready
    /\ deferred' = deferred \cup {t}
    /\ UNCHANGED <<setup, exited, timers, unposted, ledger, kernel, held, inflight, ready, sends, history>>

\* ... readmitted (step2e_process_signal_deferred) ...
Readmit(t) ==
    /\ t \in deferred
    /\ deferred' = deferred \ {t}
    /\ ready' = ready \cup {t}
    /\ UNCHANGED <<setup, exited, timers, unposted, ledger, kernel, held, inflight, sends, history>>

\* ... or granted.
Grant(t) ==
    /\ inflight[t] # NoCopy /\ t \notin deferred
    /\ Delivers(inflight[t])
    /\ inflight' = [inflight EXCEPT ![t] = NoCopy]
    /\ ready' = ready \ {t}
    /\ UNCHANGED <<setup, exited, timers, unposted, ledger, kernel, held, deferred, sends>>

\* The parent sets SIGCHLD to SIG_IGN or SIG_DFL: Linux flushes its queues.
\* What it discards no handler was to see.
ResetDisposition ==
    /\ Flushes /\ \E t \in Threads : Pending(t) # NoCopy
    /\ ledger' = Flush(ledger)
    /\ shared' = NoCopy
    /\ private' = [t \in Threads |-> NoCopy]
    /\ notified' = notified \cup (exited \ timers)
    /\ UNCHANGED <<setup, exited, timers, unposted, held, delivery, sends, kicked, delivered>>

Next ==
    \/ \E c \in Children : \/ Exit(c) \/ Post(c) \/ TimerSends(c) \/ TimerQuiet(c)
                           \/ TimerAtEmptyQueue(c)
                           \/ \E t \in Threads : TimerStandsIn(c, t)
    \/ Kill \/ GuestSend \/ JobControl \/ BlockOutside \/ ResetDisposition
    \/ \E t \in Threads :
         \/ GuestSendThread(t) \/ TakeOutside(t)
         \/ Defer(t) \/ Readmit(t) \/ Grant(t)
         \/ \E admits \in {TRUE} \cup {~Publication} : Take(t, admits)
         \/ \E admits \in {TRUE} \cup {~Publication} : Rejoin(t, admits)

Spec == Init /\ [][Next]_vars
-----------------------------------------------------------------------------
Quiescent ==
    /\ timers = {} /\ unposted = {}
    /\ \A t \in Threads : Pending(t) = NoCopy /\ held[t] = NoCopy /\ inflight[t] = NoCopy

\* No exit is lost: whatever merged in the kernel's queues and whatever copy was
\* dropped as a duplicate, once nothing is pending every child's exit was
\* followed by a SIGCHLD delivered to the parent, or discarded by its own reset
\* of the disposition.  It is not so of a process a thread of which blocked
\* outside the schedule, nor, without publication, of a child whose timer an
\* empty run queue dispatched: that copy is recorded as sent but not as one that
\* merges, and goes with the duplicate it merged into.
EveryExitIsNotified ==
    Quiescent /\ ~ledger.outside_taker =>
        exited \subseteq notified \cup (IF Publication THEN {} ELSE kicked)

\* One SIGCHLD per exit, with Linux's siginfo, though two copies of each are
\* sent: the deliveries are no more than the exits and the other SIGCHLDs sent, a
\* child is named again only by a copy that another send merged into, and no
\* delivery shows the tracer as its sender.  An untracked child's two copies both
\* count, and with publication so do those of a child whose timer an empty run
\* queue dispatched, which the ledger does not learn of.
OneSigchldPerExit ==
    LET plain == sends + Cardinality((exited \cap Untracked)
                                        \cup (IF Publication THEN kicked ELSE {}))
    IN  /\ SumFunction(delivered) <= Cardinality(exited) + plain
        /\ \A c \in Children : delivered[c] <= 1 + plain
        /\ delivered[0] <= plain
=============================================================================
