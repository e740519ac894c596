---------------------------- MODULE TimedEvents ----------------------------
(***************************************************************************)
(* The scheduler's timed events: every action is one handler of            *)
(* detcore/src/scheduler.rs, scheduler/itimer_coalesce.rs,                 *)
(* scheduler/posix_timer_coalesce.rs or scheduler/parked.rs with all the   *)
(* calls it makes into TimedEvents under the scheduler's lock.             *)
(***************************************************************************)
EXTENDS TimedEventsOps

CONSTANT
    Intervals       \* the periods guests ask for; 0 is a one-shot timer

ASSUME TimerAssumption == Intervals \subseteq Times

VARIABLES
    signal_control,  \* signal_control_installed: alarms are controlled ones
    ev,              \* Blocked::timed_waiters
    committed_time,  \* Scheduler::committed_time
    global_time,     \* the shared GlobalTime, at or ahead of it
    popped,          \* what this step popped, with its deadline (history)
    armed            \* the first deadline of each timer's arming (history)

vars == <<signal_control, ev, committed_time, global_time, popped, armed>>

NoPop == [time |-> NoTime, event |-> ThreadEvt(0)]

\* The backend decides once whether it installs signal control.
Init ==
    /\ signal_control \in BOOLEAN
    /\ ev = empty
    /\ committed_time = 0 /\ global_time = 0
    /\ popped = NoPop
    /\ armed = [id \in TimerIds |-> 0]

Clock == <<committed_time, global_time>>

\* A thread sleeps or waits with a timeout; it is in no pool before that.
\* pause(2) waits for LogicalTime::INDEFINITE.
Sleep(t, ns) ==
    /\ thread_deadlines(ev, t) = {}
    /\ ev' = insert(ev, ns, t)
    /\ popped' = NoPop /\ UNCHANGED <<Clock, armed>>

\* The wait ends for another reason: a wake, a signal, the thread's exit.
EndSleep(t) ==
    /\ thread_deadlines(ev, t) # {}
    /\ ev' = remove(ev, t)
    /\ popped' = NoPop /\ UNCHANGED <<Clock, armed>>

\* register_alarm and register_posix_timer with a deadline
Arm(id, ns, interval) ==
    /\ signal_control => id.rank # 0
    /\ ev' = insert_signal_timer(ev, id, ns, interval)
    /\ armed' = [armed EXCEPT ![id] = ns]
    /\ popped' = NoPop /\ UNCHANGED Clock

\* register_alarm of zero, register_posix_timer without a deadline
Disarm(id) ==
    /\ ev.signal_timers[id].phase # "Disarmed"
    /\ ev' = remove_signal_timer(ev, id)
    /\ popped' = NoPop /\ UNCHANGED <<Clock, armed>>

\* replace_real_timer, publish_real_expiry, reconcile_controlled_real_timer
ArmControlled(p, deadline) ==
    /\ signal_control
    /\ ev' = insert_controlled_real_timer_deadline(ev, deadline, p)
    /\ popped' = NoPop /\ UNCHANGED <<Clock, armed>>

DisarmControlled(p) ==
    /\ ev.controlled[p] # NoTime
    /\ ev' = remove_controlled_real_timer_deadline(ev, p)
    /\ popped' = NoPop /\ UNCHANGED <<Clock, armed>>

\* An exit granted to process c, reported to its parent a tick later.
ChildExits(c, p) ==
    /\ c # p
    /\ ev' = insert_child_exit(ev, Plus(committed_time, 1), c, p)
    /\ popped' = NoPop /\ UNCHANGED <<Clock, armed>>

\* A successful exec
Exec(p) ==
    /\ ev' = remove_posix_timers(ev, p)
    /\ ev' # ev
    /\ popped' = NoPop /\ UNCHANGED <<Clock, armed>>

\* logically_kill_thread of a process's last thread
ProcessEnds(p) ==
    /\ ev' = remove_process_timers(ev, p)
    /\ ev' # ev
    /\ popped' = NoPop /\ UNCHANGED <<Clock, armed>>

\* What dispatch_timed_signal does next to a periodic timer that fired: it
\* keeps the recurrence of the pop, forwards the timer past the missed periods,
\* or waits for a dequeue, of the copy it sent or of one that is yet to come.
Dispatches == {"kept", "forwarded", "sent", "discarded"}

Dispatched(popped_ev, e, t, how) ==
    IF e \notin TimerIds \/ how = "kept" \/ signal_control THEN popped_ev
    ELSE signal_timer_after_fire(popped_ev, e, t, how \in {"sent", "discarded"},
                                 how = "sent", committed_time)

\* step2b_process_timed
Fire(how) ==
    /\ pop_is_due(ev, committed_time)
    /\ popped' = [time |-> popped_time(ev), event |-> popped_event(ev)]
    /\ ev' = Dispatched(pop(ev), popped_event(ev), popped_time(ev), how)
    /\ UNCHANGED <<Clock, armed>>

\* step2d_decide_empty_queue: with nothing to run, the clock skips ahead to
\* the next deadline, unless that is the end of time.  step1 brought
\* committed_time up to the clock before.
SkipAhead(how) ==
    /\ committed_time = global_time
    /\ ~is_empty(ev) /\ next_deadline(ev) # MAX_TIME
    /\ popped' = [time |-> popped_time(ev), event |-> popped_event(ev)]
    /\ ev' = Dispatched(pop(ev), popped_event(ev), popped_time(ev), how)
    /\ global_time' = IF popped_time(ev) > global_time THEN popped_time(ev)
                      ELSE global_time
    /\ UNCHANGED <<committed_time, armed>>

\* reconcile_alarm, finish_exec_alarm, apply_dequeue and their kin: the copy
\* an inactive timer waits for was dequeued at time t.
Rearm(id, t) ==
    /\ is_inactive(ev.signal_timers[id])
    /\ ev' = signal_timer_rearm_after(ev, id, t)
    /\ popped' = NoPop /\ UNCHANGED <<Clock, armed>>

\* finish_exec_alarm, and the sends that put a copy into the shared queue or
\* find it gone
SetCopy(p, copy) ==
    /\ is_inactive(ev.signal_timers[Alarm(p)])
    /\ ev' = alarm_set_copy(ev, p, copy)
    /\ popped' = NoPop /\ UNCHANGED <<Clock, armed>>

\* Guests run: the clock advances, short of the end of time.
Run ==
    /\ \E now \in global_time + 1..MAX_TIME - 1 : global_time' = now
    /\ popped' = NoPop /\ UNCHANGED <<ev, committed_time, armed>>

\* bump_global_time at the next quiescent pass
CommitTime ==
    /\ committed_time' = global_time
    /\ committed_time' # committed_time
    /\ popped' = NoPop /\ UNCHANGED <<ev, global_time, armed>>

Next ==
    /\ UNCHANGED signal_control
    /\ \/ \E t \in Tids : EndSleep(t) \/ \E ns \in Times : Sleep(t, ns)
       \/ \E id \in TimerIds :
             \/ \E ns \in Times \ {0}, interval \in Intervals : Arm(id, ns, interval)
             \/ Disarm(id)
             \/ \E t \in 0..committed_time : Rearm(id, t)
       \/ \E p \in Pids :
             \/ \E ns \in Times \ {0} : ArmControlled(p, ns)
             \/ DisarmControlled(p) \/ Exec(p) \/ ProcessEnds(p)
             \/ \E c \in Pids : ChildExits(c, p)
             \/ \E copy \in BOOLEAN : SetCopy(p, copy)
       \/ \E how \in Dispatches : Fire(how) \/ SkipAhead(how)
       \/ Run \/ CommitTime

Spec == Init /\ [][Next]_vars

-----------------------------------------------------------------------------

\* The event of timer id is in the map exactly at the deadline that
\* signal_timers or controlled_real_timer_deadlines hold for it: no stale event
\* of an earlier arming can fire, and no armed timer is forgotten.
MapMatchesTimers ==
    \A id \in TimerIds, t \in DOMAIN ev.map \cup Times :
        Holds(ev.map, t, id) <=>
            \/ /\ ev.signal_timers[id].phase = "Active"
               /\ ev.signal_timers[id].deadline = t
            \/ id.rank = 0 /\ ev.controlled[id.pid] = t

\* A periodic timer keeps to the grid of its arming through every expiry,
\* every missed period and every wait for a dequeue, until it saturates
\* (hrtimer_forward; the comment on AlarmPhase: "on the original grid").
OnItsGrid ==
    \A id \in TimerIds :
        LET s == ev.signal_timers[id]
        IN  s.interval # 0 /\ s.deadline # MAX_TIME =>
                /\ s.deadline >= armed[id]
                /\ (s.deadline - armed[id]) % s.interval = 0

\* A timer that a dequeue at t restarts, or that is forwarded at the committed
\* time, does not expire at or before that time again: no burst of the missed
\* periods.
RearmsLater ==
    [][\A id \in TimerIds :
          LET s == ev.signal_timers[id]
              r == ev'.signal_timers[id]
          IN  r # s /\ r.phase = "Active" =>
                /\ \A t \in 0..committed_time :
                      Rearm(id, t) => r.deadline > t /\ r.deadline > s.deadline
                /\ Fire("forwarded") /\ ~signal_control /\ id = popped'.event
                   => r.deadline > committed_time]_vars

\* The refinement mapping: whose a source is, the one deadline of each source,
\* and the child exits on their way.
Owner(s) == IF s.rank = 3 THEN NoTime ELSE s.pid

Due(tab, s) ==
    IF s.rank = 3
    THEN IF thread_deadlines(tab, s.pid) = {} THEN NoTime
         ELSE CHOOSE t \in thread_deadlines(tab, s.pid) : TRUE
    ELSE IF s.rank = 0 /\ tab.controlled[s.pid] # NoTime THEN tab.controlled[s.pid]
    ELSE IF tab.signal_timers[s].phase = "Active" THEN tab.signal_timers[s].deadline
    ELSE NoTime

PendingExits(tab) ==
    {x \in [time : DOMAIN tab.map, event : ExitIds] : x.event \in tab.map[x.time]}

\* The timed events implement the table of deadlines.
Abstract == INSTANCE DeadlineTable WITH
    Exits <- ExitIds,
    EndOfTime <- MAX_TIME,
    due <- [s \in Sources |-> Due(ev, s)],
    exits <- PendingExits(ev)

ImplementsDeadlineTable == Abstract!Spec
=============================================================================
