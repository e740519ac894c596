--------------------------- MODULE TimedEventsOps ---------------------------
(***************************************************************************)
(* detcore/src/scheduler/timed_waiters.rs as a data type: a record `ev`    *)
(* with the fields of struct TimedEvents and one operator per method.      *)
(*                                                                         *)
(* An event is the identity it is queued under.  Its target and its signal *)
(* are payload that insert_signal_timer copies and nothing here reads.     *)
(***************************************************************************)
EXTENDS Integers

CONSTANTS
    Tids,         \* threads that sleep or wait with a timeout
    Pids,         \* processes
    PosixIds,     \* POSIX timer ids of a process
    MAX_TIME      \* u64::MAX, LogicalTime::MAX and LogicalTime::INDEFINITE

ASSUME TimeAssumption == MAX_TIME \in Nat \ {0}
ASSUME IdAssumption ==
    Tids \subseteq Nat /\ Pids \subseteq Nat /\ PosixIds \subseteq Nat

Times == 0..MAX_TIME

\* Option<LogicalTime>: no deadline
NoTime == -1

\* SignalTimerId and TimedEvent, with the rank of the enum variant that Rust's
\* derived Ord compares first.
Alarm(pid) == [rank |-> 0, pid |-> pid, sub |-> 0]
Posix(pid, id) == [rank |-> 1, pid |-> pid, sub |-> id]
ChildExit(child, parent) == [rank |-> 2, pid |-> child, sub |-> parent]
ThreadEvt(tid) == [rank |-> 3, pid |-> tid, sub |-> 0]

TimerIds == {Alarm(p) : p \in Pids} \cup {Posix(p, i) : p \in Pids, i \in PosixIds}
ExitIds == {ChildExit(c, p) : c \in Pids, p \in Pids}

\* What has at most one deadline: threads, alarms and POSIX timers.
Sources == TimerIds \cup {ThreadEvt(t) : t \in Tids}

\* Ord for TimedEvent
Before(e, f) ==
    \/ e.rank < f.rank
    \/ e.rank = f.rank /\ e.pid < f.pid
    \/ e.rank = f.rank /\ e.pid = f.pid /\ e.sub < f.sub

\* SignalTimerState; AlarmPhase::Inactive with and without its copy are two
\* phases next to Active, and a timer that signal_timers does not hold is
\* Disarmed.
Disarmed == [deadline |-> 0, interval |-> 0, phase |-> "Disarmed"]

is_inactive(s) == s.phase \in {"InactiveCopy", "InactiveNoCopy"}
Inactive(copy) == IF copy THEN "InactiveCopy" ELSE "InactiveNoCopy"

\* TimedEvents::default
empty ==
    [map |-> [t \in {} |-> {}],
     signal_timers |-> [id \in TimerIds |-> Disarmed],
     controlled |-> [p \in Pids |-> NoTime]]

-----------------------------------------------------------------------------
(* LogicalTime arithmetic.                                                 *)

\* Add for LogicalTime saturates.
Plus(a, b) == IF a + b < MAX_TIME THEN a + b ELSE MAX_TIME

\* Mutants of grid_after: the grid restarts at t; the count is one short.
grid_after_restarts(last, interval, t) ==
    Plus(IF t > last THEN t ELSE last, IF interval = 0 THEN 1 ELSE interval)

grid_after_one_short(last, interval, t) ==
    LET step == IF interval = 0 THEN 1 ELSE interval
        elapsed == IF t > last THEN t - last ELSE 0
    IN  Plus(last, (elapsed \div step) * step)

\* grid_after over checked_grid_after: k counts from `last`, a point that does
\* not fit is the end of time, an interval of zero is one nanosecond.
grid_after(last, interval, t) ==
    LET step == IF interval = 0 THEN 1 ELSE interval
        elapsed == IF t > last THEN t - last ELSE 0
        k == (elapsed \div step) + 1
    IN  Plus(last, k * step)

-----------------------------------------------------------------------------
(* The map from times to non-empty sets of events.                         *)

\* map.entry(t).or_default().insert(e)
Enter(map, t, e) ==
    [x \in DOMAIN map \cup {t} |->
        IF x = t THEN (IF t \in DOMAIN map THEN map[t] ELSE {}) \cup {e}
        ELSE map[x]]

\* The set at t loses e, and the map loses the set if that leaves it empty.
Withdraw(map, t, e) ==
    LET left == map[t] \ {e}
    IN  IF t \notin DOMAIN map THEN map
        ELSE [x \in {y \in DOMAIN map : y # t \/ left # {}} |->
                IF x = t THEN left ELSE map[x]]

Holds(map, t, e) == t \in DOMAIN map /\ e \in map[t]

is_empty(ev) == DOMAIN ev.map = {}

next_deadline(ev) ==
    CHOOSE t \in DOMAIN ev.map : \A u \in DOMAIN ev.map : t <= u

\* Mutant of FirstOf: set.pop_last.
FirstOf_last(S) == CHOOSE e \in S : \A f \in S \ {e} : Before(f, e)

\* set.pop_first
FirstOf(S) == CHOOSE e \in S : \A f \in S \ {e} : Before(e, f)

thread_deadlines(ev, tid) ==
    {t \in DOMAIN ev.map : ThreadEvt(tid) \in ev.map[t]}

-----------------------------------------------------------------------------
(* Insertion, cancellation and re-arming.                                  *)

insert(ev, ns, tid) == [ev EXCEPT !.map = Enter(@, ns, ThreadEvt(tid))]

remove(ev, tid) ==
    [ev EXCEPT !.map =
        [t \in {u \in DOMAIN @ : @[u] # {ThreadEvt(tid)}} |->
            @[t] \ {ThreadEvt(tid)}]]

clear_old_signal_timer(ev, id, old) ==
    IF old.phase = "Active"
    THEN [ev EXCEPT !.map = Withdraw(@, old.deadline, id)] ELSE ev

insert_signal_timer(ev, id, ns, interval) ==
    LET cleared == clear_old_signal_timer(ev, id, ev.signal_timers[id])
    IN  [cleared EXCEPT
           !.signal_timers[id] = [deadline |-> ns, interval |-> interval,
                                  phase |-> "Active"],
           !.map = Enter(@, ns, id)]

remove_signal_timer(ev, id) ==
    [clear_old_signal_timer(ev, id, ev.signal_timers[id])
        EXCEPT !.signal_timers[id] = Disarmed]

insert_child_exit(ev, ns, child, parent) ==
    [ev EXCEPT !.map = Enter(@, ns, ChildExit(child, parent))]

\* Mutant: the deadline goes and its event stays.
remove_controlled_leaves_event(ev, pid) ==
    [ev EXCEPT !.controlled[pid] = NoTime]

remove_controlled_real_timer_deadline(ev, pid) ==
    IF ev.controlled[pid] = NoTime THEN ev
    ELSE [ev EXCEPT !.map = Withdraw(@, ev.controlled[pid], Alarm(pid)),
                    !.controlled[pid] = NoTime]

insert_controlled_real_timer_deadline(ev, deadline, pid) ==
    [remove_controlled_real_timer_deadline(ev, pid)
        EXCEPT !.controlled[pid] = deadline,
               !.map = Enter(@, deadline, Alarm(pid))]

\* Every timer of `ids` with its pending event goes.
RemoveTimers(ev, ids) ==
    LET Gone(t) == {id \in ids : /\ ev.signal_timers[id].phase = "Active"
                                 /\ ev.signal_timers[id].deadline = t}
    IN  [ev EXCEPT
           !.map = [t \in {u \in DOMAIN @ : ~(@[u] \subseteq Gone(u))} |->
                      @[t] \ Gone(t)],
           !.signal_timers = [id \in TimerIds |->
                                IF id \in ids THEN Disarmed ELSE @[id]]]

remove_posix_timers(ev, pid) == RemoveTimers(ev, {Posix(pid, i) : i \in PosixIds})

remove_process_timers(ev, pid) ==
    RemoveTimers(remove_controlled_real_timer_deadline(ev, pid),
                 {id \in TimerIds : id.pid = pid})

\* After the pop at fired_at of periodic timer id, which pop re-armed at
\* fired_at + interval: `waits` puts it to sleep until a dequeue, with or
\* without a copy, and otherwise it moves to the grid point after `now`.
signal_timer_after_fire(ev, id, fired_at, waits, copy, now) ==
    LET s == ev.signal_timers[id]
        cleared == clear_old_signal_timer(ev, id, s)
        next == grid_after(fired_at, s.interval, now)
    IN  IF \/ s.phase # "Active" \/ s.interval = 0
           \/ s.deadline # Plus(fired_at, s.interval)
        THEN ev
        ELSE IF waits
        THEN [cleared EXCEPT !.signal_timers[id].deadline = fired_at,
                             !.signal_timers[id].phase = Inactive(copy)]
        ELSE [cleared EXCEPT !.signal_timers[id].deadline = next,
                             !.map = Enter(@, next, id)]

signal_timer_rearm_after(ev, id, t) ==
    LET s == ev.signal_timers[id]
        next == grid_after(s.deadline, s.interval, t)
    IN  IF is_inactive(s)
        THEN [ev EXCEPT !.signal_timers[id].deadline = next,
                        !.signal_timers[id].phase = "Active",
                        !.map = Enter(@, next, id)]
        ELSE ev

alarm_set_copy(ev, pid, copy) ==
    IF is_inactive(ev.signal_timers[Alarm(pid)])
    THEN [ev EXCEPT !.signal_timers[Alarm(pid)].phase = Inactive(copy)]
    ELSE ev

-----------------------------------------------------------------------------
(* pop_if_before(limit), where the map has an entry at or before limit.    *)

pop_is_due(ev, limit) == ~is_empty(ev) /\ next_deadline(ev) <= limit

popped_time(ev) == next_deadline(ev)
popped_event(ev) == FirstOf(ev.map[next_deadline(ev)])

\* A controlled deadline is used up, a one-shot timer disarms, a periodic one
\* is re-armed an interval later.
pop(ev) ==
    LET t == popped_time(ev)
        e == popped_event(ev)
        taken == [ev EXCEPT !.map = Withdraw(@, t, e)]
        s == ev.signal_timers[e]
        next == Plus(t, s.interval)
    IN  CASE e \in {Alarm(p) : p \in Pids} /\ ev.controlled[e.pid] = t ->
               [taken EXCEPT !.controlled[e.pid] = NoTime]
          [] /\ ~(e \in {Alarm(p) : p \in Pids} /\ ev.controlled[e.pid] = t)
             /\ e \in TimerIds /\ s.phase # "Disarmed" /\ s.deadline = t ->
               IF s.interval = 0
               THEN [taken EXCEPT !.signal_timers[e] = Disarmed]
               ELSE [taken EXCEPT !.signal_timers[e].deadline = next,
                                  !.map = Enter(@, next, e)]
          [] OTHER -> taken
=============================================================================
