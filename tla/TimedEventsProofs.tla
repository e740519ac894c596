------------------------- MODULE TimedEventsProofs --------------------------
(***************************************************************************)
(* Theorems about the timed events, for every set of threads, processes    *)
(* and timers, every period and every end of time: the map and the timer   *)
(* states agree, periodic timers keep their grid, and the whole implements *)
(* the table of deadlines.                                                 *)
(***************************************************************************)
EXTENDS TimedEvents, TimedEventsTable

USE ZenonT(30)

-----------------------------------------------------------------------------
(* What a pop does to the table, the inductive invariant, and how changes  *)
(* of the map look in the table of deadlines.                              *)

\* The state of a signal timer after a pop at t: disarmed, or an interval on.
Rearmed(s, t) ==
    IF s.interval = 0 THEN Disarmed
    ELSE [deadline |-> Plus(t, s.interval), interval |-> s.interval, phase |-> "Active"]

\* The pop of a signal timer disarms it, or arms it an interval later.
LEMMA PopTimer ==
    ASSUME NEW tab, NEW control, TableInv(tab, control), ~is_empty(tab),
           popped_event(tab) \in TimerIds,
           tab.signal_timers[popped_event(tab)].phase = "Active",
           tab.signal_timers[popped_event(tab)].deadline = popped_time(tab),
           ~(/\ popped_event(tab) \in {Alarm(p) : p \in Pids}
             /\ tab.controlled[popped_event(tab).pid] = popped_time(tab)),
           control => popped_event(tab).rank # 0
    PROVE  LET e == popped_event(tab)
           IN  /\ TableInv(pop(tab), control) /\ OnlyFor({e}, tab, pop(tab))
               /\ Puts(tab, pop(tab), e, Rearmed(tab.signal_timers[e], popped_time(tab)))
<1> DEFINE t == popped_time(tab)
           e == popped_event(tab)
           s == tab.signal_timers[e]
           m == Withdraw(tab.map, t, e)
           taken == [tab EXCEPT !.map = Withdraw(@, t, e)]
           new == pop(tab)
<1>1. /\ IsTable(tab) /\ tab.map \in Maps /\ tab.signal_timers \in [TimerIds -> States]
      /\ NoTime \notin Times
  BY TableShape
<1>2. taken = [map |-> m, signal_timers |-> tab.signal_timers, controlled |-> tab.controlled]
  BY <1>1, SMT DEF IsTable
<1>3. t \in Times
  BY PoppedIsLeast
<1>4. s.phase = "Active" /\ s.deadline = t /\ e \in TimerIds /\ s.phase # "Disarmed"
  OBVIOUS
<1>5. new = IF s.interval = 0
            THEN [taken EXCEPT !.signal_timers[e] = Disarmed]
            ELSE Moves(taken, e, Plus(t, s.interval), Plus(t, s.interval))
  BY <1>4 DEF pop, Moves
<1> HIDE DEF t, e, taken, new
<1>6. e.rank = 0 => tab.controlled[e.pid] = NoTime
  BY <1>4, TimerIdentity DEF TableInv, e
<1>7. \A u : Holds(tab.map, u, e) => u = t
  BY <1>1, <1>4, <1>6, SMT DEF TableInv, Recorded
<1>8. /\ m \in Maps
      /\ \A u, f : Holds(m, u, f) <=> Holds(tab.map, u, f) /\ ~(u = t /\ f = e)
  BY <1>1, WithdrawHolds
<1>9. \A u, f : Holds(m, u, f) <=> f # e /\ Holds(tab.map, u, f)
  BY <1>7, <1>8
<1>10. s \in States /\ s.interval \in Times
  BY <1>1, <1>4 DEF States
<1> HIDE DEF m, s
<1>11. control => e.rank # 0
  BY DEF e
<1>12. IsTable(taken) /\ taken.signal_timers = tab.signal_timers /\ taken.controlled = tab.controlled
       /\ taken.map = m
  BY <1>2 DEF IsTable
<1>13. CASE s.interval = 0
  <2>1. new = [map |-> m, signal_timers |-> But(tab.signal_timers, e, Disarmed),
               controlled |-> tab.controlled]
    BY <1>2, <1>5, <1>13 DEF But
  <2>2. Disarmed \in States /\ Disarmed.phase # "Active" /\ ~is_inactive(Disarmed)
    BY TimeAssumption, SMT DEF States, Phases, Disarmed, is_inactive, Times
  <2>3. TableInv(new, control) /\ OnlyFor({e}, tab, new)
    BY <1>4, <1>8, <1>9, <1>11, <2>1, <2>2, SilenceTimer
  <2>4. Puts(tab, new, e, Rearmed(s, t))
    BY <1>13, <2>1 DEF Rearmed, Puts
  <2> QED BY <2>3, <2>4 DEF e, new, s, t
<1>14. CASE s.interval # 0
  <2> DEFINE next == Plus(t, s.interval)
             r == [deadline |-> next, interval |-> s.interval, phase |-> "Active"]
  <2>1. next \in Times
    <3>1. t \in Nat /\ s.interval \in Nat
      BY <1>3, <1>10, TimeAssumption, SMT DEF Times
    <3> QED BY <3>1, PlusTime
  <2> HIDE DEF next
  <2>2. r \in States /\ r.phase = "Active" /\ r.deadline = next
    BY <1>10, <2>1 DEF States, Phases
  <2>3. new = [map |-> Enter(taken.map, next, e),
               signal_timers |-> But(taken.signal_timers, e,
                     [deadline |-> next, interval |-> taken.signal_timers[e].interval,
                   phase |-> taken.signal_timers[e].phase]),
               controlled |-> taken.controlled]
    <3>1. new = Moves(taken, e, next, next)
      BY <1>5, <1>14 DEF next
    <3>2. taken.signal_timers \in [TimerIds -> States]
      BY <1>1, <1>12
    <3> QED BY <1>4, <1>12, <3>1, <3>2, MovesTimer
  <2>4. new = [map |-> Enter(m, next, e), signal_timers |-> But(tab.signal_timers, e, r),
               controlled |-> tab.controlled]
    <3>1. taken.signal_timers[e] = s
      BY <1>12 DEF s
    <3> QED BY <1>4, <1>12, <2>3, <3>1
  <2> HIDE DEF r
  <2>5. TableInv(new, control) /\ OnlyFor({e}, tab, new)
    BY <1>4, <1>8, <1>9, <1>11, <2>2, <2>4, SetTimer
  <2>6. Puts(tab, new, e, Rearmed(s, t))
    BY <1>14, <2>4 DEF Rearmed, r, next, Puts
  <2> QED BY <2>5, <2>6 DEF e, new, s, t
<1> QED BY <1>13, <1>14

\* Its state after signal_timer_after_fire.
AfterFireState(t, i, waits, copy, now) ==
    IF waits THEN [deadline |-> t, interval |-> i, phase |-> Inactive(copy)]
    ELSE [deadline |-> grid_after(t, i, now), interval |-> i, phase |-> "Active"]

\* signal_timer_after_fire on a timer that the pop armed an interval later.
LEMMA AfterFire ==
    ASSUME NEW tab, NEW control, TableInv(tab, control),
           NEW id \in TimerIds, control => id.rank # 0,
           NEW t \in Times, t # MAX_TIME, NEW waits \in BOOLEAN, NEW copy \in BOOLEAN,
           NEW now \in Times,
           tab.signal_timers[id].phase = "Active", tab.signal_timers[id].interval # 0,
           tab.signal_timers[id].deadline = Plus(t, tab.signal_timers[id].interval)
    PROVE  LET i == tab.signal_timers[id].interval
               new == signal_timer_after_fire(tab, id, t, waits, copy, now)
           IN  /\ TableInv(new, control) /\ OnlyFor({id}, tab, new)
               /\ Puts(tab, new, id,
                     AfterFireState(t, i, waits, copy, now))
<1> DEFINE s == tab.signal_timers[id]
           i == s.interval
           cleared == clear_old_signal_timer(tab, id, s)
           next == grid_after(t, i, now)
           new == signal_timer_after_fire(tab, id, t, waits, copy, now)
<1>1. tab.signal_timers \in [TimerIds -> States]
  BY TableShape
<1>2. s \in States /\ i \in Times
  BY <1>1 DEF States
<1>3. /\ IsTable(cleared) /\ cleared.signal_timers = tab.signal_timers
      /\ cleared.controlled = tab.controlled /\ cleared.map \in Maps
      /\ \A u, e : Holds(cleared.map, u, e) <=> e # id /\ Holds(tab.map, u, e)
  BY Cleared
<1>4. next \in Times
  BY <1>2, GridAfter
<1>5. new = IF waits THEN Waits(cleared, id, t, Inactive(copy)) ELSE Moves(cleared, id, next, next)
  BY DEF signal_timer_after_fire, Waits, Moves
<1>6. s.phase = "Active" /\ i # 0
  OBVIOUS
<1> HIDE DEF cleared, next, new
<1>7. CASE waits
  <2> DEFINE r == [deadline |-> t, interval |-> i, phase |-> Inactive(copy)]
  <2>1. r \in States /\ r.phase # "Active" /\ r.deadline # MAX_TIME /\ r.interval # 0
    BY <1>2, <1>6 DEF States, Phases, Inactive
  <2>2. new = [map |-> cleared.map,
               signal_timers |-> But(cleared.signal_timers, id,
                     [deadline |-> t, interval |-> cleared.signal_timers[id].interval,
                   phase |-> Inactive(copy)]),
               controlled |-> cleared.controlled]
    BY <1>1, <1>3, <1>5, <1>7, WaitsTimer
  <2>3. new = [map |-> cleared.map, signal_timers |-> But(tab.signal_timers, id, r),
               controlled |-> tab.controlled]
    BY <1>3, <2>2
  <2> HIDE DEF r
  <2>4. TableInv(new, control) /\ OnlyFor({id}, tab, new)
    BY <1>3, <2>1, <2>3, SilenceTimer
  <2>5. Puts(tab, new, id, r)
    BY <2>3 DEF Puts
  <2> QED BY <1>7, <2>4, <2>5 DEF new, r, AfterFireState
<1>8. CASE ~waits
  <2> DEFINE r == [deadline |-> next, interval |-> i, phase |-> "Active"]
  <2>1. r \in States /\ r.phase = "Active" /\ r.deadline = next
    BY <1>2, <1>4 DEF States, Phases
  <2>2. new = [map |-> Enter(cleared.map, next, id),
               signal_timers |-> But(cleared.signal_timers, id,
                     [deadline |-> next, interval |-> cleared.signal_timers[id].interval,
                   phase |-> cleared.signal_timers[id].phase]),
               controlled |-> cleared.controlled]
    BY <1>1, <1>3, <1>5, <1>8, MovesTimer
  <2>3. new = [map |-> Enter(cleared.map, r.deadline, id),
               signal_timers |-> But(tab.signal_timers, id, r),
               controlled |-> tab.controlled]
    BY <1>3, <1>6, <2>1, <2>2
  <2> HIDE DEF r
  <2>4. TableInv(new, control) /\ OnlyFor({id}, tab, new)
    BY <1>3, <2>1, <2>3, SetTimer
  <2>5. Puts(tab, new, id, r)
    BY <2>3 DEF Puts
  <2> QED BY <1>8, <2>4, <2>5 DEF new, r, next, AfterFireState
<1> QED BY <1>7, <1>8

-----------------------------------------------------------------------------
(* The inductive invariant.                                                *)

\* A periodic timer is a number of periods past its arming, or saturated.
GridAt(s, first) ==
    s.interval # 0 /\ s.deadline # MAX_TIME =>
        OnGrid(s.deadline, first, s.interval)

Grid(timers) == \A id \in TimerIds : GridAt(timers[id], armed[id])

\* The clocks stay short of the end of time.
IInv ==
    /\ signal_control \in BOOLEAN
    /\ TableInv(ev, signal_control)
    /\ committed_time \in Times /\ committed_time # MAX_TIME
    /\ global_time \in Times /\ global_time # MAX_TIME
    /\ armed \in [TimerIds -> Times]
    /\ Grid(ev.signal_timers)
    /\ popped # NoPop => Sources # {}

\* Timer states that a pop at t, a forwarding or a re-arming at `now` may leave.
Advanced(s, r, t, now) ==
    \/ r = Disarmed
    \/ /\ s.interval # 0 /\ r.interval = s.interval
       /\ \/ r.phase # "Active" /\ r.deadline = t
          \/ r.phase = "Active" /\ r.deadline \in {Plus(t, s.interval), grid_after(t, s.interval, now)}

\* A grid point of a grid point is a grid point.
LEMMA MorePeriods ==
    ASSUME NEW a \in Nat, NEW b \in Nat, NEW c \in Nat, NEW i \in Nat,
           OnGrid(b, a, i), OnGrid(c, b, i)
    PROVE  OnGrid(c, a, i)
<1>1. PICK n \in Nat : b = a + n * i
  BY DEF OnGrid
<1>2. PICK k \in Nat : c = b + k * i
  BY DEF OnGrid
<1>3. (a + n * i) + k * i = a + (n + k) * i /\ n + k \in Nat
  BY SMTT(30)
<1> QED BY <1>1, <1>2, <1>3 DEF OnGrid

\* One period later is the next grid point.
LEMMA OnePeriod ==
    ASSUME NEW a \in Nat, NEW i \in Nat
    PROVE  OnGrid(a + i, a, i)
<1>1. a + i = a + 1 * i
  BY SMT
<1> QED BY <1>1 DEF OnGrid

\* They are on the grid of s, and later than t unless they are at the end of time.
LEMMA AdvancedOnGrid ==
    ASSUME NEW s \in States, NEW r \in States, NEW now \in Times, NEW first \in Times,
           GridAt(s, first), s.deadline # MAX_TIME, Advanced(s, r, s.deadline, now)
    PROVE  /\ GridAt(r, first)
           /\ r.phase = "Active" => r.deadline > s.deadline \/ r.deadline = MAX_TIME
<1> DEFINE t == s.deadline
           i == s.interval
<1>1. t \in Times /\ i \in Times /\ t \in Nat /\ i \in Nat /\ first \in Nat
  BY TimeAssumption, SMT DEF States, Times
<1>2. CASE r = Disarmed
  BY <1>2 DEF Disarmed, GridAt
<1>3. CASE r # Disarmed
  <2>1. i # 0 /\ r.interval = i
    BY <1>3 DEF Advanced
  <2>2. OnGrid(t, first, i)
    BY <2>1 DEF GridAt
  <2>3. CASE r.phase # "Active" /\ r.deadline = t
    BY <2>1, <2>2, <2>3 DEF GridAt
  <2>4. CASE r.phase = "Active" /\ r.deadline = Plus(t, i)
    <3>1. r.deadline = MAX_TIME \/ r.deadline = t + i
      BY <1>1, <2>4, PlusTime
    <3>2. OnGrid(t + i, first, i) /\ t + i > t
      <4> HIDE DEF t, i
      <4>1. OnGrid(t + i, t, i)
        BY <1>1, OnePeriod
      <4>2. t + i \in Nat /\ t + i > t
        BY <1>1, <2>1, SMT
      <4> QED BY <1>1, <2>2, <4>1, <4>2, MorePeriods
    <3> QED BY <2>1, <3>1, <3>2 DEF GridAt
  <2>5. CASE r.phase = "Active" /\ r.deadline = grid_after(t, i, now)
    <3>1. \/ r.deadline = MAX_TIME
          \/ r.deadline > t /\ OnGrid(r.deadline, t, i)
      <4> HIDE DEF t, i
      <4> QED BY <1>1, <2>1, <2>5, GridAfter, SMT
    <3>2. r.deadline \in Nat
      BY TimeAssumption, SMT DEF States, Times
    <3>3. OnGrid(r.deadline, t, i) => OnGrid(r.deadline, first, i)
      <4> HIDE DEF t, i
      <4> QED BY <1>1, <2>2, <3>2, MorePeriods
    <3> QED BY <2>1, <3>1, <3>3 DEF GridAt
  <2> QED BY <1>3, <2>3, <2>4, <2>5 DEF Advanced
<1> QED BY <1>2, <1>3

\* dispatch_timed_signal after the pop of a signal timer.
LEMMA FiresTimer ==
    ASSUME TableInv(ev, signal_control), committed_time \in Times,
           ~is_empty(ev), popped_time(ev) # MAX_TIME, NEW how \in Dispatches,
           ev' = Dispatched(pop(ev), popped_event(ev), popped_time(ev), how),
           popped_event(ev) \in TimerIds,
           ev.signal_timers[popped_event(ev)].phase = "Active",
           ev.signal_timers[popped_event(ev)].deadline = popped_time(ev),
           ~(/\ popped_event(ev) \in {Alarm(p) : p \in Pids}
             /\ ev.controlled[popped_event(ev).pid] = popped_time(ev)),
           signal_control => popped_event(ev).rank # 0
    PROVE  LET t == popped_time(ev)
               e == popped_event(ev)
           IN  /\ TableInv(ev', signal_control) /\ OnlyFor({e}, ev, ev')
               /\ ev'.signal_timers # ev.signal_timers
               /\ \E r \in States :
                     /\ Puts(ev, ev', e, r)
                     /\ Advanced(ev.signal_timers[e], r, t, committed_time)
                     /\ how = "forwarded" /\ ~signal_control /\ r.phase = "Active" =>
                           r.deadline = grid_after(t, r.interval, committed_time)
<1> DEFINE t == popped_time(ev)
           e == popped_event(ev)
           s == ev.signal_timers[e]
<1>a. TableInv(ev, signal_control) /\ t \in Times /\ Holds(ev.map, t, e)
  BY PoppedIsLeast
<1>b. /\ e \in TimerIds /\ s.phase = "Active" /\ s.deadline = t
      /\ ~(e \in {Alarm(p) : p \in Pids} /\ ev.controlled[e.pid] = t)
      /\ signal_control => e.rank # 0
  OBVIOUS
<1> DEFINE mid == pop(ev)
           i == s.interval
           q == Rearmed(s, t)
<1>1. /\ TableInv(mid, signal_control) /\ OnlyFor({e}, ev, mid)
      /\ Puts(ev, mid, e, q)
  BY <1>a, <1>b, PopTimer
<1>2. ev.signal_timers \in [TimerIds -> States] /\ mid.signal_timers \in [TimerIds -> States]
  BY <1>a, <1>1, TableShape
<1>3. mid.signal_timers[e] = q /\ q \in States /\ s \in States
  <2>1. s \in States /\ s.interval \in Times
    BY <1>b, <1>2 DEF States
  <2>2. t \in Nat /\ s.interval \in Nat
    BY <1>a, <2>1, TimeAssumption, SMT DEF Times
  <2>3. q \in States
    BY <1>a, <2>1, <2>2, PlusTime, TimeAssumption DEF Rearmed, States, Phases, Disarmed, Times
  <2> HIDE DEF q, mid, e
  <2>4. mid.signal_timers = But(ev.signal_timers, e, q)
    BY <1>1 DEF Puts
  <2>5. e \in TimerIds /\ ev.signal_timers \in [TimerIds -> States]
    BY <1>b, <1>2
  <2>6. But(ev.signal_timers, e, q)[e] = q
    BY ONLY <2>3, <2>5, ButIs
  <2> QED BY <2>1, <2>3, <2>4, <2>6
<1>4. CASE how = "kept" \/ signal_control
  <2>1. ev' = mid
    BY <1>4 DEF Dispatched
  <2>2. Advanced(s, q, t, committed_time)
    BY DEF Advanced, Rearmed
  <2>3. q # s
    <3>1. CASE i = 0
      BY <1>b, <3>1, SMT DEF Rearmed, Disarmed
    <3>2. CASE i # 0
      <4>1. t \in Nat /\ i \in Nat
        BY <1>a, <1>3, TimeAssumption, SMT DEF States, Times
      <4>2. Plus(t, i) # t
        BY <3>2, <4>1, PlusTime, SMT
      <4> QED BY <1>b, <3>2, <4>2, SMT DEF Rearmed
    <3> QED BY <3>1, <3>2
  <2>4. mid.signal_timers # ev.signal_timers
    BY <1>3, <2>3
  <2>5. how # "forwarded" \/ signal_control
    BY <1>4
  <2> HIDE DEF q, mid
  <2> QED BY <1>b, <1>1, <1>3, <2>1, <2>2, <2>4, <2>5
<1>5. CASE ~(how = "kept" \/ signal_control)
  <2> DEFINE waits == how \in {"sent", "discarded"}
             copy == (how = "sent")
  <2>1. ev' = signal_timer_after_fire(mid, e, t, waits, copy, committed_time)
    BY <1>b, <1>5 DEF Dispatched
  <2>2. CASE i = 0
    <3>1. mid.signal_timers[e].phase # "Active"
      BY <1>3, <2>2, SMT DEF Rearmed, Disarmed
    <3>2. ev' = mid
      BY <2>1, <3>1 DEF signal_timer_after_fire
    <3>3. q = Disarmed /\ q.phase # "Active" /\ q # s
      BY <1>b, <2>2, SMT DEF Rearmed, Disarmed
    <3>4. mid.signal_timers # ev.signal_timers
      BY <1>3, <3>3
    <3>5. Advanced(s, q, t, committed_time)
      BY <3>3 DEF Advanced
    <3> HIDE DEF q, mid
    <3> QED BY <1>b, <1>1, <1>3, <3>2, <3>3, <3>4, <3>5
  <2>3. CASE i # 0
    <3> DEFINE r == AfterFireState(t, i, waits, copy, committed_time)
    <3>1. q = [deadline |-> Plus(t, i), interval |-> i, phase |-> "Active"]
      BY <2>3 DEF Rearmed
    <3> HIDE DEF mid, q
    <3>2. /\ mid.signal_timers[e].phase = "Active" /\ mid.signal_timers[e].interval = i
          /\ mid.signal_timers[e].deadline = Plus(t, i)
      BY <1>3, <3>1, SMT
    <3>3. /\ TableInv(ev', signal_control) /\ OnlyFor({e}, mid, ev')
          /\ Puts(mid, ev', e, r)
      <4>1. waits \in BOOLEAN /\ copy \in BOOLEAN
        BY SMT
      <4>2. t \in Times /\ t # MAX_TIME /\ committed_time \in Times /\ e \in TimerIds
        BY <1>a, <1>b
      <4>3. signal_control => e.rank # 0
        BY <1>b
      <4>4. TableInv(mid, signal_control)
        BY <1>1
      <4> DEFINE j == mid.signal_timers[e].interval
      <4>5. /\ mid.signal_timers[e].phase = "Active" /\ j # 0
            /\ mid.signal_timers[e].deadline = Plus(t, j)
        <5> HIDE DEF t, e, i
        <5> QED BY <2>3, <3>2
      <4> HIDE DEF waits, copy, t, e, i
      <4> DEFINE new == signal_timer_after_fire(mid, e, t, waits, copy, committed_time)
      <4>6. TableInv(new, signal_control)
        BY ONLY <4>1, <4>2, <4>3, <4>4, <4>5, AfterFire
      <4>8. OnlyFor({e}, mid, new)
        BY ONLY <4>1, <4>2, <4>3, <4>4, <4>5, AfterFire
      <4>9. Puts(mid, new, e,
                                    AfterFireState(t, j, waits, copy, committed_time))
        BY ONLY <4>1, <4>2, <4>3, <4>4, <4>5, AfterFire
      <4>7. ev' = new
        BY <2>1
      <4> HIDE DEF new
      <4> QED BY <3>2, <4>6, <4>7, <4>8, <4>9
    <3>4. Puts(ev, ev', e, r)
      BY <1>1, <1>2, <3>3 DEF But, Puts
    <3>5. OnlyFor({e}, ev, ev')
      BY <1>1, <3>3 DEF OnlyFor
    <3>6. ev'.signal_timers[e] = r /\ r \in States
      <4>1. ev'.signal_timers \in [TimerIds -> States]
        BY <3>3, TableShape
      <4> HIDE DEF r, t, e
      <4>2. ev'.signal_timers[e] = r
        BY <1>b, <1>2, <3>4 DEF But, Puts
      <4> QED BY <1>b, <4>1, <4>2
    <3>7. Advanced(s, r, t, committed_time)
      <4>1. CASE waits
        BY <2>3, <4>1 DEF Advanced, Inactive, AfterFireState
      <4>2. CASE ~waits
        BY <2>3, <4>2 DEF Advanced, AfterFireState
      <4> QED BY <4>1, <4>2
    <3>8. r # s
      <4>1. grid_after(t, i, committed_time) # t
        <5>1. t \in Times /\ i \in Times /\ committed_time \in Times /\ t \in Nat
          BY <1>a, <1>3, TimeAssumption, SMT DEF States, Times
        <5> HIDE DEF t, i
        <5> QED BY <5>1, GridAfter, SMT DEF t
      <4>2. Inactive(copy) # "Active"
        BY DEF Inactive
      <4> HIDE DEF t, i, waits, copy
      <4>3. r.phase = "Active" => r.deadline = grid_after(t, i, committed_time)
        BY <4>2 DEF AfterFireState
      <4> HIDE DEF r, t, i
      <4> QED BY <1>b, <4>1, <4>3
    <3>9. how = "forwarded" /\ r.phase = "Active" =>
             r.deadline = grid_after(t, r.interval, committed_time)
      BY DEF AfterFireState
    <3>10. ev'.signal_timers # ev.signal_timers
      BY <3>6, <3>8
    <3> HIDE DEF r, t, e
    <3> QED BY <1>b, <3>3, <3>4, <3>5, <3>6, <3>7, <3>9, <3>10 DEF t, e
  <2> QED BY <2>2, <2>3
<1> QED BY <1>4, <1>5

\* What step2b_process_timed and step2d_decide_empty_queue do with a pop.
LEMMA Fires ==
    ASSUME IInv, ~is_empty(ev), popped_time(ev) # MAX_TIME, NEW how \in Dispatches,
           ev' = Dispatched(pop(ev), popped_event(ev), popped_time(ev), how)
    PROVE  LET t == popped_time(ev)
               e == popped_event(ev)
           IN  /\ TableInv(ev', signal_control) /\ OnlyFor({e}, ev, ev')
               /\ \/ ev'.signal_timers = ev.signal_timers
                  \/ /\ e \in TimerIds /\ ev.signal_timers[e].deadline = t
                     /\ \E r \in States :
                           /\ Puts(ev, ev', e, r)
                           /\ Advanced(ev.signal_timers[e], r, t, committed_time)
                           /\ how = "forwarded" /\ ~signal_control /\ r.phase = "Active" =>
                                 r.deadline = grid_after(t, r.interval, committed_time)
               /\ e \notin TimerIds => \A u : Holds(ev'.map, u, e) <=> Holds(ev.map, u, e) /\ u # t
               /\ e \in TimerIds /\ ev'.signal_timers = ev.signal_timers => \A u : ~Holds(ev'.map, u, e)
<1> DEFINE t == popped_time(ev)
           e == popped_event(ev)
           s == ev.signal_timers[e]
           Goal == /\ TableInv(ev', signal_control) /\ OnlyFor({e}, ev, ev')
                   /\ \/ ev'.signal_timers = ev.signal_timers
                      \/ /\ e \in TimerIds /\ s.deadline = t
                         /\ \E r \in States :
                               /\ Puts(ev, ev', e, r)
                               /\ Advanced(s, r, t, committed_time)
                               /\ how = "forwarded" /\ ~signal_control /\ r.phase = "Active" =>
                                     r.deadline = grid_after(t, r.interval, committed_time)
                   /\ e \notin TimerIds =>
                         \A u : Holds(ev'.map, u, e) <=> Holds(ev.map, u, e) /\ u # t
                   /\ e \in TimerIds /\ ev'.signal_timers = ev.signal_timers =>
                         \A u : ~Holds(ev'.map, u, e)
<1> SUFFICES Goal
  OBVIOUS
<1>1. /\ TableInv(ev, signal_control) /\ committed_time \in Times
      /\ t \in Times /\ Holds(ev.map, t, e)
  BY PoppedIsLeast DEF IInv
<1>2. CASE /\ signal_control /\ e \in {Alarm(p) : p \in Pids} /\ ev.controlled[e.pid] = t
  <2>1. ev' = pop(ev)
    BY <1>2 DEF Dispatched
  <2>2. e \in TimerIds
    BY <1>2, AlarmIdentity
  <2> QED BY <1>1, <1>2, <2>1, <2>2, PopControlled
<1>3. CASE e \notin TimerIds /\ e \notin {Alarm(p) : p \in Pids}
  <2>1. ev' = pop(ev)
    BY <1>3 DEF Dispatched
  <2> QED BY <1>1, <1>3, <2>1, PopOther
<1>4. CASE /\ e \in TimerIds /\ s.phase = "Active" /\ s.deadline = t
           /\ ~(e \in {Alarm(p) : p \in Pids} /\ ev.controlled[e.pid] = t)
           /\ signal_control => e.rank # 0
  <2>1. /\ TableInv(ev', signal_control) /\ OnlyFor({e}, ev, ev')
        /\ ev'.signal_timers # ev.signal_timers
        /\ \E r \in States :
              /\ Puts(ev, ev', e, r)
              /\ Advanced(s, r, t, committed_time)
              /\ how = "forwarded" /\ ~signal_control /\ r.phase = "Active" =>
                    r.deadline = grid_after(t, r.interval, committed_time)
    BY <1>1, <1>4, FiresTimer
  <2> QED BY <1>4, <2>1
<1> HIDE DEF Goal
<1>5. \/ signal_control /\ e \in {Alarm(p) : p \in Pids} /\ ev.controlled[e.pid] = t
      \/ /\ e \in TimerIds /\ s.phase = "Active" /\ s.deadline = t
         /\ ~(e \in {Alarm(p) : p \in Pids} /\ ev.controlled[e.pid] = t)
         /\ signal_control => e.rank # 0
      \/ e \notin TimerIds /\ e \notin {Alarm(p) : p \in Pids}
  BY <1>1, PoppedKind
<1> QED BY <1>2, <1>3, <1>4, <1>5

-----------------------------------------------------------------------------
(* The refinement mapping.                                                 *)

\* The deadline of a source is the time at which the map holds it.
LEMMA DueHolds ==
    ASSUME NEW tab, NEW control, TableInv(tab, control), NEW s \in Sources
    PROVE  /\ Due(tab, s) \in Times \cup {NoTime}
           /\ \A t \in Times : Due(tab, s) = t <=> Holds(tab.map, t, s)
<1>1. /\ tab.map \in Maps /\ tab.signal_timers \in [TimerIds -> States]
      /\ tab.controlled \in [Pids -> Times \cup {NoTime}] /\ NoTime \notin Times
  BY TableShape
<1>2. CASE s \in TimerIds
  <2>1. s.rank # 3 /\ s.pid \in Pids /\ s.rank \in {0, 1}
    BY <1>2, TimerIdentity, SMT
  <2>2. \A t \in Times : Holds(tab.map, t, s) <=> Recorded(tab, s, t)
    BY <1>2 DEF TableInv
  <2>3. tab.signal_timers[s].deadline \in Times
    BY <1>1, <1>2 DEF States
  <2>4. s.rank = 0 /\ tab.controlled[s.pid] # NoTime => tab.signal_timers[s].phase # "Active"
    BY <1>2, <2>1, TimerIdentity, SMT DEF TableInv, Disarmed
  <2>5. CASE s.rank = 0 /\ tab.controlled[s.pid] # NoTime
    <3>1. Due(tab, s) = tab.controlled[s.pid]
      BY <2>1, <2>5 DEF Due
    <3> QED BY <1>1, <2>1, <2>2, <2>4, <2>5, <3>1 DEF Recorded
  <2>6. CASE ~(s.rank = 0 /\ tab.controlled[s.pid] # NoTime)
    <3>1. Due(tab, s) = IF tab.signal_timers[s].phase = "Active" THEN tab.signal_timers[s].deadline
                        ELSE NoTime
      BY <2>1, <2>6 DEF Due
    <3> QED BY <1>1, <2>2, <2>3, <2>6, <3>1, SMT DEF Recorded
  <2> QED BY <2>5, <2>6
<1>3. CASE s \notin TimerIds
  <2>1. s.rank = 3 /\ s.pid \in Tids /\ s = ThreadEvt(s.pid)
    BY <1>3, SourceIdentity
  <2> DEFINE D == thread_deadlines(tab, s.pid)
  <2>2. D = {t \in DOMAIN tab.map : Holds(tab.map, t, s)}
    BY <2>1 DEF thread_deadlines, Holds
  <2>3. \A t : t \in D <=> Holds(tab.map, t, s)
    BY <2>2 DEF Holds
  <2>4. \A t, u \in D : t = u
    BY <2>1, <2>3, SMT DEF TableInv
  <2>5. D \subseteq Times
    BY <1>1, <2>3, MapShape
  <2>6. Due(tab, s) = IF D = {} THEN NoTime ELSE CHOOSE t \in D : TRUE
    BY <2>1 DEF Due
  <2> HIDE DEF D
  <2>7. CASE D = {}
    BY <1>1, <2>3, <2>6, <2>7
  <2>8. CASE D # {}
    <3>1. Due(tab, s) \in D
      BY <2>6, <2>8
    <3> QED BY <2>3, <2>4, <2>5, <3>1
  <2> QED BY <2>7, <2>8
<1> QED BY <1>2, <1>3

\* The pending exits are the child exits that the map holds.
LEMMA ExitsHold ==
    ASSUME NEW tab, NEW control, TableInv(tab, control)
    PROVE  PendingExits(tab) = {x \in [time : Times, event : ExitIds] : Holds(tab.map, x.time, x.event)}
<1>1. DOMAIN tab.map \subseteq Times
  BY TableShape, MapShape
<1> QED BY <1>1 DEF PendingExits, Holds

\* Sources that a step leaves alone keep their deadlines.
LEMMA DueKept ==
    ASSUME NEW tab, NEW new, NEW control, TableInv(tab, control), TableInv(new, control),
           NEW S, OnlyFor(S, tab, new), NEW s \in Sources, s \notin S
    PROVE  Due(new, s) = Due(tab, s)
<1>1. /\ Due(tab, s) \in Times \cup {NoTime}
      /\ \A t \in Times : Due(tab, s) = t <=> Holds(tab.map, t, s)
  BY DueHolds
<1>2. /\ Due(new, s) \in Times \cup {NoTime}
      /\ \A t \in Times : Due(new, s) = t <=> Holds(new.map, t, s)
  BY DueHolds
<1>3. \A t : Holds(new.map, t, s) <=> Holds(tab.map, t, s)
  BY DEF OnlyFor
<1> QED BY <1>1, <1>2, <1>3

\* So do child exits.
LEMMA ExitsKept ==
    ASSUME NEW tab, NEW new, NEW control, TableInv(tab, control), TableInv(new, control),
           NEW S, OnlyFor(S, tab, new), S \cap ExitIds = {}
    PROVE  PendingExits(new) = PendingExits(tab)
<1>1. \A t, e : e \in ExitIds => (Holds(new.map, t, e) <=> Holds(tab.map, t, e))
  BY DEF OnlyFor
<1>2. PendingExits(tab) = {x \in [time : Times, event : ExitIds] : Holds(tab.map, x.time, x.event)}
  BY ExitsHold
<1>3. PendingExits(new) = {x \in [time : Times, event : ExitIds] : Holds(new.map, x.time, x.event)}
  BY ExitsHold
<1> QED BY <1>1, <1>2, <1>3

\* A step that touches one source sets it.
LEMMA SetStep ==
    ASSUME NEW control, TableInv(ev, control), TableInv(ev', control),
           NEW src \in Sources, OnlyFor({src}, ev, ev'), popped' = NoPop
    PROVE  Abstract!Next
<1> DEFINE d == [s \in Sources |-> Due(ev, s)]
           e == [s \in Sources |-> Due(ev', s)]
<1>1. \A s \in Sources : s # src => Due(ev', s) = Due(ev, s)
  BY DueKept, SMT
<1>2. e = [d EXCEPT ![src] = e[src]]
  BY <1>1
<1>3. PendingExits(ev') = PendingExits(ev)
  <2>1. {src} \cap ExitIds = {}
    BY ExitIdentity
  <2> QED BY <2>1, ExitsKept
<1>4. Abstract!Set(src)
  BY <1>2, <1>3 DEF Abstract!Set
<1> QED BY <1>4 DEF Abstract!Next

\* A step that takes deadlines away from one process cancels them.
LEMMA CancelStep ==
    ASSUME NEW control, TableInv(ev, control), TableInv(ev', control),
           NEW p \in Pids, NEW ids \in SUBSET TimerIds, \A id \in ids : id.pid = p,
           OnlyFor(ids, ev, ev'), \A id \in ids : \A t : ~Holds(ev'.map, t, id), popped' = NoPop
    PROVE  Abstract!Next
<1> DEFINE d == [s \in Sources |-> Due(ev, s)]
           e == [s \in Sources |-> Due(ev', s)]
<1>1. \A s \in Sources : s \notin ids => Due(ev', s) = Due(ev, s)
  BY DueKept
<1>2. \A s \in ids : s \in Sources /\ Owner(s) = p /\ Due(ev', s) = NoTime
  <2> SUFFICES ASSUME NEW s \in ids PROVE s \in Sources /\ Owner(s) = p /\ Due(ev', s) = NoTime
    OBVIOUS
  <2>1. s \in Sources /\ s.rank # 3
    BY TimerIdentity, SMT
  <2>2. /\ Due(ev', s) \in Times \cup {NoTime}
        /\ \A t \in Times : Due(ev', s) = t <=> Holds(ev'.map, t, s)
    BY <2>1, DueHolds
  <2> QED BY <2>1, <2>2 DEF Owner
<1>3. e = [s \in Sources |-> IF Owner(s) = p /\ e[s] = NoTime THEN NoTime ELSE d[s]]
  BY <1>1, <1>2
<1>4. PendingExits(ev') = PendingExits(ev)
  <2>1. ids \cap ExitIds = {}
    BY ExitIdentity, TimerIdentity
  <2> QED BY <2>1, ExitsKept
<1>5. Abstract!Cancel(p)
  BY <1>3, <1>4 DEF Abstract!Cancel
<1>6. Alarm(p) \in Sources /\ Owner(Alarm(p)) = p
  BY AlarmIdentity, TimerIdentity, SMT DEF Owner
<1> QED BY <1>5, <1>6 DEF Abstract!Next

\* A child exit is added to those on their way.
LEMMA ExitStep ==
    ASSUME NEW control, TableInv(ev, control), TableInv(ev', control),
           NEW ns \in Times, NEW x \in ExitIds, OnlyFor({x}, ev, ev'), popped' = NoPop,
           \A t : Holds(ev'.map, t, x) <=> Holds(ev.map, t, x) \/ t = ns
    PROVE  Abstract!Next
<1> DEFINE y == [time |-> ns, event |-> x]
           d == [s \in Sources |-> Due(ev, s)]
           e == [s \in Sources |-> Due(ev', s)]
<1>1. \A s \in Sources : Due(ev', s) = Due(ev, s)
  <2>1. x \notin Sources
    BY ExitIdentity
  <2> QED BY <2>1, DueKept, SMT
<1>2. e = d
  BY <1>1
<1>3. PendingExits(ev') = PendingExits(ev) \cup {y}
  <2>1. PendingExits(ev) = {z \in [time : Times, event : ExitIds] : Holds(ev.map, z.time, z.event)}
    BY ExitsHold
  <2>2. PendingExits(ev') = {z \in [time : Times, event : ExitIds] : Holds(ev'.map, z.time, z.event)}
    BY ExitsHold
  <2>3. ASSUME NEW z \in [time : Times, event : ExitIds]
        PROVE  Holds(ev'.map, z.time, z.event) <=> Holds(ev.map, z.time, z.event) \/ z = y
    <3>1. z = y <=> z.time = ns /\ z.event = x
      BY SMT
    <3> QED BY <3>1 DEF OnlyFor
  <2> QED BY <2>1, <2>2, <2>3
<1>4. y \in [time : Times, event : ExitIds]
  OBVIOUS
<1>5. Abstract!Exit(y)
  BY <1>2, <1>3 DEF Abstract!Exit
<1> QED BY <1>4, <1>5 DEF Abstract!Next

-----------------------------------------------------------------------------
(* Pops.                                                                   *)

\* What is pending in the table of deadlines is what the map holds.
LEMMA PendingHolds ==
    ASSUME NEW control, TableInv(ev, control)
    PROVE  /\ \A q \in Abstract!Pending : q = [time |-> q.time, event |-> q.event]
                                          /\ Holds(ev.map, q.time, q.event)
           /\ \A t, e : Holds(ev.map, t, e) => [time |-> t, event |-> e] \in Abstract!Pending
<1> DEFINE d == [s \in Sources |-> Due(ev, s)]
           owed == {[time |-> d[s], event |-> s] : s \in {x \in Sources : d[x] # NoTime}}
<1>1. Abstract!Pending = owed \cup PendingExits(ev)
  BY DEF Abstract!Pending
<1>2. PendingExits(ev) = {x \in [time : Times, event : ExitIds] : Holds(ev.map, x.time, x.event)}
  BY ExitsHold
<1>3. \A s \in Sources : /\ Due(ev, s) \in Times \cup {NoTime}
                         /\ \A t \in Times : Due(ev, s) = t <=> Holds(ev.map, t, s)
  BY DueHolds
<1>4. ASSUME NEW q \in owed
      PROVE  q = [time |-> q.time, event |-> q.event] /\ Holds(ev.map, q.time, q.event)
  <2>1. PICK x \in Sources : d[x] # NoTime /\ q = [time |-> d[x], event |-> x]
    BY <1>4
  <2>2. d[x] = Due(ev, x) /\ d[x] \in Times
    BY <1>3, <2>1
  <2>3. Holds(ev.map, d[x], x)
    BY <1>3, <2>2
  <2> QED BY <2>1, <2>3
<1>5. ASSUME NEW q \in PendingExits(ev)
      PROVE  q = [time |-> q.time, event |-> q.event] /\ Holds(ev.map, q.time, q.event)
  BY <1>2
<1>6. ASSUME NEW t, NEW e, Holds(ev.map, t, e)
      PROVE  [time |-> t, event |-> e] \in Abstract!Pending
  <2>1. t \in Times /\ e \in Events /\ NoTime \notin Times
    BY <1>6, TableShape, MapShape
  <2>2. CASE e \in Sources
    <3>1. d[e] = t /\ d[e] # NoTime
      BY <1>3, <1>6, <2>1, <2>2
    <3>2. [time |-> t, event |-> e] \in owed
      BY <2>2, <3>1
    <3> QED BY <1>1, <3>2
  <2>3. CASE e \in ExitIds
    BY <1>1, <1>2, <1>6, <2>1, <2>3
  <2> QED BY <2>1, <2>2, <2>3 DEF Events
<1> HIDE DEF owed, d
<1>7. \A q \in Abstract!Pending : q = [time |-> q.time, event |-> q.event]
                                  /\ Holds(ev.map, q.time, q.event)
  BY <1>1, <1>4, <1>5
<1> QED BY <1>6, <1>7

\* A pop reports the least pending event and moves its source on.
LEMMA PopStep ==
    ASSUME IInv, ~is_empty(ev), popped_time(ev) # MAX_TIME, NEW how \in Dispatches,
           ev' = Dispatched(pop(ev), popped_event(ev), popped_time(ev), how),
           popped' = [time |-> popped_time(ev), event |-> popped_event(ev)],
           UNCHANGED <<signal_control, armed>>
    PROVE  /\ TableInv(ev', signal_control) /\ Grid(ev.signal_timers)' /\ Sources # {}
           /\ Abstract!Next
<1> DEFINE t == popped_time(ev)
           e == popped_event(ev)
           c == signal_control
           s == ev.signal_timers[e]
<1>0. TableInv(ev, c) /\ Grid(ev.signal_timers) /\ committed_time \in Times /\ armed \in [TimerIds -> Times]
  BY DEF IInv
<1>1. /\ t \in Times /\ e \in Events /\ Holds(ev.map, t, e)
      /\ \A u, f : Holds(ev.map, u, f) => t < u \/ (t = u /\ (f = e \/ Before(e, f)))
  BY <1>0, PoppedIsLeast
<1>2. TableInv(ev', c) /\ OnlyFor({e}, ev, ev')
  BY Fires
<1>3. \/ ev'.signal_timers = ev.signal_timers
      \/ /\ e \in TimerIds /\ ev.signal_timers[e].deadline = t
         /\ \E r \in States :
               /\ Puts(ev, ev', e, r)
               /\ Advanced(ev.signal_timers[e], r, t, committed_time)
  BY Fires
<1>4. /\ e \notin TimerIds => \A u : Holds(ev'.map, u, e) <=> Holds(ev.map, u, e) /\ u # t
      /\ e \in TimerIds /\ ev'.signal_timers = ev.signal_timers => \A u : ~Holds(ev'.map, u, e)
  BY Fires
<1>5. t # MAX_TIME /\ NoTime \notin Times /\ ev.signal_timers \in [TimerIds -> States]
  BY <1>0, TableShape
<1> HIDE DEF t, e
<1>6. Grid(ev.signal_timers)' /\ (e \in TimerIds => \A u : Holds(ev'.map, u, e) => u > t \/ u = MAX_TIME)
  <2>1. CASE ev'.signal_timers = ev.signal_timers
    BY <1>0, <1>4, <2>1 DEF Grid
  <2>2. CASE ev'.signal_timers # ev.signal_timers
    <3>1. e \in TimerIds /\ s.deadline = t
      BY <1>3, <2>2
    <3>2. PICK r \in States : Puts(ev, ev', e, r) /\ Advanced(s, r, t, committed_time)
      BY <1>3, <2>2
    <3>3. ev'.signal_timers[e] = r /\ \A i \in TimerIds : i # e => ev'.signal_timers[i] = ev.signal_timers[i]
      BY <1>5, <3>1, <3>2, ButIs, SMT DEF Puts
    <3>4. s \in States /\ armed[e] \in Times /\ GridAt(s, armed[e])
      BY <1>0, <1>5, <3>1 DEF Grid
    <3>5. GridAt(r, armed[e]) /\ (r.phase = "Active" => r.deadline > t \/ r.deadline = MAX_TIME)
      BY <1>0, <1>5, <3>1, <3>2, <3>4, AdvancedOnGrid
    <3>6. Grid(ev.signal_timers)'
      BY <1>0, <3>3, <3>5 DEF Grid
    <3>7. ASSUME NEW u, Holds(ev'.map, u, e) PROVE u > t \/ u = MAX_TIME
      <4>1. Recorded(ev', e, u) /\ u \in Times
        BY <1>2, <3>1, <3>7 DEF TableInv
      <4>2. ev'.signal_timers[e].phase = "Active" /\ ev'.signal_timers[e].deadline = u
        <5>1. CASE c
          <6>1. e.rank = 0 => e = Alarm(e.pid) /\ e.pid \in Pids
            BY <3>1, TimerIdentity
          <6>2. e.rank = 0 => ev'.signal_timers = ev.signal_timers
            <7> SUFFICES ASSUME e.rank = 0 PROVE ev'.signal_timers = ev.signal_timers
              OBVIOUS
            <7>1. ev'.signal_timers[e] = Disarmed /\ ev.signal_timers[e] = Disarmed
              BY <1>0, <1>2, <5>1, <6>1 DEF TableInv
            <7>2. ev'.signal_timers \in [TimerIds -> States]
              BY <1>2, TableShape
            <7> QED BY <1>5, <3>3, <7>1, <7>2, SMT
          <6> QED BY <2>2, <4>1, <6>2 DEF Recorded
        <5>2. CASE ~c
          <6>1. e.pid \in Pids
            BY <3>1, TimerIdentity
          <6>2. ev'.controlled[e.pid] = NoTime
            BY <1>2, <5>2, <6>1 DEF TableInv
          <6> QED BY <1>5, <4>1, <6>2 DEF Recorded
        <5> QED BY <5>1, <5>2
      <4> QED BY <3>3, <3>5, <4>2
    <3> QED BY <3>6, <3>7
  <2> QED BY <2>1, <2>2
<1>7. Sources # {}
  BY <1>1, IdAssumption, AlarmIdentity, SMT DEF Events, Sources, ExitIds
<1>8. popped' = [time |-> t, event |-> e] /\ popped' # NoPop
  BY <1>1, <1>5 DEF NoPop, t, e
<1>9. popped' \in Abstract!Pending
  BY <1>0, <1>1, <1>8, PendingHolds, SMT
<1>10. Abstract!Least(popped')
  <2> SUFFICES ASSUME NEW q \in Abstract!Pending, q # popped'
               PROVE  t < q.time \/ (t = q.time /\ Before(e, q.event))
    BY <1>8, SMT DEF Abstract!Least
  <2>1. q = [time |-> q.time, event |-> q.event] /\ Holds(ev.map, q.time, q.event)
    BY <1>0, PendingHolds
  <2> QED BY <1>1, <1>8, <2>1
<1>11. ASSUME e \in Sources
       PROVE  /\ [x \in Sources |-> Due(ev', x)]
                    = [[x \in Sources |-> Due(ev, x)] EXCEPT ![e] = Due(ev', e)]
              /\ Due(ev', e) \in {NoTime, MAX_TIME} \/ Due(ev', e) > t
              /\ PendingExits(ev') = PendingExits(ev)
  <2>1. \A x \in Sources : x # e => Due(ev', x) = Due(ev, x)
    BY <1>0, <1>2, DueKept, SMT
  <2>2. PendingExits(ev') = PendingExits(ev)
    <3>1. {e} \cap ExitIds = {}
      BY <1>11, ExitIdentity
    <3> QED BY <1>0, <1>2, <3>1, ExitsKept
  <2>3. /\ Due(ev', e) \in Times \cup {NoTime}
        /\ \A u \in Times : Due(ev', e) = u <=> Holds(ev'.map, u, e)
    BY <1>2, <1>11, DueHolds
  <2>4. CASE e \in TimerIds
    BY <1>6, <2>1, <2>2, <2>3, <2>4
  <2>5. CASE e \notin TimerIds
    <3>1. e.pid \in Tids /\ e = ThreadEvt(e.pid)
      BY <1>11, <2>5, SourceIdentity
    <3>2. \A u : Holds(ev.map, u, e) => u = t
      BY <1>0, <1>1, <3>1, SMT DEF TableInv
    <3>3. \A u : ~Holds(ev'.map, u, e)
      BY <1>4, <2>5, <3>2
    <3> QED BY <2>1, <2>2, <2>3, <3>3
  <2> QED BY <2>4, <2>5
<1>12. ASSUME e \notin Sources
       PROVE  /\ \A x \in Sources : Due(ev', x) = Due(ev, x)
              /\ PendingExits(ev') = PendingExits(ev) \ {popped'}
  <2>1. e \in ExitIds /\ e \notin TimerIds
    BY <1>1, <1>12 DEF Events, Sources
  <2>2. \A x \in Sources : Due(ev', x) = Due(ev, x)
    BY <1>0, <1>2, <1>12, DueKept, SMT
  <2>3. PendingExits(ev) = {z \in [time : Times, event : ExitIds] : Holds(ev.map, z.time, z.event)}
    BY <1>0, ExitsHold
  <2>4. PendingExits(ev') = {z \in [time : Times, event : ExitIds] : Holds(ev'.map, z.time, z.event)}
    BY <1>2, ExitsHold
  <2>5. ASSUME NEW z \in [time : Times, event : ExitIds]
        PROVE  Holds(ev'.map, z.time, z.event) <=> Holds(ev.map, z.time, z.event) /\ z # popped'
    <3>1. z = popped' <=> z.time = t /\ z.event = e
      BY <1>8, SMT
    <3> QED BY <1>2, <1>4, <2>1, <3>1 DEF OnlyFor
  <2> QED BY <2>2, <2>3, <2>4, <2>5
<1>13. Abstract!Pop
  <2>1. CASE e \in Sources
    <3> DEFINE d == [x \in Sources |-> Due(ev, x)]
               n == [x \in Sources |-> Due(ev', x)]
    <3>1. n[e] = Due(ev', e) /\ popped'.event = e /\ popped'.time = t
      BY <1>8, <2>1, SMT
    <3>2. n = [d EXCEPT ![e] = n[e]] /\ PendingExits(ev') = PendingExits(ev)
      BY <1>11, <2>1, <3>1
    <3>3. n[e] \in {NoTime, MAX_TIME} \/ n[e] > t
      BY <1>11, <2>1, <3>1
    <3>4. n = [d EXCEPT ![popped'.event] = n[popped'.event]]
      BY <3>1, <3>2
    <3>5. n[popped'.event] \in {NoTime, MAX_TIME} \/ n[popped'.event] > popped'.time
      BY <3>1, <3>3
    <3>6. popped'.event \in Sources
      BY <2>1, <3>1
    <3> QED BY <1>8, <1>9, <1>10, <3>2, <3>4, <3>5, <3>6 DEF Abstract!Pop
  <2>2. CASE e \notin Sources
    BY <1>8, <1>9, <1>10, <1>12, <2>2, SMT DEF Abstract!Pop
  <2> QED BY <2>1, <2>2
<1> QED BY <1>2, <1>6, <1>7, <1>13 DEF Abstract!Next

-----------------------------------------------------------------------------
(* Every step keeps the invariant and is a step of the table of deadlines. *)

\* A step that touches one source and no signal timer.
LEMMA SourceStep ==
    ASSUME IInv, UNCHANGED <<signal_control, Clock, armed>>, popped' = NoPop,
           NEW src \in Sources, TableInv(ev', signal_control), OnlyFor({src}, ev, ev'),
           ev'.signal_timers = ev.signal_timers
    PROVE  IInv' /\ Abstract!Next
<1>1. IInv'
  BY DEF IInv, Clock, Grid
<1>2. Abstract!Next
  BY SetStep DEF IInv
<1> QED BY <1>1, <1>2

\* A step that gives one signal timer the state r.
LEMMA TimerStep ==
    ASSUME IInv, UNCHANGED <<signal_control, Clock>>, popped' = NoPop,
           NEW id \in TimerIds, TableInv(ev', signal_control), OnlyFor({id}, ev, ev'),
           NEW r \in States, Puts(ev, ev', id, r),
           armed' \in [TimerIds -> Times], GridAt(r, armed'[id]),
           \A i \in TimerIds : i # id => armed'[i] = armed[i]
    PROVE  IInv' /\ Abstract!Next
<1>1. ev.signal_timers \in [TimerIds -> States]
  BY TableShape DEF IInv
<1>2. ev'.signal_timers[id] = r /\ \A i \in TimerIds : i # id => ev'.signal_timers[i] = ev.signal_timers[i]
  BY <1>1, ButIs, SMT DEF Puts
<1>3. Grid(ev.signal_timers)'
  BY <1>2 DEF IInv, Grid
<1>4. IInv'
  BY <1>3 DEF IInv, Clock
<1>5. id \in Sources
  BY TimerIdentity
<1>6. Abstract!Next
  BY <1>5, SetStep DEF IInv
<1> QED BY <1>4, <1>6

\* A thread's wait begins or ends.
LEMMA SleepStep ==
    ASSUME IInv, UNCHANGED signal_control, NEW t \in Tids,
           EndSleep(t) \/ \E ns \in Times : Sleep(t, ns)
    PROVE  IInv' /\ Abstract!Next
<1>0. ThreadEvt(t) \in Sources /\ TableInv(ev, signal_control)
  BY ThreadIdentity DEF IInv
<1>1. CASE EndSleep(t)
  <2>1. /\ TableInv(ev', signal_control) /\ OnlyFor({ThreadEvt(t)}, ev, ev')
        /\ ev'.signal_timers = ev.signal_timers
    BY <1>0, <1>1, RemoveThread DEF EndSleep
  <2> QED BY <1>0, <1>1, <2>1, SourceStep DEF EndSleep
<1>2. ASSUME NEW ns \in Times, Sleep(t, ns) PROVE IInv' /\ Abstract!Next
  <2>1. /\ TableInv(ev', signal_control) /\ OnlyFor({ThreadEvt(t)}, ev, ev')
        /\ ev'.signal_timers = ev.signal_timers
    BY <1>0, <1>2, InsertThread DEF Sleep
  <2> QED BY <1>0, <1>2, <2>1, SourceStep DEF Sleep
<1> QED BY <1>1, <1>2

\* A controlled alarm's deadline is set or taken away.
LEMMA ControlledStep ==
    ASSUME IInv, UNCHANGED signal_control, NEW p \in Pids,
           DisarmControlled(p) \/ \E ns \in Times \ {0} : ArmControlled(p, ns)
    PROVE  IInv' /\ Abstract!Next
<1>0. Alarm(p) \in Sources /\ TableInv(ev, signal_control)
  BY AlarmIdentity, TimerIdentity DEF IInv
<1>1. CASE DisarmControlled(p)
  <2>1. /\ TableInv(ev', signal_control) /\ OnlyFor({Alarm(p)}, ev, ev')
        /\ ev'.signal_timers = ev.signal_timers
    BY <1>0, <1>1, RemoveControlled DEF DisarmControlled
  <2> QED BY <1>0, <1>1, <2>1, SourceStep DEF DisarmControlled
<1>2. ASSUME NEW ns \in Times, ArmControlled(p, ns) PROVE IInv' /\ Abstract!Next
  <2>1. /\ TableInv(ev', signal_control) /\ OnlyFor({Alarm(p)}, ev, ev')
        /\ ev'.signal_timers = ev.signal_timers
    BY <1>0, <1>2, InsertControlled DEF ArmControlled
  <2> QED BY <1>0, <1>2, <2>1, SourceStep DEF ArmControlled
<1> QED BY <1>1, <1>2

\* A signal timer is armed, which starts its grid.
LEMMA ArmStep ==
    ASSUME IInv, UNCHANGED signal_control, NEW id \in TimerIds,
           NEW ns \in Times, NEW interval \in Intervals, Arm(id, ns, interval)
    PROVE  IInv' /\ Abstract!Next
<1> DEFINE r == [deadline |-> ns, interval |-> interval, phase |-> "Active"]
<1>0. TableInv(ev, signal_control) /\ interval \in Times /\ r \in States /\ ns \in Nat /\ interval \in Nat
  BY TimerAssumption, TimeAssumption, SMT DEF IInv, States, Phases, Times
<1>1. /\ TableInv(ev', signal_control) /\ OnlyFor({id}, ev, ev')
      /\ Puts(ev, ev', id, r)
  BY <1>0, InsertSignalTimer DEF Arm
<1>2. /\ armed' \in [TimerIds -> Times] /\ armed'[id] = ns
      /\ \A i \in TimerIds : i # id => armed'[i] = armed[i]
  BY DEF Arm, IInv
<1>3. OnGrid(ns, ns, interval)
  <2>1. ns = ns + 0 * interval
    BY <1>0, SMT
  <2> QED BY <2>1 DEF OnGrid
<1>4. GridAt(r, armed'[id])
  BY <1>2, <1>3 DEF GridAt
<1> HIDE DEF r
<1> QED BY <1>0, <1>1, <1>2, <1>4, TimerStep DEF Arm

\* A signal timer is disarmed.
LEMMA DisarmStep ==
    ASSUME IInv, UNCHANGED signal_control, NEW id \in TimerIds, Disarm(id)
    PROVE  IInv' /\ Abstract!Next
<1>0. TableInv(ev, signal_control) /\ Disarmed \in States
  BY TimeAssumption, SMT DEF IInv, States, Phases, Times, Disarmed
<1>1. signal_control => id.rank # 0
  BY <1>0, TimerIdentity, SMT DEF Disarm, TableInv, Disarmed
<1>2. /\ TableInv(ev', signal_control) /\ OnlyFor({id}, ev, ev')
      /\ Puts(ev, ev', id, Disarmed)
  BY <1>0, <1>1, RemoveSignalTimer DEF Disarm
<1>3. /\ armed' \in [TimerIds -> Times] /\ armed' = armed
      /\ GridAt(Disarmed, armed'[id])
  BY DEF Disarm, IInv, GridAt, Disarmed
<1> QED BY <1>0, <1>2, <1>3, TimerStep DEF Disarm

\* A dequeue at t restarts the timer on its grid, later than both its last
\* expiry and t, or at the end of time.
LEMMA RearmStep ==
    ASSUME IInv, UNCHANGED signal_control, NEW id \in TimerIds,
           NEW t \in 0..committed_time, Rearm(id, t)
    PROVE  /\ IInv' /\ Abstract!Next
           /\ ev'.signal_timers[id].deadline > t
           /\ ev'.signal_timers[id].deadline > ev.signal_timers[id].deadline
<1> DEFINE s == ev.signal_timers[id]
           next == grid_after(s.deadline, s.interval, t)
           r == [deadline |-> next, interval |-> s.interval, phase |-> "Active"]
<1>0. /\ TableInv(ev, signal_control) /\ is_inactive(s) /\ t \in Times /\ t < MAX_TIME
      /\ committed_time \in Times /\ armed \in [TimerIds -> Times]
  BY TimeAssumption, SMT DEF IInv, Rearm, Times
<1>1. s \in States /\ s.deadline \in Times /\ s.interval \in Times
  BY <1>0, TableShape DEF States
<1>2. s.deadline # MAX_TIME /\ s.interval # 0 /\ s.deadline < MAX_TIME
  <2>1. s.deadline # MAX_TIME /\ s.interval # 0
    BY <1>0 DEF TableInv
  <2> QED BY <1>1, <2>1, TimeAssumption, SMT DEF Times
<1>3. /\ next \in Times
      /\ next = MAX_TIME \/ (next > s.deadline /\ next > t)
  <2> HIDE DEF s
  <2> QED BY <1>0, <1>1, GridAfter
<1>4. r \in States
  BY <1>1, <1>3 DEF States, Phases
<1>5. /\ TableInv(ev', signal_control) /\ OnlyFor({id}, ev, ev')
      /\ Puts(ev, ev', id, r)
  BY <1>0, SignalTimerRearmAfter DEF Rearm
<1>6. GridAt(s, armed[id])
  BY DEF IInv, Grid
<1>7. Advanced(s, r, s.deadline, t)
  BY <1>2 DEF Advanced
<1> HIDE DEF r, next
<1>8. GridAt(r, armed[id]) /\ armed[id] \in Times
  <2> HIDE DEF s
  <2> QED BY <1>0, <1>1, <1>2, <1>4, <1>6, <1>7, AdvancedOnGrid
<1>9. armed' = armed
  BY DEF Rearm
<1>10. IInv' /\ Abstract!Next
  BY <1>0, <1>4, <1>5, <1>8, <1>9, TimerStep DEF Rearm
<1>11. ev'.signal_timers[id] = r
  <2>1. ev.signal_timers \in [TimerIds -> States]
    BY <1>0, TableShape
  <2>2. ev'.signal_timers = But(ev.signal_timers, id, r)
    BY <1>5 DEF Puts
  <2> QED BY <1>4, <2>1, <2>2, ButIs, SMT
<1>12. r.deadline > t /\ r.deadline > s.deadline
  BY <1>0, <1>1, <1>2, <1>3 DEF r
<1> QED BY <1>10, <1>11, <1>12

\* A copy of the signal appears or goes; the timer keeps its deadline.
LEMMA SetCopyStep ==
    ASSUME IInv, UNCHANGED signal_control, NEW p \in Pids, NEW copy \in BOOLEAN, SetCopy(p, copy)
    PROVE  IInv' /\ Abstract!Next
<1> DEFINE id == Alarm(p)
           s == ev.signal_timers[id]
           r == [deadline |-> s.deadline, interval |-> s.interval, phase |-> Inactive(copy)]
<1>0. /\ TableInv(ev, signal_control) /\ id \in TimerIds
      /\ armed \in [TimerIds -> Times] /\ armed' = armed /\ is_inactive(s)
  BY AlarmIdentity DEF IInv, SetCopy
<1>1. r \in States
  BY <1>0, TableShape DEF States, Phases, Inactive
<1>2. GridAt(r, armed'[id])
  BY <1>0 DEF IInv, Grid, GridAt
<1>3. /\ TableInv(ev', signal_control) /\ OnlyFor({id}, ev, ev')
      /\ Puts(ev, ev', id, r)
  BY <1>0, AlarmSetCopy DEF SetCopy
<1> HIDE DEF r, id
<1> QED BY <1>0, <1>1, <1>2, <1>3, TimerStep DEF SetCopy

\* A child exit is put on its way.
LEMMA ChildExitsStep ==
    ASSUME IInv, UNCHANGED signal_control, NEW p \in Pids, NEW c \in Pids, ChildExits(c, p)
    PROVE  IInv' /\ Abstract!Next
<1> DEFINE x == ChildExit(c, p)
           ns == Plus(committed_time, 1)
<1>0. TableInv(ev, signal_control) /\ x \in ExitIds /\ ns \in Times
  BY PlusTime, TimeAssumption, SMT DEF IInv, ExitIds, Times
<1>1. /\ TableInv(ev', signal_control) /\ OnlyFor({x}, ev, ev')
      /\ ev'.signal_timers = ev.signal_timers
      /\ \A t : Holds(ev'.map, t, x) <=> Holds(ev.map, t, x) \/ t = ns
  BY <1>0, InsertChildExit, SMT DEF ChildExits
<1>2. IInv'
  BY <1>1 DEF IInv, ChildExits, Clock, Grid
<1> HIDE DEF x, ns
<1>3. Abstract!Next
  BY <1>0, <1>1, ExitStep DEF ChildExits
<1> QED BY <1>2, <1>3

\* What an exec or the end of a process removes.
LEMMA RemovalStep ==
    ASSUME IInv, UNCHANGED <<signal_control, Clock, armed>>, popped' = NoPop,
           NEW p \in Pids, NEW ids \in SUBSET TimerIds, \A id \in ids : id.pid = p,
           TableInv(ev', signal_control), OnlyFor(ids, ev, ev'),
           \A id \in ids : \A t : ~Holds(ev'.map, t, id),
           \A id \in TimerIds : ev'.signal_timers[id] = Disarmed
                                \/ ev'.signal_timers[id] = ev.signal_timers[id]
    PROVE  IInv' /\ Abstract!Next
<1>1. \A id \in TimerIds : GridAt(ev.signal_timers[id], armed[id])
  BY DEF IInv, Grid
<1>2. \A a : GridAt(Disarmed, a)
  BY DEF GridAt, Disarmed
<1>3. Grid(ev.signal_timers)'
  <2> SUFFICES ASSUME NEW id \in TimerIds PROVE GridAt(ev'.signal_timers[id], armed[id])
    BY DEF Grid
  <2>1. CASE ev'.signal_timers[id] = Disarmed
    BY <1>2, <2>1
  <2>2. CASE ev'.signal_timers[id] = ev.signal_timers[id]
    BY <1>1, <2>2
  <2> QED BY <2>1, <2>2
<1>4. IInv'
  BY <1>3 DEF IInv, Clock
<1>5. Abstract!Next
  BY CancelStep DEF IInv
<1> QED BY <1>4, <1>5

\* An exec removes the POSIX timers of its process.
LEMMA ExecStep ==
    ASSUME IInv, UNCHANGED signal_control, NEW p \in Pids, Exec(p)
    PROVE  IInv' /\ Abstract!Next
<1> DEFINE ids == {Posix(p, i) : i \in PosixIds}
<1>0. TableInv(ev, signal_control)
  BY DEF IInv
<1>1. ids \in SUBSET TimerIds /\ \A id \in ids : id.pid = p /\ id.rank # 0
  BY PosixIdentity, SMT
<1>2. ev' = RemoveTimers(ev, ids)
  BY DEF Exec, remove_posix_timers
<1> HIDE DEF ids
<1>3. \A id \in ids : id.rank = 0 => ev.controlled[id.pid] = NoTime
  BY <1>1
<1>4. /\ TableInv(ev', signal_control) /\ OnlyFor(ids, ev, ev')
      /\ \A id \in ids : \A t : ~Holds(ev'.map, t, id)
      /\ ev'.signal_timers = [id \in TimerIds |->
            IF id \in ids THEN Disarmed ELSE ev.signal_timers[id]]
  BY <1>0, <1>1, <1>2, <1>3, RemovesTimers, SMT
<1>5. \A id \in TimerIds : ev'.signal_timers[id] = Disarmed
                           \/ ev'.signal_timers[id] = ev.signal_timers[id]
  BY <1>4
<1> QED BY <1>1, <1>4, <1>5, RemovalStep DEF Exec

\* The end of a process removes its alarm, controlled or not, and its timers.
LEMMA ProcessEndsStep ==
    ASSUME IInv, UNCHANGED signal_control, NEW p \in Pids, ProcessEnds(p)
    PROVE  IInv' /\ Abstract!Next
<1> DEFINE ids == {id \in TimerIds : id.pid = p}
           mid == remove_controlled_real_timer_deadline(ev, p)
<1>0. TableInv(ev, signal_control)
  BY DEF IInv
<1>1. /\ TableInv(mid, signal_control) /\ OnlyFor({Alarm(p)}, ev, mid)
      /\ mid.signal_timers = ev.signal_timers
      /\ mid.controlled = [ev.controlled EXCEPT ![p] = NoTime]
  BY <1>0, RemoveControlled
<1>2. ids \in SUBSET TimerIds /\ (\A id \in ids : id.pid = p) /\ Alarm(p) \in ids
  BY AlarmIdentity
<1>3. ev' = RemoveTimers(mid, ids)
  BY DEF ProcessEnds, remove_process_timers
<1> HIDE DEF ids, mid
<1>4. \A id \in ids : id.rank = 0 => mid.controlled[id.pid] = NoTime
  BY <1>0, <1>1, <1>2, TableShape
<1>5. /\ TableInv(ev', signal_control) /\ OnlyFor(ids, mid, ev')
      /\ \A id \in ids : \A t : ~Holds(ev'.map, t, id)
      /\ ev'.signal_timers = [id \in TimerIds |->
            IF id \in ids THEN Disarmed ELSE mid.signal_timers[id]]
  <2>1. TableInv(mid, signal_control) /\ ids \in SUBSET TimerIds
    BY <1>1, <1>2
  <2> QED BY ONLY <2>1, <1>3, <1>4, RemovesTimers, SMTT(30)
<1>6. OnlyFor(ids, ev, ev')
  BY <1>1, <1>2, <1>5 DEF OnlyFor
<1>7. \A id \in TimerIds : ev'.signal_timers[id] = Disarmed
                           \/ ev'.signal_timers[id] = ev.signal_timers[id]
  BY <1>1, <1>5
<1> QED BY <1>2, <1>5, <1>6, <1>7, RemovalStep DEF ProcessEnds

\* step2b_process_timed pops what is due.
LEMMA FireStep ==
    ASSUME IInv, UNCHANGED signal_control, NEW how \in Dispatches, Fire(how)
    PROVE  IInv' /\ Abstract!Next
<1>1. ~is_empty(ev) /\ popped_time(ev) <= committed_time
  BY DEF Fire, pop_is_due, popped_time
<1>2. popped_time(ev) # MAX_TIME
  <2>1. popped_time(ev) \in Times
    BY <1>1, PoppedIsLeast DEF IInv
  <2> QED BY <1>1, <2>1, TimeAssumption, SMT DEF IInv, Times
<1>3. /\ TableInv(ev', signal_control) /\ Grid(ev.signal_timers)' /\ Sources # {}
      /\ Abstract!Next
  BY <1>1, <1>2, PopStep DEF Fire
<1> QED BY <1>3 DEF IInv, Fire, Clock

\* step2d_decide_empty_queue skips ahead to a deadline before the end of time.
LEMMA SkipAheadStep ==
    ASSUME IInv, UNCHANGED signal_control, NEW how \in Dispatches, SkipAhead(how)
    PROVE  IInv' /\ Abstract!Next
<1>1. ~is_empty(ev) /\ popped_time(ev) # MAX_TIME
  BY DEF SkipAhead, popped_time
<1>2. popped_time(ev) \in Times
  BY <1>1, PoppedIsLeast DEF IInv
<1>3. /\ TableInv(ev', signal_control) /\ Grid(ev.signal_timers)' /\ Sources # {}
      /\ Abstract!Next
  BY <1>1, PopStep DEF SkipAhead
<1>4. global_time' \in Times /\ global_time' # MAX_TIME
  BY <1>1, <1>2 DEF SkipAhead, IInv
<1> QED BY <1>3, <1>4 DEF IInv, SkipAhead

\* The clocks move and the table stays.
LEMMA ClockStep ==
    ASSUME IInv, UNCHANGED signal_control, Run \/ CommitTime
    PROVE  IInv' /\ (Abstract!Next \/ UNCHANGED Abstract!vars)
<1>1. UNCHANGED <<ev, armed>> /\ popped' = NoPop
  BY DEF Run, CommitTime
<1>2. IInv'
  <2>1. /\ committed_time' \in Times /\ committed_time' # MAX_TIME
        /\ global_time' \in Times /\ global_time' # MAX_TIME
    BY TimeAssumption, SMT DEF IInv, Run, CommitTime, Times
  <2> QED BY <1>1, <2>1 DEF IInv, Grid
<1>3. CASE popped = NoPop
  <2>1. ev' = ev /\ popped' = popped
    BY <1>1, <1>3
  <2>2. UNCHANGED Abstract!vars
    BY <2>1 DEF Abstract!vars
  <2> QED BY <1>2, <2>2
<1>4. CASE popped # NoPop
  <2>1. PICK src \in Sources : TRUE
    BY <1>4 DEF IInv
  <2>2. OnlyFor({src}, ev, ev')
    BY <1>1 DEF OnlyFor
  <2>3. TableInv(ev, signal_control) /\ TableInv(ev', signal_control)
    BY <1>1 DEF IInv
  <2> QED BY <1>1, <1>2, <2>2, <2>3, SetStep
<1> QED BY <1>2, <1>3, <1>4

\* Every step keeps the invariant and is one of the table of deadlines.
LEMMA NextStep ==
    ASSUME IInv, [Next]_vars
    PROVE  IInv' /\ (Abstract!Next \/ UNCHANGED Abstract!vars)
<1>1. CASE UNCHANGED vars
  <2>1. IInv'
    BY <1>1 DEF IInv, vars, Grid
  <2>2. UNCHANGED Abstract!vars
    BY <1>1 DEF vars, Abstract!vars
  <2> QED BY <2>1, <2>2
<1>2. CASE Next
  <2>0. UNCHANGED signal_control
    BY <1>2 DEF Next
  <2>1. ASSUME NEW t \in Tids, EndSleep(t) \/ \E ns \in Times : Sleep(t, ns)
        PROVE  IInv' /\ Abstract!Next
    BY <2>0, <2>1, SleepStep
  <2>2. ASSUME NEW id \in TimerIds, NEW ns \in Times \ {0}, NEW interval \in Intervals,
               Arm(id, ns, interval)
        PROVE  IInv' /\ Abstract!Next
    BY <2>0, <2>2, ArmStep
  <2>3. ASSUME NEW id \in TimerIds, Disarm(id) PROVE IInv' /\ Abstract!Next
    BY <2>0, <2>3, DisarmStep
  <2>4. ASSUME NEW id \in TimerIds, NEW t \in 0..committed_time, Rearm(id, t)
        PROVE  IInv' /\ Abstract!Next
    BY <2>0, <2>4, RearmStep
  <2>5. ASSUME NEW p \in Pids, DisarmControlled(p) \/ \E ns \in Times \ {0} : ArmControlled(p, ns)
        PROVE  IInv' /\ Abstract!Next
    BY <2>0, <2>5, ControlledStep
  <2>6. ASSUME NEW p \in Pids, Exec(p) PROVE IInv' /\ Abstract!Next
    BY <2>0, <2>6, ExecStep
  <2>7. ASSUME NEW p \in Pids, ProcessEnds(p) PROVE IInv' /\ Abstract!Next
    BY <2>0, <2>7, ProcessEndsStep
  <2>8. ASSUME NEW p \in Pids, NEW c \in Pids, ChildExits(c, p) PROVE IInv' /\ Abstract!Next
    BY <2>0, <2>8, ChildExitsStep
  <2>9. ASSUME NEW p \in Pids, NEW copy \in BOOLEAN, SetCopy(p, copy)
        PROVE  IInv' /\ Abstract!Next
    BY <2>0, <2>9, SetCopyStep
  <2>10. ASSUME NEW how \in Dispatches, Fire(how) PROVE IInv' /\ Abstract!Next
    BY <2>0, <2>10, FireStep
  <2>11. ASSUME NEW how \in Dispatches, SkipAhead(how) PROVE IInv' /\ Abstract!Next
    BY <2>0, <2>11, SkipAheadStep
  <2>12. CASE Run \/ CommitTime
    BY <2>0, <2>12, ClockStep
  <2> QED
    BY <1>2, <2>1, <2>2, <2>3, <2>4, <2>5, <2>6, <2>7, <2>8, <2>9, <2>10, <2>11, <2>12 DEF Next
<1> QED BY <1>1, <1>2

\* The empty TimedEvents is the empty table.
LEMMA InitStep ==
    ASSUME Init
    PROVE  IInv /\ Abstract!Init
<1>1. /\ ev.map = [t \in {} |-> {}] /\ ev.signal_timers = [id \in TimerIds |-> Disarmed]
      /\ ev.controlled = [p \in Pids |-> NoTime]
  BY DEF Init, empty
<1>2. ev.map \in Maps /\ \A t, e : ~Holds(ev.map, t, e)
  <2>1. ev.map \in [{} -> (SUBSET Events) \ {{}}] /\ {} \in SUBSET Times
    BY <1>1
  <2>2. \A t, e : ~Holds(ev.map, t, e)
    BY <1>1 DEF Holds
  <2> QED BY <2>1, <2>2, IsMap
<1>3. Disarmed \in States /\ NoTime \notin Times
  BY TimeAssumption, SMT DEF Disarmed, States, Phases, Times, NoTime
<1>4. ev \in Tables
  BY <1>1, <1>2, <1>3 DEF Tables, Init, empty
<1>5. TableInv(ev, signal_control)
  <2>1. \A id \in TimerIds : \A t : ~(Recorded(ev, id, t) /\ t \in Times)
    BY <1>1, <1>3, TimerIdentity, SMT DEF Recorded, Disarmed
  <2> QED BY <1>1, <1>2, <1>4, <2>1, AlarmIdentity, SMT DEF TableInv, is_inactive, Disarmed
<1>6. Grid(ev.signal_timers)
  BY <1>1, SMT DEF Grid, GridAt, Disarmed
<1>7. IInv
  BY <1>5, <1>6, TimeAssumption, SMT DEF IInv, Init, Times
<1>8. \A s \in Sources : Due(ev, s) = NoTime
  <2> SUFFICES ASSUME NEW s \in Sources PROVE Due(ev, s) = NoTime
    OBVIOUS
  <2>1. /\ Due(ev, s) \in Times \cup {NoTime}
        /\ \A t \in Times : Due(ev, s) = t <=> Holds(ev.map, t, s)
    BY <1>5, DueHolds
  <2> QED BY <1>2, <2>1
<1>9. PendingExits(ev) = {}
  BY <1>2, <1>5, ExitsHold
<1>10. Abstract!Init
  BY <1>8, <1>9 DEF Abstract!Init, Init
<1> QED BY <1>7, <1>10

-----------------------------------------------------------------------------
(* The theorems.                                                           *)

\* The inductive invariant holds throughout.
LEMMA Invariant == Spec => []IInv
<1>1. Init => IInv
  BY InitStep
<1>2. IInv /\ [Next]_vars => IInv'
  BY NextStep
<1> QED BY <1>1, <1>2, PTL DEF Spec

\* The event of every timer is in the map exactly at the deadline that
\* signal_timers or controlled_real_timer_deadlines record for it, whatever the
\* guests arm, cancel, miss and dequeue: TimedEvents needs no check for stale
\* events when it pops.
THEOREM NoStaleEvent == Spec => []MapMatchesTimers
<1>1. ASSUME IInv PROVE MapMatchesTimers
  <2> SUFFICES ASSUME NEW id \in TimerIds, NEW t \in DOMAIN ev.map \cup Times
               PROVE  Holds(ev.map, t, id) <=> Recorded(ev, id, t)
    BY DEF MapMatchesTimers, Recorded
  <2>1. t \in Times
    BY <1>1, TableShape, MapShape DEF IInv
  <2> QED BY <1>1, <2>1 DEF IInv, TableInv
<1> QED BY <1>1, Invariant, PTL

\* A periodic timer keeps to the grid of its arming, as hrtimer_forward does,
\* for every interval, every number of missed periods and every order of
\* expiries, dequeues and cancellations, until LogicalTime saturates.
THEOREM TimersKeepTheirGrid == Spec => []OnItsGrid
<1>1. ASSUME IInv PROVE OnItsGrid
  <2> SUFFICES ASSUME NEW id \in TimerIds, ev.signal_timers[id].interval # 0,
                      ev.signal_timers[id].deadline # MAX_TIME
               PROVE  LET s == ev.signal_timers[id]
                      IN  /\ s.deadline >= armed[id]
                          /\ (s.deadline - armed[id]) % s.interval = 0
    BY DEF OnItsGrid
  <2> DEFINE s == ev.signal_timers[id]
             d == s.deadline
             i == s.interval
             a == armed[id]
  <2>1. s \in States
    BY <1>1, TableShape DEF IInv
  <2>2. d \in Nat /\ i \in Nat \ {0} /\ a \in Nat
    BY <1>1, <2>1, TimeAssumption, SMT DEF IInv, States, Times
  <2>3. OnGrid(d, a, i)
    BY <1>1 DEF IInv, Grid, GridAt
  <2> HIDE DEF d, i, a
  <2>4. PICK n \in Nat : d = a + n * i
    BY <2>3 DEF OnGrid
  <2>5. n * i \in Nat /\ (n * i) % i = 0
    BY <2>2, NoRemainder, SMT
  <2>6. d >= a /\ d - a = n * i
    <3> DEFINE m == n * i
    <3>1. m \in Nat /\ d = a + m
      BY <2>4, <2>5
    <3> HIDE DEF m
    <3>2. d >= a /\ d - a = m
      BY <2>2, <3>1, SMT
    <3> QED BY <3>2 DEF m
  <2>7. d >= a /\ (d - a) % i = 0
    BY <2>5, <2>6
  <2> QED BY <2>7 DEF d, a, i
<1> QED BY <1>1, Invariant, PTL

\* A timer that a dequeue restarts (signal_timer_rearm_after) or that is
\* forwarded after its pop (signal_timer_after_fire) next expires strictly
\* later than the dequeue or the committed time, and than its last expiry:
\* missed periods are never replayed in a burst.
THEOREM NoBurstOfMissedPeriods == Spec => RearmsLater
<1> DEFINE Later(id) ==
             LET s == ev.signal_timers[id]
                 r == ev'.signal_timers[id]
             IN  r # s /\ r.phase = "Active" =>
                   /\ \A t \in 0..committed_time :
                         Rearm(id, t) => r.deadline > t /\ r.deadline > s.deadline
                   /\ Fire("forwarded") /\ ~signal_control /\ id = popped'.event
                      => r.deadline > committed_time
<1>1. ASSUME IInv, Next, NEW id \in TimerIds PROVE Later(id)
  <2>0. UNCHANGED signal_control
    BY <1>1 DEF Next
  <2>1. ASSUME NEW t \in 0..committed_time, Rearm(id, t)
        PROVE  /\ ev'.signal_timers[id].deadline > t
               /\ ev'.signal_timers[id].deadline > ev.signal_timers[id].deadline
    BY <1>1, <2>0, <2>1, RearmStep
  <2>2. ASSUME Fire("forwarded"), ~signal_control, id = popped'.event,
               ev'.signal_timers[id] # ev.signal_timers[id],
               ev'.signal_timers[id].phase = "Active"
        PROVE  ev'.signal_timers[id].deadline > committed_time
    <3> DEFINE e == popped_event(ev)
               t == popped_time(ev)
    <3>1. ~is_empty(ev) /\ t <= committed_time /\ id = e
      BY <2>2 DEF Fire, pop_is_due, popped_time
    <3>2. t \in Times /\ t # MAX_TIME /\ committed_time \in Times /\ committed_time < MAX_TIME
      <4>1. t \in Times
        BY <1>1, <3>1, PoppedIsLeast DEF IInv
      <4> QED BY <1>1, <3>1, <4>1, TimeAssumption, SMT DEF IInv, Times
    <3>3. "forwarded" \in Dispatches /\ ev' = Dispatched(pop(ev), popped_event(ev), popped_time(ev), "forwarded")
      BY <2>2 DEF Fire, Dispatches
    <3>4. ev'.signal_timers # ev.signal_timers
      BY <2>2
    <3>5. PICK r \in States :
             /\ Puts(ev, ev', e, r)
             /\ "forwarded" = "forwarded" /\ ~signal_control /\ r.phase = "Active" =>
                   r.deadline = grid_after(t, r.interval, committed_time)
      BY <1>1, <3>1, <3>2, <3>3, <3>4, Fires
    <3>6. ev'.signal_timers[id] = r
      <4>1. ev.signal_timers \in [TimerIds -> States]
        BY <1>1, TableShape DEF IInv
      <4>2. ev'.signal_timers = But(ev.signal_timers, id, r)
        BY <3>1, <3>5 DEF Puts
      <4> QED BY <1>1, <4>1, <4>2, ButIs, SMT
    <3>7. r.deadline = grid_after(t, r.interval, committed_time) /\ r.interval \in Times
      BY <2>2, <3>5, <3>6 DEF States
    <3> HIDE DEF t, e
    <3>8. \/ r.deadline = MAX_TIME
          \/ r.deadline > committed_time
      BY <3>2, <3>7, GridAfter, SMT
    <3> QED BY <3>2, <3>6, <3>8
  <2> QED BY <2>1, <2>2
<1>2. IInv /\ [Next]_vars => [\A id \in TimerIds : Later(id)]_vars
  BY <1>1
<1>3. Spec => [][\A id \in TimerIds : Later(id)]_vars
  BY <1>2, Invariant, PTL DEF Spec
<1> QED BY <1>3 DEF RearmsLater

\* The index that TimedEvents keeps is a table with one deadline per thread or
\* timer: every insertion, cancellation and re-arming touches only its own
\* source, and a pop reports the least of all pending deadlines and leaves the
\* others alone.
THEOREM DeadlineRefinement == Spec => ImplementsDeadlineTable
<1>1. Init => Abstract!Init
  BY InitStep
<1>2. IInv /\ [Next]_vars => [Abstract!Next]_(Abstract!vars)
  BY NextStep
<1> QED BY <1>1, <1>2, Invariant, PTL DEF Spec, ImplementsDeadlineTable, Abstract!Spec
=============================================================================
